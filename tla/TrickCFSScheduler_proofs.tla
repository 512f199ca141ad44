----------------------- MODULE TrickCFSScheduler_proofs -----------------------
(***************************************************************************)
(* Proofs about the slots of SCH, for every number of slots and entries,   *)
(* every table and every number of calls: each slot sends what is due in   *)
(* it, and validated tables are never found corrupt.                       *)
(***************************************************************************)
EXTENDS TrickCFSScheduler, ArithmeticFacts, TLAPS

\* Short names: the period of a slot, the number of slots, the entries of a slot.
P == SCH_NORMAL_SLOT_PERIOD
T == SCH_TOTAL_SLOTS
E == SCH_ENTRIES_PER_SLOT

LEMMA Constants ==
  /\ P \in Nat \ {0, 1} /\ T \in Nat \ {0} /\ E \in Nat \ {0}
  /\ SCH_MAX_MESSAGES \in Nat \ {0}
  /\ SCH_MICROS_PER_MAJOR_FRAME = P * T
  /\ P * T \in Nat \ {0}
<1>1. P \in Nat \ {0, 1} /\ T \in Nat \ {0} /\ E \in Nat \ {0}
  BY SlotsAssumption DEF P, T, E
<1>2. P * T \in Nat \ {0}
  BY <1>1, RowInTable
<1> QED BY <1>1, <1>2, SlotsAssumption DEF P, T

\* The time and the slot of call number c.
Time(c) == start + c * P
Slot(c) == ((start + 1) \div P + c) % T

\* The second of a time and the place in the second, of which the place in the slot
\* is the rest.
LEMMA TimeInSlots ==
  ASSUME NEW t \in Nat
  PROVE  \E s \in Int, a \in 0 .. T - 1, b \in 0 .. P - 1 :
           /\ t \div SCH_MICROS_PER_MAJOR_FRAME = s
           /\ t % SCH_MICROS_PER_MAJOR_FRAME = P * a + b
           /\ t = P * (T * s + a) + b
<1> DEFINE n == t \div P
           b == t % P
           s == n \div T
           a == n % T
<1>1. P \in Nat \ {0} /\ T \in Nat \ {0} /\ P * T \in Nat \ {0}
  BY Constants
<1>2. n \in Int /\ b \in 0 .. P - 1 /\ t = P * n + b
  BY <1>1, QuotientRemainder
<1>3. s \in Int /\ a \in 0 .. T - 1 /\ n = T * s + a
  BY <1>1, <1>2, QuotientRemainder
<1> HIDE DEF n, b, s, a
<1>4. P * n = (P * T) * s + P * a
  <2>1. P * (T * s) = (P * T) * s
    BY <1>1, <1>3, Z3
  <2>2. P * (T * s + a) = P * (T * s) + P * a
    BY <1>1, <1>3, Z3
  <2> QED BY <1>3, <2>1, <2>2
<1>5. P * a \in Nat /\ P * a + P <= P * T
  BY <1>1, <1>3, RowInTable
<1>6. P * a + b \in 0 .. (P * T) - 1
  BY <1>1, <1>2, <1>5
<1>7. t = (P * T) * s + (P * a + b)
  <2> DEFINE x == (P * T) * s
             y == P * a
  <2>1. x \in Int /\ y \in Int /\ b \in Int /\ t = (x + y) + b
    BY <1>1, <1>2, <1>3, <1>4, <1>5
  <2> HIDE DEF x, y
  <2>2. t = x + (y + b)
    BY <2>1
  <2> QED BY <2>2 DEF x, y
<1>8. t \div (P * T) = s /\ t % (P * T) = P * a + b
  BY <1>1, <1>3, <1>6, <1>7, Division
<1>9. t = P * (T * s + a) + b
  BY <1>2, <1>3
<1> QED BY <1>2, <1>3, <1>8, <1>9, Constants

\* The microsecond that is added reaches the next slot from the last of this one only.
LEMMA RoundedUp ==
  ASSUME NEW n \in Int, NEW b \in 0 .. P - 1
  PROVE  /\ (P * n + b) \div P = n
         /\ (P * n + b + 1) \div P = n + (b + 1) \div P
         /\ (b + 1) \div P = IF b = P - 1 THEN 1 ELSE 0
<1>1. P \in Nat \ {0, 1} /\ b \in Int /\ P * n \in Int
  BY Constants
<1>2. (P * n + b) \div P = n
  BY <1>1, Division
<1>3. CASE b = P - 1
  <2>1. (P * 1 + 0) \div P = 1 /\ (P * (n + 1) + 0) \div P = n + 1
    BY <1>1, Division
  <2>2. P * (n + 1) = P * n + P
    BY <1>1, Z3
  <2>3. b + 1 = P * 1 + 0 /\ P * n + b + 1 = P * (n + 1) + 0
    BY <1>1, <1>3, <2>2
  <2> QED BY <1>2, <1>3, <2>1, <2>3
<1>4. CASE b # P - 1
  <2>1. b + 1 \in 0 .. P - 1
    BY <1>1, <1>4
  <2>2. (P * 0 + (b + 1)) \div P = 0 /\ (P * n + (b + 1)) \div P = n
    BY <1>1, <2>1, Division
  <2>3. P * 0 + (b + 1) = b + 1 /\ P * n + (b + 1) = P * n + b + 1
    BY <1>1
  <2> QED BY <1>1, <1>2, <1>4, <2>2, <2>3
<1> QED BY <1>3, <1>4

\* updateTimeTics finds the slot that begins now or a microsecond later.
LEMMA SlotOfTime ==
  ASSUME NEW t \in Nat
  PROVE  SlotAt(t % SCH_MICROS_PER_MAJOR_FRAME) = ((t + 1) \div P) % T
<1>1. P \in Nat \ {0, 1} /\ T \in Nat \ {0}
  BY Constants
<1>2. PICK s \in Int, a \in 0 .. T - 1, b \in 0 .. P - 1 :
        /\ t % SCH_MICROS_PER_MAJOR_FRAME = P * a + b
        /\ t = P * (T * s + a) + b
  BY TimeInSlots
<1> DEFINE up == (b + 1) \div P
<1>3. a \in Int /\ b \in Int /\ T * s + a \in Int /\ P * a \in Int
  BY <1>1
<1>4. /\ (P * a + b) \div P = a
      /\ up = IF b = P - 1 THEN 1 ELSE 0
      /\ (t + 1) \div P = T * s + a + up
  BY <1>2, <1>3, RoundedUp
<1>5. ((P * a + b) - a * P) + 1 = b + 1
  <2>1. a * P = P * a
    BY <1>1, <1>3, Z3
  <2> DEFINE y == P * a
  <2>2. y \in Int
    BY <1>3
  <2> HIDE DEF y
  <2>3. ((y + b) - y) + 1 = b + 1
    BY <1>3, <2>2
  <2> QED BY <2>1, <2>3 DEF y
<1> HIDE DEF up
<1>6. SlotAt(P * a + b) = IF a + up = T THEN 0 ELSE a + up
  <2> DEFINE x == P * a + b
  <2>1. x \div P = a /\ (x - (x \div P) * P) + 1 = b + 1
    BY <1>4, <1>5, Zenon
  <2>2. x \div P + ((x - (x \div P) * P) + 1) \div P = a + up
    BY <2>1 DEF up
  <2> HIDE DEF x
  <2>3. SlotAt(x) = IF x \div P + ((x - (x \div P) * P) + 1) \div P = T
                      THEN 0 ELSE x \div P + ((x - (x \div P) * P) + 1) \div P
    BY DEF SlotAt, P, T
  <2>4. SlotAt(x) = IF a + up = T THEN 0 ELSE a + up
    BY <2>2, <2>3, Zenon
  <2> QED BY <2>4 DEF x
<1>7. (T * s + a + up) % T = IF a + up = T THEN 0 ELSE a + up
  <2>1. CASE a + up = T
    <3>1. (T * (s + 1) + 0) % T = 0
      BY <1>1, Division
    <3>2. T * (s + 1) = T * s + T
      BY <1>1, Z3
    <3> DEFINE z == T * s
    <3>3. z \in Int /\ up \in Int
      BY <1>1, <1>4
    <3>4. T * (s + 1) + 0 = z + T
      BY <1>1, <3>2, <3>3
    <3> HIDE DEF z
    <3>5. z + a + up = z + T
      BY <1>1, <1>3, <2>1, <3>3
    <3> QED BY <2>1, <3>1, <3>4, <3>5 DEF z
  <2>2. CASE a + up # T
    <3>1. up \in 0 .. 1
      BY <1>4
    <3>2. a + up \in 0 .. T - 1
      BY <1>1, <2>2, <3>1
    <3>3. (T * s + (a + up)) % T = a + up
      BY <1>1, <3>2, Division
    <3> DEFINE z == T * s
    <3>4. z \in Int
      BY <1>1
    <3> HIDE DEF z
    <3>5. z + (a + up) = z + a + up
      BY <1>3, <3>1, <3>4
    <3> QED BY <2>2, <3>3, <3>5 DEF z
  <2> QED BY <2>1, <2>2
<1> QED BY <1>2, <1>4, <1>6, <1>7

\* One call later is one slot later.
LEMMA SlotOfCall ==
  ASSUME NEW c \in Nat, start \in Nat
  PROVE  Time(c) \in Nat /\ ((Time(c) + 1) \div P) % T = Slot(c)
<1> DEFINE n == (start + 1) \div P
           b == (start + 1) % P
<1>1. P \in Nat \ {0, 1} /\ T \in Nat \ {0}
  BY Constants
<1>2. n \in Int /\ b \in 0 .. P - 1 /\ start + 1 = P * n + b
  BY <1>1, QuotientRemainder
<1> HIDE DEF n, b
<1>3. c * P = P * c /\ P * (n + c) = P * n + P * c /\ P * c \in Nat
  BY <1>1, <1>2, Z3
<1>4. Time(c) \in Nat /\ Time(c) + 1 = P * (n + c) + b
  <2> DEFINE x == P * n
             y == P * c
  <2>1. x \in Int /\ y \in Nat
    BY <1>1, <1>2, <1>3
  <2> HIDE DEF x, y
  <2>2. b \in Int /\ start + 1 = x + b
    BY <1>2 DEF x
  <2>3. start + y \in Nat /\ (start + y) + 1 = (x + y) + b
    BY <2>1, <2>2
  <2> QED BY <1>3, <2>3 DEF Time, x, y
<1>5. (P * (n + c) + b) \div P = n + c
  BY <1>1, <1>2, Division
<1> QED BY <1>4, <1>5 DEF Slot, n

-----------------------------------------------------------------------------
(***************************************************************************)
(* The inductive invariant.  While a slot is worked on, it is the one of   *)
(* the call, and what has been sent is what is due in it so far.           *)
(***************************************************************************)
Checked == pc \in {"wait", "slot"} => \A x \in Indexes : ValidEntry(scheduleTable[x])

SlotOfLastCall ==
  /\ pc = "init" => calls = 0
  /\ pc = "slot" =>
       /\ calls > 0
       /\ nextSlotNumber = Slot(calls - 1)
       /\ simTimeSecs = Time(calls - 1) \div SCH_MICROS_PER_MAJOR_FRAME

SentSoFar ==
  pc = "slot" =>
    /\ failed = NoEntry
    /\ marked = sent
    /\ sent = {x \in DueNow : x < SlotIndex}

IInv == TypeOK /\ Checked /\ SlotOfLastCall /\ SentSoFar /\ SlotsOnTime /\ MarkedOrGivenUp

\* In a slot that is worked on, the index of the next entry is one of the table,
\* in the row of the slot.
LEMMA IndexInTable ==
  ASSUME TypeOK, AtEntry
  PROVE  SlotIndex \in Indexes /\ SlotIndex \div E = nextSlotNumber
<1>1. /\ E \in Nat \ {0} /\ T \in Nat \ {0} 
      /\ nextSlotNumber \in 0 .. T - 1 /\ EntryNumber \in 0 .. E - 1
  BY Constants DEF TypeOK, AtEntry, T, E
<1>2. nextSlotNumber * E = E * nextSlotNumber /\ T * E = E * T
  BY <1>1, Z3
<1>3. /\ E * nextSlotNumber \in Nat
      /\ E * nextSlotNumber + E <= E * T
      /\ E * T \in Nat
  BY <1>1, RowInTable
<1>4. SlotIndex = E * nextSlotNumber + EntryNumber
  BY <1>2 DEF SlotIndex, E
<1>5. SlotIndex \in Indexes
  BY <1>1, <1>2, <1>3, <1>4 DEF Indexes, E, T
<1>6. SlotIndex \div E = nextSlotNumber
  BY <1>1, <1>4, Division
<1> QED BY <1>5, <1>6

LEMMA StartKnown ==
  ASSUME TypeOK
  PROVE  start \in Nat /\ calls \in Nat
BY SlotsAssumption DEF TypeOK

\* What is due, in the short names.
LEMMA DueNames ==
  ASSUME start \in Nat, calls \in Nat
  PROVE  DueNow = {x \in Indexes :
                     /\ x \div E = Slot(calls - 1)
                     /\ scheduleTable[x].EnableState = SCH_ENABLED
                     /\ (Time(calls - 1) \div SCH_MICROS_PER_MAJOR_FRAME)
                          % scheduleTable[x].Frequency = scheduleTable[x].Remainder}
<1>1. P \in Nat \ {0, 1} /\ (start + 1) \div P \in Int
  BY Constants, QuotientRemainder
<1>2. ((start + 1) \div P + calls - 1) % T = Slot(calls - 1)
  <2> DEFINE n == (start + 1) \div P
  <2>1. n \in Int
    BY <1>1
  <2> HIDE DEF n
  <2>2. n + calls - 1 = n + (calls - 1)
    BY <2>1
  <2> QED BY <2>2 DEF Slot, n
<1> QED BY <1>2 DEF DueNow, Time, P, T, E

\* An entry that is due is one of the slot.
LEMMA DueInSlot ==
  ASSUME TypeOK, SlotOfLastCall, pc = "slot", NEW x \in DueNow
  PROVE  /\ x \in Indexes
         /\ x >= nextSlotNumber * E /\ x < nextSlotNumber * E + E
<1>1. E \in Nat \ {0} /\ nextSlotNumber \in Nat
  BY Constants DEF TypeOK
<1>2. x \in Indexes /\ x \div E = nextSlotNumber
  BY StartKnown, DueNames DEF SlotOfLastCall
<1>3. x \in Int
  BY <1>2, <1>1 DEF Indexes
<1>4. x \in E * nextSlotNumber .. E * nextSlotNumber + E - 1
  BY <1>1, <1>2, <1>3, RowOf
<1>5. nextSlotNumber * E = E * nextSlotNumber /\ E * nextSlotNumber \in Int
  BY <1>1, Z3
<1> QED BY <1>1, <1>2, <1>3, <1>4, <1>5

\* The next entry is found due by the clock of Trick exactly when it is by the calls.
LEMMA DueByTheClock ==
  ASSUME TypeOK, Checked, SlotOfLastCall, AtEntry
  PROVE  /\ ValidEntry(NextEntry)
         /\ NextEntry.EnableState = SCH_ENABLED => ~IsCorrupt(NextEntry)
         /\ IsDue(NextEntry) <=> SlotIndex \in DueNow
<1>1. SlotIndex \in Indexes /\ SlotIndex \div E = nextSlotNumber /\ pc = "slot"
  BY IndexInTable DEF AtEntry
<1>2. ValidEntry(NextEntry)
  BY <1>1 DEF Checked, NextEntry
<1>3. NextEntry.EnableState = SCH_ENABLED => ~IsCorrupt(NextEntry)
  <2> SUFFICES ASSUME NextEntry.EnableState = SCH_ENABLED PROVE ~IsCorrupt(NextEntry)
    OBVIOUS
  <2>1. NextEntry # Unused
    BY DEF Unused, SCH_UNUSED, SCH_ENABLED
  <2>2. SCH_MAX_MESSAGES \in Nat
    BY Constants
  <2> QED BY <1>2, <2>1, <2>2 DEF ValidEntry, IsCorrupt, BadRemainder
<1>4. IsDue(NextEntry) <=> SlotIndex \in DueNow
  BY <1>1, StartKnown, DueNames DEF IsDue, NextEntry, SlotOfLastCall
<1> QED BY <1>2, <1>3, <1>4

LEMMA DueUnchanged ==
  ASSUME UNCHANGED <<start, calls, scheduleTable>>
  PROVE  DueNow' = DueNow
BY DEF DueNow

-----------------------------------------------------------------------------
(***************************************************************************)
(* The steps.                                                              *)
(***************************************************************************)
LEMMA InitIInv == Init => IInv
<1> SUFFICES ASSUME Init PROVE IInv
  OBVIOUS
<1> USE Constants
<1>1. TypeOK
  <2>1. Unused \in ScheduleEntry /\ UnusedMessage \in MessageEntry
    BY DEF Unused, UnusedMessage, ScheduleEntry, MessageEntry, SCH_UNUSED
  <2>2. MaxCalls \in Nat
    BY SlotsAssumption
  <2> QED BY <2>1, <2>2 DEF Init, TypeOK, T, E
<1>2. Checked /\ SlotOfLastCall /\ SentSoFar
  BY DEF Init, Checked, SlotOfLastCall, SentSoFar
<1>3. SlotsOnTime /\ MarkedOrGivenUp
  BY DEF Init, SlotsOnTime, MarkedOrGivenUp
<1> QED BY <1>1, <1>2, <1>3 DEF IInv

LEMMA LoadStep == IInv /\ LoadTables => IInv'
<1> SUFFICES ASSUME IInv, LoadTables PROVE IInv'
  OBVIOUS
<1>1. PICK schedule \in ScheduleFiles, messages \in MessageFiles :
        InitTables(schedule, messages)
  BY DEF LoadTables
<1>2. /\ schedule \in [Indexes -> ScheduleEntry]
      /\ messages \in [0 .. SCH_MAX_MESSAGES - 1 -> MessageEntry]
  BY SlotsAssumption
<1>3. TypeOK'
  BY <1>1, <1>2 DEF InitTables, IInv, TypeOK
<1>4. Checked'
  BY <1>1 DEF InitTables, ValidTables, Checked
<1>5. SlotOfLastCall' /\ SentSoFar' /\ calls' = 0
  BY <1>1 DEF InitTables, LoadTables, IInv, SlotOfLastCall, SentSoFar
<1>6. SlotsOnTime' /\ MarkedOrGivenUp'
  BY <1>1, <1>5 DEF InitTables, IInv, SlotsOnTime, MarkedOrGivenUp
<1> QED BY <1>3, <1>4, <1>5, <1>6 DEF IInv

LEMMA TriggerStep == IInv /\ Trigger => IInv'
<1> SUFFICES ASSUME IInv, Trigger PROVE IInv'
  OBVIOUS
<1> USE Constants
<1>1. calls \in Nat /\ MaxCalls \in Nat /\ calls' = calls + 1
  BY SlotsAssumption DEF IInv, TypeOK, Trigger
<1>2. start' = start /\ start \in Nat /\ Time(calls) \in Nat
  BY <1>1, StartKnown, SlotOfCall DEF IInv, Trigger
<1>3. /\ nextSlotNumber' = Slot(calls)
      /\ simTimeSecs' = Time(calls) \div SCH_MICROS_PER_MAJOR_FRAME
  BY <1>1, <1>2, SlotOfTime, SlotOfCall DEF Trigger, Time, P
<1>4. Slot(calls) \in 0 .. T - 1 /\ simTimeSecs' \in Nat
  <2>1. (start + 1) \div P + calls \in Int
    BY <1>1, <1>2, QuotientRemainder
  <2>2. Slot(calls) \in 0 .. T - 1
    BY <2>1, QuotientRemainder DEF Slot
  <2>3. SCH_MICROS_PER_MAJOR_FRAME \in Nat \ {0}
    OBVIOUS
  <2>4. Time(calls) \div SCH_MICROS_PER_MAJOR_FRAME \in 0 .. Time(calls)
    BY <1>2, <2>3, QuotientBounds
  <2> QED BY <1>2, <1>3, <2>2, <2>4
<1>5. calls' - 1 = calls
  BY <1>1
<1>6. TypeOK'
  BY <1>1, <1>2, <1>3, <1>4 DEF IInv, TypeOK, Trigger, T, E
<1>7. Checked'
  BY DEF Trigger, IInv, Checked
<1>8. SlotOfLastCall'
  BY <1>1, <1>2, <1>3, <1>5 DEF Trigger, SlotOfLastCall, Slot, Time
<1>9. SentSoFar'
  <2>1. (pc = "slot")' /\ SlotIndex' = nextSlotNumber' * E
    BY <1>3, <1>4 DEF Trigger, SlotIndex, E
  <2>2. \A x \in DueNow' : ~(x < SlotIndex')
    <3> SUFFICES ASSUME NEW x \in DueNow' PROVE ~(x < SlotIndex')
      OBVIOUS
    <3>1. x \in Indexes /\ x \div E = Slot(calls)
      <4>1. (start + 1) \div P \in Int
        BY <1>2, QuotientRemainder
      <4>2. ((start' + 1) \div P + calls' - 1) % T = Slot(calls)
        <5> DEFINE n == (start + 1) \div P
        <5>1. n \in Int
          BY <4>1
        <5> HIDE DEF n
        <5>2. n + calls' - 1 = n + calls
          BY <1>1, <5>1
        <5> QED BY <1>2, <5>2 DEF Slot, n
      <4> QED BY <4>2 DEF DueNow, P, T, E
    <3>2. x \in Int /\ Slot(calls) \in Int
      BY <3>1, <1>4 DEF Indexes
    <3>3. x \in E * Slot(calls) .. E * Slot(calls) + E - 1
      BY <3>1, <3>2, RowOf
    <3>4. SlotIndex' = E * Slot(calls)
      BY <2>1, <1>3, <3>2, Z3
    <3> QED BY <3>2, <3>3, <3>4
  <2> QED BY <2>1, <2>2 DEF Trigger, SentSoFar
<1>10. SlotsOnTime' /\ MarkedOrGivenUp'
  BY DEF Trigger, SlotsOnTime, MarkedOrGivenUp
<1> QED BY <1>6, <1>7, <1>8, <1>9, <1>10 DEF IInv

\* Those of a set that are below the successor of i.
LEMMA BelowSuccessor ==
  ASSUME NEW D, D \subseteq Int, NEW i \in Int
  PROVE  /\ i \notin D => {x \in D : x < i + 1} = {x \in D : x < i}
         /\ i \in D => {x \in D : x < i + 1} = {x \in D : x < i} \union {i}
<1>1. \A x \in D : x < i + 1 <=> x < i \/ x = i
  OBVIOUS
<1> QED BY <1>1

\* A step past an entry that is not due, and one that sends an entry that is.
LEMMA EntryStep == IInv /\ (SkipEntry \/ SendEntry) => IInv'
<1> SUFFICES ASSUME IInv, SkipEntry \/ SendEntry PROVE IInv'
  OBVIOUS
<1> USE Constants
<1>1. AtEntry /\ EntryNumber' = EntryNumber + 1 /\ UNCHANGED <<start, calls, scheduleTable>>
  BY DEF SkipEntry, SendEntry
<1>2. /\ SlotIndex \in Indexes
      /\ NextEntry.EnableState = SCH_ENABLED => ~IsCorrupt(NextEntry)
      /\ IsDue(NextEntry) <=> SlotIndex \in DueNow
  BY <1>1, IndexInTable, DueByTheClock DEF IInv
<1>3. DueNow' = DueNow
  BY <1>1, DueUnchanged
<1>4. TypeOK'
  BY <1>1, <1>2, SlotsAssumption DEF SkipEntry, SendEntry, MarkPipes, AtEntry, IInv, TypeOK
<1>5. Checked' /\ SlotOfLastCall'
  BY DEF SkipEntry, SendEntry, IInv, Checked, SlotOfLastCall, Slot, Time
<1>6. SentSoFar'
  <2>1. (pc = "slot")' /\ pc = "slot" /\ failed' = failed /\ marked = sent
    BY <1>1 DEF SkipEntry, SendEntry, AtEntry, IInv, SentSoFar
  <2>2. SlotIndex' = SlotIndex + 1 /\ SlotIndex \in Int /\ Indexes \subseteq Int
    BY <1>1, <1>2 DEF SkipEntry, SendEntry, SlotIndex, IInv, TypeOK, E, Indexes
  <2>3. DueNow \subseteq Int
    BY <2>2 DEF DueNow
  <2>4. CASE SkipEntry
    <3>1. SlotIndex \notin DueNow /\ sent' = sent /\ marked' = marked
      BY <1>2, <2>4 DEF SkipEntry, IsDue
    <3>2. {x \in DueNow : x < SlotIndex + 1} = {x \in DueNow : x < SlotIndex}
      BY <2>2, <2>3, <3>1, BelowSuccessor
    <3> QED BY <1>3, <2>1, <2>2, <3>1, <3>2 DEF IInv, SentSoFar
  <2>5. CASE SendEntry
    <3>1. SlotIndex \in DueNow /\ sent' = sent \union {SlotIndex} /\ marked' = sent'
      BY <1>2, <2>1, <2>5 DEF SendEntry, MarkPipes
    <3>2. {x \in DueNow : x < SlotIndex + 1}
            = {x \in DueNow : x < SlotIndex} \union {SlotIndex}
      BY <2>2, <2>3, <3>1, BelowSuccessor
    <3> QED BY <1>3, <2>1, <2>2, <3>1, <3>2 DEF IInv, SentSoFar
  <2> QED BY <2>4, <2>5
<1>7. SlotsOnTime' /\ MarkedOrGivenUp'
  <2>1. (pc = "slot")'
    BY <1>1 DEF SkipEntry, SendEntry, AtEntry
  <2>2. marked' = sent'
    BY <1>6, <2>1 DEF SentSoFar
  <2> QED BY <2>1, <2>2 DEF SlotsOnTime, MarkedOrGivenUp
<1> QED BY <1>4, <1>5, <1>6, <1>7 DEF IInv

\* The corrupt branch is never taken, so the slot is left at an entry that is due.
LEMMA GiveUpAtDue ==
  ASSUME IInv, GiveUpEntry
  PROVE  SlotIndex \in Indexes /\ SlotIndex \in DueNow /\ UNCHANGED scheduleTable /\ MarkPipes
<1>1. AtEntry /\ NextEntry.EnableState = SCH_ENABLED
  BY DEF GiveUpEntry
<1>2. SlotIndex \in Indexes /\ ~IsCorrupt(NextEntry)
  BY <1>1, IndexInTable, DueByTheClock DEF IInv
<1>3. IsDue(NextEntry) => SlotIndex \in DueNow
  BY <1>1, DueByTheClock DEF IInv
<1> QED BY <1>2, <1>3 DEF GiveUpEntry

LEMMA GiveUpStep == IInv /\ GiveUpEntry => IInv'
<1> SUFFICES ASSUME IInv, GiveUpEntry PROVE IInv'
  OBVIOUS
<1>1. SlotIndex \in Indexes /\ SlotIndex \in DueNow /\ UNCHANGED scheduleTable /\ MarkPipes
  BY GiveUpAtDue
<1>2. /\ pc = "slot" /\ pc' = "wait" /\ failed' = SlotIndex
      /\ UNCHANGED <<start, calls, sent, simTimeSecs, nextSlotNumber, EntryNumber, messageTable>>
  BY DEF GiveUpEntry, AtEntry
<1>3. DueNow' = DueNow
  BY <1>1, <1>2, DueUnchanged
<1>4. TypeOK'
  BY <1>1, <1>2 DEF MarkPipes, IInv, TypeOK
<1>5. Checked' /\ SlotOfLastCall' /\ SentSoFar'
  BY <1>1, <1>2 DEF IInv, Checked, SlotOfLastCall, SentSoFar
<1>6. SlotsOnTime'
  <2>1. SlotIndex # NoEntry
    BY <1>1, Constants DEF NoEntry, Indexes
  <2> QED BY <1>1, <1>2, <1>3, <2>1 DEF IInv, SentSoFar, SlotsOnTime
<1>7. MarkedOrGivenUp'
  BY <1>1, <1>2 DEF IInv, SentSoFar, MarkedOrGivenUp, MarkPipes
<1> QED BY <1>4, <1>5, <1>6, <1>7 DEF IInv

LEMMA EndStep == IInv /\ EndSlot => IInv'
<1> SUFFICES ASSUME IInv, EndSlot PROVE IInv'
  OBVIOUS
<1> USE Constants
<1>1. /\ pc = "slot" /\ EntryNumber = E /\ pc' = "wait"
      /\ nextSlotNumber' = nextSlotNumber + 1
      /\ UNCHANGED <<scheduleTable, messageTable, simTimeSecs, EntryNumber, start, calls, marked,
                     sent, failed>>
  BY DEF EndSlot, E
<1>2. DueNow' = DueNow
  BY <1>1, DueUnchanged
<1>3. TypeOK'
  BY <1>1 DEF IInv, TypeOK, T, E
<1>4. Checked' /\ SlotOfLastCall' /\ SentSoFar' /\ MarkedOrGivenUp'
  BY <1>1 DEF IInv, Checked, SlotOfLastCall, SentSoFar, MarkedOrGivenUp
<1>5. SlotsOnTime'
  <2>1. SlotIndex = nextSlotNumber * E + E
    BY <1>1 DEF SlotIndex, E
  <2>2. \A x \in DueNow : x < SlotIndex
    BY <1>1, <2>1, DueInSlot DEF IInv
  <2> QED BY <1>1, <1>2, <2>2 DEF IInv, SentSoFar, SlotsOnTime
<1> QED BY <1>3, <1>4, <1>5 DEF IInv

LEMMA StopStep == IInv /\ (InitFails \/ EndLoop \/ UNCHANGED vars) => IInv'
<1> SUFFICES ASSUME IInv, InitFails \/ EndLoop \/ UNCHANGED vars PROVE IInv'
  OBVIOUS
<1>1. UNCHANGED <<scheduleTable, messageTable, simTimeSecs, nextSlotNumber, EntryNumber,
                  start, calls, marked, sent, failed>>
      /\ pc' \in {pc, "terminated"}
  BY DEF InitFails, EndLoop, vars
<1>2. DueNow' = DueNow
  BY <1>1, DueUnchanged
<1>3. TypeOK'
  BY <1>1 DEF IInv, TypeOK
<1>4. Checked' /\ SlotOfLastCall' /\ MarkedOrGivenUp'
  BY <1>1 DEF IInv, Checked, SlotOfLastCall, MarkedOrGivenUp, Slot, Time
<1>5. SentSoFar' /\ SlotsOnTime'
  BY <1>1, <1>2 DEF IInv, SentSoFar, SlotsOnTime, SlotIndex
<1> QED BY <1>3, <1>4, <1>5 DEF IInv

\* The invariant holds in every state.
THEOREM Inductive == Spec => []IInv
<1>1. Init => IInv
  BY InitIInv
<1>2. IInv /\ [Next]_vars => IInv'
  BY LoadStep, TriggerStep, EntryStep, GiveUpStep, EndStep, StopStep DEF Next
<1> QED BY <1>1, <1>2, PTL DEF Spec

\* processNextSlot stays inside scheduleTable.
THEOREM TypeCorrect == Spec => []TypeOK
<1>1. IInv => TypeOK
  BY DEF IInv
<1> QED BY <1>1, Inductive, PTL

\* Every call of processScheduleTable sends what is due in the slot and the second
\* of the call, up to the entry, if any, at which it gives up.
THEOREM EachSlotOnTime == Spec => []SlotsOnTime
<1>1. IInv => SlotsOnTime
  BY DEF IInv
<1> QED BY <1>1, Inductive, PTL

\* A pipe is marked as triggered only for what is sent or given up at.
THEOREM PipesMarked == Spec => []MarkedOrGivenUp
<1>1. IInv => MarkedOrGivenUp
  BY DEF IInv
<1> QED BY <1>1, Inductive, PTL

\* Tables that pass the validation are never found corrupt.
THEOREM ValidatedNeverCorrupt == Spec => NeverCorrupt
<1>1. IInv /\ [Next]_vars => [pc # "init" => UNCHANGED scheduleTable]_vars
  <2> SUFFICES ASSUME IInv, Next, pc # "init" PROVE UNCHANGED scheduleTable
    OBVIOUS
  <2>1. CASE GiveUpEntry
    BY <2>1, GiveUpAtDue
  <2>2. CASE ~GiveUpEntry
    BY <2>2 DEF Next, LoadTables, InitFails, Trigger, SkipEntry, SendEntry, EndSlot, EndLoop
  <2> QED BY <2>1, <2>2
<1> QED BY <1>1, Inductive, PTL DEF Spec, NeverCorrupt
===============================================================================
