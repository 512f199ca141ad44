---------------------------- MODULE SchLab_proofs ----------------------------
(***************************************************************************)
(* Proofs about the schedule table of SCH_LAB: its counters implement a    *)
(* periodic timetable, for every table, every set of user commands and     *)
(* every number of frames.                                                 *)
(***************************************************************************)
EXTENDS SchLabTrickCFSScheduler, ArithmeticFacts, FiniteSetTheorems, TLAPS

\* The frame of a table is not 0 and no longer than a second.
LEMMA TimerPeriodPositive ==
  ASSUME NEW n \in 0 .. Second
  PROVE  TimerPeriod(n) \in 1 .. Second
<1>1. Second \in Nat \ {0}
  BY SchLabAssumption
<1>2. CASE n = 0
  BY <1>1, <1>2 DEF TimerPeriod
<1>3. CASE n # 0
  BY <1>1, <1>3, QuotientBounds DEF TimerPeriod
<1> QED BY <1>2, <1>3

LEMMA ElementOfSequence ==
  ASSUME NEW S, NEW s \in Seq(S), NEW k \in 1 .. Len(s)
  PROVE  s[k] \in S
OBVIOUS

LEMMA CountedType ==
  ASSUME NEW M, NEW e \in [MsgId : M, PacketRate : Nat, Counter : Nat]
  PROVE  Counted(e) \in [MsgId : M, PacketRate : Nat, Counter : Nat]
<1>1. CASE e.PacketRate = 0
  BY <1>1 DEF Counted
<1>2. CASE e.PacketRate # 0
  <2> DEFINE c == IF Sends(e) THEN 0 ELSE e.Counter + 1
  <2>1. c \in Nat
    OBVIOUS
  <2>2. Counted(e) = [e EXCEPT !.Counter = c]
    BY <1>2 DEF Counted
  <2> HIDE DEF c
  <2> QED BY <2>1, <2>2
<1> QED BY <1>1, <1>2

-----------------------------------------------------------------------------
(***************************************************************************)
(* The inductive invariant.                                                *)
(***************************************************************************)
IInv == TypeOK /\ QuietBefore /\ CountersInStep /\ SentSoFar

LEMMA InitIInv == Init => IInv
<1> SUFFICES ASSUME Init PROVE IInv
  OBVIOUS
<1> USE SchLabAssumption
<1>1. TypeOK
  BY DEF Init, TypeOK, NoTable, Entries
<1>2. QuietBefore /\ CountersInStep /\ SentSoFar
  BY DEF Init, QuietBefore, CountersInStep, SentSoFar
<1> QED BY <1>1, <1>2 DEF IInv

LEMMA StepTypeOK == IInv /\ [Next]_vars => TypeOK'
<1> SUFFICES ASSUME IInv, [Next]_vars PROVE TypeOK'
  OBVIOUS
<1> USE DEF IInv, TypeOK
<1>a. MaxEntries \in Nat /\ Second \in Nat \ {0} /\ CmdMicros \subseteq Nat
  BY SchLabAssumption
<1>1. ASSUME NEW mid \in Mids, NEW micros \in CmdMicros, addScheduledCmd(mid, micros)
      PROVE  TypeOK'
  BY <1>1 DEF addScheduledCmd
<1>2. CASE InitTablesFails
  BY <1>2 DEF InitTablesFails
<1>3. ASSUME NEW table \in Tables, LoadTables(table)
      PROVE  TypeOK'
  <2>1. table.TickRate \in 0 .. Second /\ table.Config \in [Entries -> ConfigEntries]
    BY SchLabAssumption
  <2>2. schedRateInMicros' \in 1 .. Second
    BY <1>3, <2>1, TimerPeriodPositive DEF LoadTables
  <2>3. State' \in [Entries -> [MsgId : Mids \union {InvalidMid}, PacketRate : Nat,
                                Counter : Nat]]
    BY <1>3, <2>1 DEF LoadTables, ConfigEntries
  <2>4. \A x \in Entries : State'[x].Counter = 0
    BY <1>3 DEF LoadTables, QuietBefore
  <2>5. /\ userAddedCmds' = userAddedCmds /\ userEntryIdx' = userEntryIdx
        /\ ConfigTable' = table /\ pc' = "placing" /\ i' = i
        /\ frame' = frame /\ sent' = sent
    BY <1>3 DEF LoadTables
  <2>6. schedRateInMicros' \in 0 .. Second /\ schedRateInMicros' # 0
    BY <2>2, <1>a
  <2> QED BY <2>3, <2>4, <2>5, <2>6
<1>4. ASSUME NEW x \in Entries, PlaceCommand(x)
      PROVE  TypeOK'
  <2> DEFINE newEntry == userAddedCmds[userEntryIdx + 1]
  <2>1. newEntry.MsgId \in Mids /\ newEntry.PacketRate \in Nat
    <3>1. userEntryIdx + 1 \in 1 .. Len(userAddedCmds)
      BY <1>4 DEF PlaceCommand
    <3>2. userAddedCmds \in Seq([MsgId : Mids, PacketRate : CmdMicros])
      OBVIOUS
    <3>3. userAddedCmds[userEntryIdx + 1] \in [MsgId : Mids, PacketRate : CmdMicros]
      BY ONLY <3>1, <3>2, ElementOfSequence
    <3> QED BY <3>3, <1>a
  <2>2. schedRateInMicros \in Nat \ {0}
    BY <1>4 DEF PlaceCommand
  <2>3. newEntry.PacketRate \div schedRateInMicros \in Nat
    BY <2>1, <2>2, QuotientBounds
  <2>4. State' = [State EXCEPT ![x] =
                    [MsgId |-> newEntry.MsgId,
                     PacketRate |-> newEntry.PacketRate \div schedRateInMicros,
                     Counter |-> 0]]
    BY <1>4 DEF PlaceCommand
  <2> HIDE DEF newEntry
  <2>5. State' \in [Entries -> [MsgId : Mids \union {InvalidMid}, PacketRate : Nat,
                                Counter : Nat]]
    BY <2>1, <2>3, <2>4
  <2>6. \A y \in Entries : \/ State'[y].Counter = 0
                           \/ State'[y].Counter < State'[y].PacketRate
    BY <2>4
  <2> QED BY <1>4, <2>5, <2>6 DEF PlaceCommand
<1>5. CASE DropCommand
  BY <1>5 DEF DropCommand
<1>6. CASE TablesReady
  BY <1>6 DEF TablesReady
<1>7. CASE BeginPass
  BY <1>7, <1>a DEF BeginPass
<1>8. CASE Turn
  <2>1. Counted(State[i]) \in [MsgId : Mids \union {InvalidMid}, PacketRate : Nat,
                               Counter : Nat]
    <3>1. State[i] \in [MsgId : Mids \union {InvalidMid}, PacketRate : Nat,
                        Counter : Nat]
      BY <1>8 DEF Turn
    <3> QED BY <3>1, CountedType
  <2>2. \/ Counted(State[i]).Counter = 0
        \/ Counted(State[i]).Counter < Counted(State[i]).PacketRate
    BY <1>8 DEF Turn, Counted, Sends
  <2>3. i' \in 0 .. MaxEntries + 1 /\ i' # 0
    BY <1>8, <1>a DEF Turn, Entries
  <2>4. i \in Entries /\ State' = [State EXCEPT ![i] = Counted(State[i])]
        /\ sent' \subseteq Entries
    BY <1>8 DEF Turn
  <2>5. State' \in [Entries -> [MsgId : Mids \union {InvalidMid}, PacketRate : Nat,
                                Counter : Nat]]
    BY <2>1, <2>4
  <2>6. \A x \in Entries : \/ State'[x].Counter = 0
                           \/ State'[x].Counter < State'[x].PacketRate
    BY <2>2, <2>4
  <2>7. UNCHANGED <<userAddedCmds, schedRateInMicros, ConfigTable, userEntryIdx,
                    pc, frame>>
    BY <1>8 DEF Turn
  <2> QED BY <2>3, <2>4, <2>5, <2>6, <2>7
<1>9. CASE EndPass
  BY <1>9 DEF EndPass
<1>10. CASE UNCHANGED vars
  BY <1>10 DEF vars
<1> QED BY <1>1, <1>2, <1>3, <1>4, <1>5, <1>6, <1>7, <1>8, <1>9, <1>10 DEF Next

LEMMA StepQuiet == IInv /\ [Next]_vars => QuietBefore'
<1> SUFFICES ASSUME IInv, [Next]_vars PROVE QuietBefore'
  OBVIOUS
<1> USE DEF IInv, TypeOK, QuietBefore
<1>1. ASSUME NEW table \in Tables, LoadTables(table)
      PROVE  QuietBefore'
  BY <1>1 DEF LoadTables
<1>2. ASSUME NEW x \in Entries, PlaceCommand(x)
      PROVE  QuietBefore'
  BY <1>2 DEF PlaceCommand
<1> QED
  BY <1>1, <1>2 DEF Next, addScheduledCmd, InitTablesFails, DropCommand,
     TablesReady, BeginPass, Turn, EndPass, vars

LEMMA StepCounters == IInv /\ [Next]_vars => CountersInStep'
<1> SUFFICES ASSUME IInv, [Next]_vars PROVE CountersInStep'
  OBVIOUS
<1> USE DEF IInv, TypeOK, CountersInStep, LastTurn
<1>a. MaxEntries \in Nat
  BY SchLabAssumption
<1>1. ASSUME NEW table \in Tables, LoadTables(table)
      PROVE  CountersInStep'
  <2>1. frame' = 0 /\ pc' = "placing" /\ \A x \in Entries : State'[x].Counter = 0
    BY <1>1 DEF LoadTables, QuietBefore
  <2> QED BY <2>1, StepTypeOK, ZeroRemainder
<1>2. ASSUME NEW x \in Entries, PlaceCommand(x)
      PROVE  CountersInStep'
  <2>1. frame' = 0 /\ pc' = "placing" /\ \A y \in Entries : State'[y].Counter = 0
    BY <1>2 DEF PlaceCommand, QuietBefore
  <2> QED BY <2>1, StepTypeOK, ZeroRemainder
<1>3. CASE TablesReady
  BY <1>3 DEF TablesReady
<1>4. CASE BeginPass
  BY <1>4 DEF BeginPass, Entries
<1>5. CASE Turn
  <2>1. /\ pc = "pass" /\ pc' = "pass" /\ i \in Entries /\ i' = i + 1
        /\ frame' = frame /\ frame \in Nat \ {0}
        /\ State' = [State EXCEPT ![i] = Counted(State[i])]
    BY <1>5 DEF Turn
  <2>2. ASSUME NEW x \in Entries, x # i, State'[x].PacketRate # 0
        PROVE  State'[x].Counter = LastTurn(x)' % State'[x].PacketRate
    <3>1. State'[x] = State[x] /\ LastTurn(x)' = LastTurn(x)
      BY <2>1, <2>2, <1>a DEF Entries
    <3> QED BY <2>2, <3>1
  <2>3. ASSUME NEW x \in Entries, x = i, State'[x].PacketRate # 0
        PROVE  State'[x].Counter = LastTurn(x)' % State'[x].PacketRate
    <3> DEFINE n == frame - 1
               r == State[x].PacketRate
    <3>1. n \in Nat /\ n + 1 = frame /\ LastTurn(x) = n /\ LastTurn(x)' = frame
      BY <2>1, <2>3, <1>a DEF Entries
    <3>2. State'[x] = Counted(State[x])
      BY <2>1, <2>3
    <3>3. r \in Nat \ {0} /\ State[x].Counter = n % r
      BY <2>3, <3>1, <3>2 DEF Counted
    <3>4. /\ State'[x].PacketRate = r
          /\ State'[x].Counter = IF (n % r) + 1 >= r THEN 0 ELSE (n % r) + 1
      BY <3>2, <3>3 DEF Counted, Sends
    <3> HIDE DEF n, r
    <3>5. State'[x].Counter = (n + 1) % r
      BY <3>1, <3>3, <3>4, RemainderStep
    <3> QED BY <3>1, <3>4, <3>5
  <2>4. \A x \in Entries : State'[x].PacketRate # 0 =>
          State'[x].Counter = LastTurn(x)' % State'[x].PacketRate
    BY <2>2, <2>3
  <2> QED BY <2>1, <2>4
<1>6. CASE EndPass
  <2>1. pc' # "pass" /\ frame' = frame /\ State' = State /\ i \in Nat
    BY <1>6 DEF EndPass
  <2>2. \A x \in Entries : LastTurn(x)' = LastTurn(x)
    BY <1>6, <2>1, <1>a DEF EndPass, Entries
  <2> QED BY <2>1, <2>2
<1>7. CASE UNCHANGED vars
  BY <1>7 DEF vars
<1> QED
  BY <1>1, <1>2, <1>3, <1>4, <1>5, <1>6, <1>7
     DEF Next, addScheduledCmd, InitTablesFails, DropCommand

\* The comparison of the code picks exactly the entries that are due.
LEMMA TurnSends ==
  ASSUME IInv, pc = "pass", i \in Entries
  PROVE  Sends(State[i]) <=> i \in TT!Due
<1> DEFINE n == frame - 1
           r == State[i].PacketRate
<1>1. n \in Nat /\ n + 1 = frame /\ r \in Nat /\ LastTurn(i) = n
  BY SchLabAssumption DEF IInv, TypeOK, CountersInStep, LastTurn, Entries
<1>2. CASE r = 0
  BY <1>2 DEF Sends, TT!Due
<1>3. CASE r # 0
  <2>1. State[i].Counter = n % r
    BY <1>1, <1>3 DEF IInv, CountersInStep
  <2>2. Sends(State[i]) <=> (n % r) + 1 >= r
    BY <1>3, <2>1 DEF Sends
  <2>3. i \in TT!Due <=> (n + 1) % r = 0
    BY <1>1, <1>3 DEF TT!Due
  <2> HIDE DEF n, r
  <2>4. /\ (n % r) + 1 >= r => (n + 1) % r = 0
        /\ ~((n % r) + 1 >= r) => (n + 1) % r = (n % r) + 1
        /\ n % r \in 0 .. r - 1
    BY <1>1, <1>3, RemainderStep
  <2>5. (n + 1) % r = 0 <=> (n % r) + 1 >= r
    BY <2>4
  <2> QED BY <2>2, <2>3, <2>5
<1> QED BY <1>2, <1>3

LEMMA StepSent == IInv /\ [Next]_vars => SentSoFar'
<1> SUFFICES ASSUME IInv, [Next]_vars PROVE SentSoFar'
  OBVIOUS
<1> USE DEF IInv, TypeOK, SentSoFar, TT!Due
<1>a. MaxEntries \in Nat
  BY SchLabAssumption
<1>1. CASE BeginPass
  <2>1. i' = 1 /\ sent' = {} /\ \A x \in Entries : ~(x < 1)
    BY <1>1 DEF BeginPass, Entries
  <2> QED BY <2>1
<1>2. CASE Turn
  <2>1. /\ pc = "pass" /\ i \in Entries /\ i' = i + 1
        /\ frame' = frame /\ frame \in Nat \ {0}
        /\ State' = [State EXCEPT ![i] = Counted(State[i])]
        /\ sent' = IF Sends(State[i]) THEN sent \union {i} ELSE sent
    BY <1>2 DEF Turn, CountersInStep
  <2>2. \A x \in Entries : State'[x].PacketRate = State[x].PacketRate
    BY <2>1 DEF Counted
  <2>3. TT!Due' = TT!Due
    <3>1. \A x \in Entries : x \in TT!Due' <=> x \in TT!Due
      BY ONLY <2>1, <2>2 DEF TT!Due
    <3>2. TT!Due' \subseteq Entries /\ TT!Due \subseteq Entries
      OBVIOUS
    <3> HIDE DEF TT!Due
    <3> QED BY <3>1, <3>2
  <2>4. Sends(State[i]) <=> i \in TT!Due
    BY <2>1, TurnSends
  <2>5. {x \in TT!Due : x < i'} = {x \in TT!Due : x < i} \union ({i} \intersect TT!Due)
    BY <2>1 DEF Entries
  <2> QED BY <2>1, <2>3, <2>4, <2>5
<1>3. CASE UNCHANGED vars
  BY <1>3 DEF vars
<1> QED
  BY <1>1, <1>2, <1>3
     DEF Next, addScheduledCmd, InitTablesFails, LoadTables, PlaceCommand,
         DropCommand, TablesReady, EndPass

\* The four parts hold in every state: each step keeps each of them.
THEOREM Inductive == Spec => []IInv
<1>1. Init => IInv
  BY InitIInv
<1>2. IInv /\ [Next]_vars => IInv'
  BY StepTypeOK, StepQuiet, StepCounters, StepSent DEF IInv
<1> QED BY <1>1, <1>2, PTL DEF Spec

\* Type correctness, and the counters of the live table stay below their rates.
THEOREM TypeCorrect == Spec => []TypeOK
<1>1. IInv => TypeOK
  BY DEF IInv
<1> QED BY <1>1, Inductive, PTL

-----------------------------------------------------------------------------
(***************************************************************************)
(* Where the commands of the user are.  Rank(x) counts the unused entries  *)
(* of the mission's table up to x.  While the commands are placed, those   *)
(* placed so far hold the first unused entries, in order, and the entries  *)
(* behind them are free: the first free entry is the next unused one.      *)
(***************************************************************************)
Unused(x) == {y \in 1 .. x : ConfigTable.Config[y].PacketRate = 0}
Rank(x) == Cardinality(Unused(x))

HoldsConfigured(x) ==
  /\ State[x].MsgId = ConfigTable.Config[x].MsgId
  /\ State[x].PacketRate = ConfigTable.Config[x].PacketRate

HoldsCommand(x) ==
  /\ State[x].MsgId = userAddedCmds[Rank(x)].MsgId
  /\ State[x].PacketRate = userAddedCmds[Rank(x)].PacketRate \div schedRateInMicros

HoldsNothing(x) == State[x].MsgId = InvalidMid /\ State[x].PacketRate = 0

PlacedAt(x) ==
  IF ConfigTable.Config[x].PacketRate # 0 THEN HoldsConfigured(x)
  ELSE IF Rank(x) <= userEntryIdx THEN HoldsCommand(x)
  ELSE HoldsNothing(x)

PlacedSoFar ==
  /\ pc = "input" => userEntryIdx = 0 /\ \A x \in Entries : HoldsNothing(x)
  /\ pc \in {"placing", "ready", "pass"} =>
       ConfigTable \in Tables /\ \A x \in Entries : PlacedAt(x)

LEMMA RankType ==
  ASSUME NEW x \in Entries
  PROVE  /\ IsFiniteSet(Unused(x))
         /\ Rank(x) \in Nat
         /\ ConfigTable.Config[x].PacketRate = 0 => Rank(x) # 0
<1>1. x \in Nat /\ IsFiniteSet(1 .. x) /\ Unused(x) \in SUBSET (1 .. x)
  BY SchLabAssumption, FS_Interval DEF Entries, Unused
<1>2. IsFiniteSet(Unused(x))
  BY <1>1, FS_Subset
<1>3. Rank(x) \in Nat
  BY <1>2, FS_CardinalityType DEF Rank
<1>4. ASSUME ConfigTable.Config[x].PacketRate = 0 PROVE Rank(x) # 0
  <2>1. x \in Unused(x)
    BY <1>4, <1>1, SchLabAssumption DEF Unused, Entries
  <2> QED BY <2>1, <1>2, FS_EmptySet DEF Rank
<1> QED BY <1>2, <1>3, <1>4

\* Of two unused entries the later one has the higher rank.
LEMMA RankIncreases ==
  ASSUME NEW x \in Entries, NEW y \in Entries, y < x,
         ConfigTable.Config[x].PacketRate = 0
  PROVE  Rank(y) < Rank(x)
<1>1. Unused(y) \in SUBSET Unused(x) /\ x \in Unused(x) /\ x \notin Unused(y)
  BY SchLabAssumption DEF Entries, Unused
<1>2. Unused(x) # Unused(y)
  BY <1>1
<1> QED BY <1>1, <1>2, RankType, FS_Subset DEF Rank

\* The unused entries before an unused one take up all the ranks before its own.
LEMMA RankOfNext ==
  ASSUME NEW x \in Entries, ConfigTable.Config[x].PacketRate = 0,
         NEW n \in Nat,
         \A y \in Entries : y < x /\ ConfigTable.Config[y].PacketRate = 0 => Rank(y) <= n
  PROVE  Rank(x) <= n + 1
<1> DEFINE Before == Unused(x) \ {x}
<1>1. x \in Nat /\ MaxEntries \in Nat /\ x \in Unused(x)
  BY SchLabAssumption DEF Entries, Unused
<1>2. Cardinality(Before) = Rank(x) - 1
  BY <1>1, RankType, FS_RemoveElement DEF Rank
<1>3. CASE Before = {}
  <2>1. Cardinality(Before) = 0
    BY ONLY <1>3, FS_EmptySet
  <2>2. Rank(x) \in Nat
    BY RankType
  <2> QED BY <1>2, <2>1, <2>2
<1>4. CASE Before # {}
  <2>1. Before \in SUBSET (0 .. x)
    BY <1>1 DEF Unused
  <2>2. PICK z \in Before : \A k \in Before : k <= z
    BY <1>1, <1>4, <2>1, GreatestNatural
  <2>3. z \in Entries /\ z < x /\ ConfigTable.Config[z].PacketRate = 0
    BY <1>1 DEF Unused, Entries
  <2>4. Before = Unused(z)
    BY <1>1, <2>2, <2>3 DEF Unused, Entries
  <2>5. Rank(z) = Rank(x) - 1
    BY <1>2, <2>4 DEF Rank
  <2> QED BY <2>3, <2>5, RankType
<1> QED BY <1>3, <1>4

LEMMA InitPlaced == Init => PlacedSoFar
BY DEF Init, PlacedSoFar, HoldsNothing

LEMMA StepPlaced == IInv /\ PlacedSoFar /\ [Next]_vars => PlacedSoFar'
<1> SUFFICES ASSUME IInv, PlacedSoFar, [Next]_vars PROVE PlacedSoFar'
  OBVIOUS
<1> USE DEF IInv, TypeOK, PlacedSoFar
<1>a. /\ MaxEntries \in Nat /\ InvalidMid \notin Mids
      /\ \A t \in Tables : \A x \in Entries :
           t.Config[x].PacketRate # 0 => t.Config[x].MsgId \in Mids
  BY SchLabAssumption
<1>1. ASSUME NEW mid \in Mids, NEW micros \in CmdMicros, addScheduledCmd(mid, micros)
      PROVE  PlacedSoFar'
  <2>1. /\ UNCHANGED <<State, schedRateInMicros, ConfigTable, userEntryIdx, pc>>
        /\ \A k \in 1 .. Len(userAddedCmds) : userAddedCmds'[k] = userAddedCmds[k]
    BY <1>1 DEF addScheduledCmd
  <2>2. ASSUME NEW x \in Entries, PlacedAt(x) PROVE PlacedAt(x)'
    <3>1. Rank(x)' = Rank(x) /\ Unused(x)' = Unused(x)
      BY <2>1 DEF Rank, Unused
    <3>2. CASE ConfigTable.Config[x].PacketRate # 0
      BY <2>1, <2>2, <3>2 DEF PlacedAt, HoldsConfigured
    <3>3. CASE ConfigTable.Config[x].PacketRate = 0 /\ Rank(x) <= userEntryIdx
      <4>1. Rank(x) \in 1 .. Len(userAddedCmds)
        BY <3>3, RankType
      <4> QED BY <2>1, <2>2, <3>1, <3>3, <4>1 DEF PlacedAt, HoldsCommand
    <3>4. CASE ConfigTable.Config[x].PacketRate = 0 /\ ~(Rank(x) <= userEntryIdx)
      BY <2>1, <2>2, <3>1, <3>4 DEF PlacedAt, HoldsNothing
    <3> QED BY <3>2, <3>3, <3>4
  <2>3. \A x \in Entries : HoldsNothing(x) => HoldsNothing(x)'
    BY <2>1 DEF HoldsNothing
  <2> QED BY <2>1, <2>2, <2>3
<1>2. CASE InitTablesFails
  BY <1>2 DEF InitTablesFails
<1>3. ASSUME NEW table \in Tables, LoadTables(table)
      PROVE  PlacedSoFar'
  <2>1. /\ pc' = "placing" /\ ConfigTable' = table /\ userEntryIdx' = 0
        /\ \A x \in Entries : HoldsNothing(x)
    BY <1>3 DEF LoadTables
  <2>2. ASSUME NEW x \in Entries PROVE PlacedAt(x)'
    <3>1. CASE table.Config[x].PacketRate # 0
      BY <1>3, <2>1, <3>1 DEF LoadTables, PlacedAt, HoldsConfigured
    <3>2. CASE table.Config[x].PacketRate = 0
      <4>1. State'[x] = State[x]
        BY <1>3, <3>2 DEF LoadTables
      <4>2. Rank(x)' \in Nat \ {0}
        <5>1. \A y \in Entries : /\ Unused(y)' = {k \in 1 .. y : table.Config[k].PacketRate = 0}
          BY <2>1 DEF Unused
        <5>2. IsFiniteSet(1 .. x) /\ Unused(x)' \in SUBSET (1 .. x) /\ x \in Unused(x)'
          <6>1. x \in Nat \ {0}
            BY <1>a DEF Entries
          <6>2. Unused(x)' = {k \in 1 .. x : table.Config[k].PacketRate = 0}
            BY <5>1
          <6> QED BY ONLY <3>2, <6>1, <6>2, FS_Interval
        <5>3. IsFiniteSet(Unused(x)')
          BY <5>2, FS_Subset
        <5>4. Cardinality(Unused(x)') \in Nat /\ Cardinality(Unused(x)') # 0
          BY <5>2, <5>3, FS_CardinalityType, FS_EmptySet
        <5> QED BY <5>4 DEF Rank
      <4>3. ~(Rank(x)' <= userEntryIdx')
        BY <2>1, <4>2
      <4>4. HoldsNothing(x)'
        BY <2>1, <4>1 DEF HoldsNothing
      <4> QED BY <2>1, <3>2, <4>3, <4>4 DEF PlacedAt
    <3> QED BY <3>1, <3>2
  <2> QED BY <2>1, <2>2
<1>4. ASSUME NEW x \in Entries, PlaceCommand(x)
      PROVE  PlacedSoFar'
  <2>1. /\ pc = "placing" /\ pc' = "placing" /\ IsFirstFree(x)
        /\ userEntryIdx < Len(userAddedCmds) /\ userEntryIdx' = userEntryIdx + 1
        /\ State' = [State EXCEPT ![x] =
             [MsgId |-> userAddedCmds[userEntryIdx + 1].MsgId,
              PacketRate |-> userAddedCmds[userEntryIdx + 1].PacketRate
                               \div schedRateInMicros,
              Counter |-> 0]]
        /\ UNCHANGED <<ConfigTable, schedRateInMicros, userAddedCmds>>
    BY <1>4 DEF PlaceCommand
  <2>2. ConfigTable \in Tables /\ \A y \in Entries : PlacedAt(y)
    BY <2>1
  <2>3. \A y \in Entries : Rank(y)' = Rank(y)
    BY <2>1 DEF Rank, Unused
  <2>4. ASSUME NEW y \in Entries, IsFree(y)
        PROVE  ConfigTable.Config[y].PacketRate = 0 /\ ~(Rank(y) <= userEntryIdx)
    <3>1. ConfigTable.Config[y].PacketRate = 0
      BY <2>2, <2>4, <1>a DEF IsFree, PlacedAt, HoldsConfigured
    <3>2. ASSUME Rank(y) <= userEntryIdx PROVE FALSE
      <4>1. Rank(y) \in 1 .. Len(userAddedCmds)
        BY <3>1, <3>2, RankType
      <4>2. userAddedCmds \in Seq([MsgId : Mids, PacketRate : CmdMicros])
        OBVIOUS
      <4>3. userAddedCmds[Rank(y)] \in [MsgId : Mids, PacketRate : CmdMicros]
        BY ONLY <4>1, <4>2, ElementOfSequence
      <4>4. State[y].MsgId = userAddedCmds[Rank(y)].MsgId
        BY <2>2, <3>1, <3>2 DEF PlacedAt, HoldsCommand
      <4> QED BY <2>4, <4>3, <4>4, <1>a DEF IsFree
    <3> QED BY <3>1, <3>2
  <2>5. ConfigTable.Config[x].PacketRate = 0 /\ Rank(x) = userEntryIdx + 1
    <3>1. ConfigTable.Config[x].PacketRate = 0 /\ ~(Rank(x) <= userEntryIdx)
      BY <2>1, <2>4 DEF IsFirstFree
    <3>2. ASSUME NEW y \in Entries, y < x, ConfigTable.Config[y].PacketRate = 0
          PROVE  Rank(y) <= userEntryIdx
      <4>1. ~IsFree(y)
        BY <2>1, <3>2, <1>a DEF IsFirstFree, Entries
      <4>2. PlacedAt(y)
        BY <2>2
      <4> QED BY <3>2, <4>1, <4>2 DEF IsFree, PlacedAt, HoldsNothing
    <3>3. userEntryIdx \in Nat
      OBVIOUS
    <3>4. Rank(x) <= userEntryIdx + 1
      BY ONLY <3>1, <3>2, <3>3, RankOfNext
    <3> QED BY <3>1, <3>3, <3>4, RankType
  <2>6. ASSUME NEW y \in Entries PROVE PlacedAt(y)'
    <3>1. CASE y = x
      <4>1. HoldsCommand(x)'
        BY <2>1, <2>3, <2>5 DEF HoldsCommand
      <4> QED BY <3>1, <4>1, <2>1, <2>3, <2>5 DEF PlacedAt
    <3>2. CASE y # x
      <4>1. State'[y] = State[y] /\ PlacedAt(y)
        BY <2>1, <2>2, <3>2
      <4>2. ConfigTable.Config[y].PacketRate = 0 => Rank(y) # Rank(x)
        <5>1. x < y \/ y < x
          BY <3>2, <1>a DEF Entries
        <5> QED BY <5>1, <2>5, RankIncreases, RankType
      <4>3. Rank(y) \in Nat /\ userEntryIdx \in Nat
        BY RankType
      <4>4. CASE ConfigTable.Config[y].PacketRate # 0
        BY <2>1, <4>1, <4>4 DEF PlacedAt, HoldsConfigured
      <4>5. CASE ConfigTable.Config[y].PacketRate = 0 /\ Rank(y) <= userEntryIdx
        <5>1. Rank(y) <= userEntryIdx + 1
          BY <4>3, <4>5
        <5> QED BY <2>1, <2>3, <4>1, <4>5, <5>1 DEF PlacedAt, HoldsCommand
      <4>6. CASE ConfigTable.Config[y].PacketRate = 0 /\ ~(Rank(y) <= userEntryIdx)
        <5>1. ~(Rank(y) <= userEntryIdx + 1)
          BY <2>5, <4>2, <4>3, <4>6
        <5> QED BY <2>1, <2>3, <4>1, <4>6, <5>1 DEF PlacedAt, HoldsNothing
      <4> QED BY <4>4, <4>5, <4>6
    <3> QED BY <3>1, <3>2
  <2> QED BY <2>1, <2>2, <2>6
<1>5. CASE DropCommand
  <2>1. /\ pc = "placing" /\ pc' = "placing" /\ userEntryIdx' = userEntryIdx + 1
        /\ \A x \in Entries : ~IsFree(x)
        /\ UNCHANGED <<State, userAddedCmds, schedRateInMicros, ConfigTable>>
    BY <1>5 DEF DropCommand
  <2>2. ASSUME NEW x \in Entries PROVE PlacedAt(x)'
    <3>1. Rank(x)' = Rank(x) /\ Rank(x) \in Nat /\ userEntryIdx \in Nat
      <4>1. Rank(x)' = Rank(x)
        BY <2>1 DEF Rank, Unused
      <4> QED BY <4>1, RankType
    <3>2. PlacedAt(x) /\ ~HoldsNothing(x)
      BY <2>1 DEF IsFree, HoldsNothing
    <3>3. ConfigTable.Config[x].PacketRate = 0 =>
            Rank(x) <= userEntryIdx /\ Rank(x) <= userEntryIdx + 1
      BY <3>1, <3>2 DEF PlacedAt
    <3> QED BY <2>1, <3>1, <3>2, <3>3 DEF PlacedAt, HoldsConfigured, HoldsCommand
  <2> QED BY <2>1, <2>2
<1>6. ASSUME UNCHANGED <<userAddedCmds, schedRateInMicros, ConfigTable, userEntryIdx>>,
             pc' \in {"placing", "ready", "pass"}, pc \in {"placing", "ready", "pass"},
             \A x \in Entries : /\ State'[x].MsgId = State[x].MsgId
                                /\ State'[x].PacketRate = State[x].PacketRate
      PROVE  PlacedSoFar'
  <2>1. ASSUME NEW x \in Entries PROVE PlacedAt(x)'
    <3>1. Rank(x)' = Rank(x) /\ PlacedAt(x)
      BY <1>6 DEF Rank, Unused
    <3> QED BY <1>6, <3>1 DEF PlacedAt, HoldsConfigured, HoldsCommand, HoldsNothing
  <2> QED BY <1>6, <2>1
<1>7. CASE TablesReady \/ BeginPass \/ EndPass
  BY <1>6, <1>7 DEF TablesReady, BeginPass, EndPass
<1>8. CASE Turn
  <2>1. \A x \in Entries : /\ State'[x].MsgId = State[x].MsgId
                           /\ State'[x].PacketRate = State[x].PacketRate
    BY <1>8 DEF Turn, Counted
  <2> QED BY <1>6, <1>8, <2>1 DEF Turn
<1>9. CASE UNCHANGED vars
  <2>1. CASE pc \in {"placing", "ready", "pass"}
    BY <1>6, <1>9, <2>1 DEF vars
  <2>2. CASE pc \notin {"placing", "ready", "pass"}
    BY <1>9, <2>2 DEF vars, HoldsNothing
  <2> QED BY <2>1, <2>2
<1> QED BY <1>1, <1>2, <1>3, <1>4, <1>5, <1>7, <1>8, <1>9 DEF Next

\* What is placed is what the mission and the user asked for: the interval of a
\* command is rounded down to whole frames.
LEMMA PlacedAsAsked == TypeOK /\ PlacedSoFar => CommandsPlaced
<1> SUFFICES ASSUME TypeOK, PlacedSoFar, pc \in {"ready", "pass"}, NEW x \in Entries
             PROVE  LET configured == ConfigTable.Config[x]
                        rate == State[x].PacketRate
                    IN  IF configured.PacketRate # 0
                        THEN State[x].MsgId = configured.MsgId /\ rate = configured.PacketRate
                        ELSE IF Rank(x) <= userEntryIdx
                        THEN LET cmd == userAddedCmds[Rank(x)]
                             IN  /\ State[x].MsgId = cmd.MsgId
                                 /\ rate * schedRateInMicros <= cmd.PacketRate
                                 /\ cmd.PacketRate < (rate + 1) * schedRateInMicros
                        ELSE State[x].MsgId = InvalidMid /\ rate = 0
  BY DEF CommandsPlaced, Rank, Unused
<1>1. PlacedAt(x)
  BY DEF PlacedSoFar
<1>2. CASE ConfigTable.Config[x].PacketRate # 0
  BY <1>1, <1>2 DEF PlacedAt, HoldsConfigured
<1>3. CASE ConfigTable.Config[x].PacketRate = 0 /\ ~(Rank(x) <= userEntryIdx)
  BY <1>1, <1>3 DEF PlacedAt, HoldsNothing
<1>4. CASE ConfigTable.Config[x].PacketRate = 0 /\ Rank(x) <= userEntryIdx
  <2> DEFINE cmd == userAddedCmds[Rank(x)]
             r == schedRateInMicros
             q == cmd.PacketRate \div r
             n == cmd.PacketRate
  <2>1. HoldsCommand(x)
    BY <1>1, <1>4 DEF PlacedAt
  <2>2. n \in Nat
    <3>1. Rank(x) \in 1 .. Len(userAddedCmds)
      BY <1>4, RankType DEF TypeOK
    <3>2. userAddedCmds \in Seq([MsgId : Mids, PacketRate : CmdMicros])
      BY DEF TypeOK
    <3>3. cmd \in [MsgId : Mids, PacketRate : CmdMicros]
      BY ONLY <3>1, <3>2, ElementOfSequence
    <3> QED BY <3>3, SchLabAssumption
  <2>3. r \in Nat \ {0}
    BY SchLabAssumption DEF TypeOK
  <2>4. State[x].MsgId = cmd.MsgId /\ State[x].PacketRate = q
    BY <2>1 DEF HoldsCommand
  <2>5. q * r <= n /\ n < (q + 1) * r
    BY <2>2, <2>3, RoundedDown
  <2> QED BY <1>4, <2>4, <2>5
<1> QED BY <1>2, <1>3, <1>4

\* However the input file's commands and the mission's table are mixed, each is
\* where initTables promises it, and stays there.
THEOREM CommandsArePlaced == Spec => []CommandsPlaced
<1>1. Init => PlacedSoFar
  BY InitPlaced
<1>2. IInv /\ PlacedSoFar /\ [Next]_vars => PlacedSoFar'
  BY StepPlaced
<1>3. TypeOK /\ PlacedSoFar => CommandsPlaced
  BY PlacedAsAsked
<1> QED BY <1>1, <1>2, <1>3, Inductive, TypeCorrect, PTL DEF Spec

-----------------------------------------------------------------------------
(***************************************************************************)
(* Initial states and steps of the table are those of the timetable.       *)
(***************************************************************************)
LEMMA InitTimetable == Init => TT!Init
BY DEF Init, TT!Init

LEMMA PeriodsNatural ==
  ASSUME TypeOK
  PROVE  [x \in Entries |-> State[x].PacketRate] \in [Entries -> Nat]
BY DEF TypeOK

LEMMA StepTimetable == IInv /\ IInv' /\ [Next]_vars => [TT!Next]_(TT!vars)
<1> SUFFICES ASSUME IInv, IInv', [Next]_vars PROVE [TT!Next]_(TT!vars)
  OBVIOUS
<1> USE DEF TT!vars
<1>1. ASSUME NEW mid \in Mids, NEW micros \in CmdMicros, addScheduledCmd(mid, micros)
      PROVE  UNCHANGED TT!vars
  BY <1>1 DEF addScheduledCmd
<1>2. CASE InitTablesFails
  BY <1>2 DEF InitTablesFails
<1>a. [x \in Entries |-> State[x].PacketRate]' \in [Entries -> Nat]
  BY DEF IInv, TypeOK
<1>b. (pc \in {"ready", "pass"})' \in BOOLEAN
  OBVIOUS
<1>3. ASSUME NEW table \in Tables, LoadTables(table)
      PROVE  TT!SetUp
  <2>1. /\ ~(pc \in {"ready", "pass"})
        /\ UNCHANGED <<frame, pc = "pass", sent>>
    BY <1>3 DEF LoadTables
  <2> QED BY <1>a, <1>b, <2>1, Zenon DEF TT!SetUp
<1>4. ASSUME NEW x \in Entries, PlaceCommand(x)
      PROVE  TT!SetUp
  <2>1. /\ ~(pc \in {"ready", "pass"})
        /\ UNCHANGED <<frame, pc = "pass", sent>>
    BY <1>4 DEF PlaceCommand
  <2> QED BY <1>a, <1>b, <2>1, Zenon DEF TT!SetUp
<1>5. CASE DropCommand
  BY <1>5 DEF DropCommand
<1>6. ASSUME TablesReady
      PROVE  TT!SetUp
  <2>1. /\ ~(pc \in {"ready", "pass"})
        /\ UNCHANGED <<frame, pc = "pass", sent>>
    BY <1>6 DEF TablesReady
  <2> QED BY <1>a, <1>b, <2>1, Zenon DEF TT!SetUp
<1>7. ASSUME BeginPass
      PROVE  TT!Begin
  <2>1. State' = State /\ pc = "ready" /\ pc' = "pass" /\ frame' = frame + 1
        /\ sent' = {}
    BY <1>7 DEF BeginPass
  <2>2. UNCHANGED <<[x \in Entries |-> State[x].PacketRate], pc \in {"ready", "pass"}>>
    BY <2>1
  <2> QED BY <2>1, <2>2 DEF TT!Begin
<1>8. CASE Turn
  <2>1. [x \in Entries |-> State[x].PacketRate]'
          = [x \in Entries |-> State[x].PacketRate]
    BY <1>8 DEF Turn, Counted, IInv, TypeOK
  <2>2. CASE Sends(State[i])
    <3>1. i \in TT!Due
      BY <1>8, <2>2, TurnSends DEF Turn
    <3>2. \A s \in sent : s < i
      BY <1>8 DEF Turn, IInv, SentSoFar
    <3>3. TT!Send(i)
      BY <1>8, <2>1, <2>2, <3>1, <3>2 DEF Turn, TT!Send
    <3> QED BY <1>8, <3>3 DEF Turn, TT!Next
  <2>3. CASE ~Sends(State[i])
    BY <1>8, <2>1, <2>3 DEF Turn
  <2> QED BY <2>2, <2>3
<1>9. CASE EndPass
  <2>1. \A x \in Entries : x < i
    BY <1>9, SchLabAssumption DEF EndPass, IInv, TypeOK, Entries
  <2>2. sent = TT!Due
    BY <1>9, <2>1 DEF EndPass, IInv, SentSoFar, TT!Due
  <2> QED BY <1>9, <2>2 DEF EndPass, TT!End, TT!Next
<1>10. CASE UNCHANGED vars
  BY <1>10 DEF vars
<1> QED
  BY <1>1, <1>2, <1>3, <1>4, <1>5, <1>6, <1>7, <1>8, <1>9, <1>10 DEF Next, TT!Next

\* The table with its counters does what a periodic timetable promises, for any
\* number of entries, any rates and any number of frames.
THEOREM Timetable == Spec => ImplementsTimetable
<1>1. IInv /\ IInv' /\ [Next]_vars => [TT!Next]_(TT!vars)
  BY StepTimetable
<1> QED BY <1>1, InitTimetable, Inductive, PTL DEF Spec, ImplementsTimetable, TT!Spec
==============================================================================
