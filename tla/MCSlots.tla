------------------------------- MODULE MCSlots -------------------------------
(***************************************************************************)
(* TrickCFSScheduler on two slots of two entries.                          *)
(***************************************************************************)
EXTENDS TrickCFSScheduler

Entry(enable, frequency, remainder, index) ==
  [EnableState |-> enable, Frequency |-> frequency, Remainder |-> remainder,
   Type |-> SCH_ACTIVITY_SEND_MSG, MessageIndex |-> index]

\* Entries for every second, one in two and one in three, one for a message that may
\* be unused, a disabled one; and, to be rejected, a remainder that is never
\* reached, no frequency and no message.
MCEntries == {
  Unused,
  Entry(SCH_ENABLED, 1, 0, 1), Entry(SCH_ENABLED, 2, 1, 1), Entry(SCH_ENABLED, 3, 2, 2),
  Entry(SCH_DISABLED, 1, 0, 1),
  Entry(SCH_ENABLED, 2, 2, 1), Entry(SCH_ENABLED, 0, 0, 1), Entry(SCH_ENABLED, 1, 0, 3)}

Command == [mid |-> "valid", zero |-> FALSE, fits |-> TRUE]
MCMessages == {
  <<Command, Command>>, <<Command, UnusedMessage>>,
  <<Command, [Command EXCEPT !.fits = FALSE]>>, <<Command, [Command EXCEPT !.mid = "bad"]>>}

MCScheduleFiles == [Indexes -> MCEntries]
\* Message 0 is the one that stands for none.
MCMessageFiles ==
  {[n \in 0 .. 2 |-> IF n = 0 THEN UnusedMessage ELSE commands[n]] : commands \in MCMessages}
==============================================================================
