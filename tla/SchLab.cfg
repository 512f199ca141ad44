\* The mission's table and up to three commands of the user, twelve frames: the
\* least common multiple of the rates up to 4.
SPECIFICATION Spec
CONSTANTS
  a = a
  b = b
  MaxEntries = 3
  Mids = {a, b}
  InvalidMid = InvalidMid
  Second = 12
  Tables <- MCTables
  CmdMicros = {1, 5, 9}
  MaxCommands = 3
  MaxFrames = 12
\* The task ends when the tables cannot be loaded; and MaxFrames bounds the run.
CHECK_DEADLOCK FALSE
INVARIANTS TypeOK CommandsPlaced
PROPERTIES ImplementsTimetable
