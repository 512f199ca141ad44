------------------------------- MODULE MCSchLab -------------------------------
(***************************************************************************)
(* SchLabTrickCFSScheduler on a small instance: tables with no used entry, *)
(* with used entries around an unused one, and with a full set.            *)
(***************************************************************************)
EXTENDS SchLabTrickCFSScheduler

CONSTANTS a, b

Entry(m, r) == [MsgId |-> m, PacketRate |-> r]
Table(n, c) == [TickRate |-> n, Config |-> c]

\* A unit of 12: frames of 12 (the default), 3 and 2 (5 does not divide 12).
MCTables == {
  Table(0, <<Entry(InvalidMid, 0), Entry(InvalidMid, 0), Entry(InvalidMid, 0)>>),
  Table(4, <<Entry(a, 2), Entry(InvalidMid, 0), Entry(b, 3)>>),
  Table(5, <<Entry(InvalidMid, 0), Entry(a, 1), Entry(InvalidMid, 0)>>),
  Table(4, <<Entry(a, 1), Entry(b, 3), Entry(a, 4)>>)}
===============================================================================
