----------------------------- MODULE MCLogical -----------------------------
(***************************************************************************)
(* Disk for TLC with one drive, whose extended partition has a table with a *)
(* partition for the file system.                                          *)
(***************************************************************************)
EXTENDS Disk

CONSTANTS hda, mbr, logical, zero

MCDrives == <<hda>>
MCHardware ==
  hda :> [present |-> TRUE, error |-> 1, lbam |-> 0, lbah |-> 0, ready |-> TRUE, capacity |-> 4]
MCContents == hda :> (0 :> mbr @@ 1 :> zero @@ 2 :> logical @@ 3 :> zero)

TableEntry(type, first, sectors) == [type |-> type, offset |-> first, size |-> sectors]
Unused == TableEntry(0, 0, 0)
MCTables ==
  (mbr :> << TableEntry(131, 1, 1), TableEntry(5, 2, 2), Unused, Unused >>) @@
  (logical :> << TableEntry(33, 1, 1), Unused, Unused, Unused >>)
=============================================================================
