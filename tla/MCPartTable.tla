---------------------------- MODULE MCPartTable ----------------------------
(***************************************************************************)
(* The built-in layout on a storage that is too small, one that it fills   *)
(* exactly and one that leaves a rest; blank, or with the table of another *)
(* system whose partitions lie across the built-in ones.                   *)
(***************************************************************************)
EXTENDS PartTable

MCNames == STRING
MCSizes == {3000000, 3627008, 3640000}

Other == [s \in Slots |->
            CASE s = 0 -> [name |-> "boot", first |-> 300, last |-> 30000]
              [] s = 2 -> [name |-> "system", first |-> 1000000, last |-> 2900000]
              [] s = 5 -> [name |-> "data", first |-> 30001, last |-> 999999]
              [] OTHER -> None]
MCOldTables == {Other}
=============================================================================
