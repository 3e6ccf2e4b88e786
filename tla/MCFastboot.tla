----------------------------- MODULE MCFastboot -----------------------------
(***************************************************************************)
(* Two partitions on a storage of eight sectors of two bytes, a buffer of  *)
(* two sectors, and a 32-bit range scaled down to 8, so that the sizes of  *)
(* the second partition wrap and those of the first do not.                *)
(***************************************************************************)
EXTENDS Fastboot

MCImages == {"raw2", "raw5", "sparse2", "sparse3"}
MCImgLen == [i \in MCImages |-> CASE i \in {"raw2", "sparse2"} -> 2 [] i = "raw5" -> 5 [] i = "sparse3" -> 3]
MCSparse == {"sparse2", "sparse3"}
MCRawSectors == [i \in MCSparse |-> CASE i = "sparse2" -> {0} [] i = "sparse3" -> {0, 2}]
MCNewlines == {<<"raw2", 1>>}

Ptent(n, s, l) == [name |-> n, start |-> s, length |-> l, env |-> FALSE]
Environment    == [name |-> "environment", start |-> 7, length |-> 2, env |-> TRUE]

MCGPT     == <<Ptent("boot", 1, 2), Ptent("system", 3, 6), Environment>>
MCBuiltIn == <<Ptent("boot", 1, 2), Ptent("cache", 3, 6)>>
=============================================================================
