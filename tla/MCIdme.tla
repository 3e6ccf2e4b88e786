------------------------------- MODULE MCIdme -------------------------------
(***************************************************************************)
(* Four variables in three blocks: one next to the magic and the first     *)
(* part of the signature, one next to the rest of the signature and the    *)
(* bitmap, and bootmode and postmode together.                             *)
(***************************************************************************)
EXTENDS Idme, TLC

MCVars      == {"serial", "pid", "bootmode", "postmode"}
MCBlockOf   == [v \in MCVars |-> CASE v = "serial" -> 0 [] v = "pid" -> 1 [] OTHER -> 2]
MCUpdates   == { "serial" :> "new",
                 [v \in {"pid", "bootmode"} |-> IF v = "pid" THEN "new" ELSE "7"] }
=============================================================================
