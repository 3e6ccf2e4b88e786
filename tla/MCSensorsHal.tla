---------------------------- MODULE MCSensorsHal ----------------------------
(***************************************************************************)
(* A reader of three events that goes round more than once, and arrays of  *)
(* one and two events, so that either sensor alone can fill one.           *)
(***************************************************************************)
EXTENDS SensorsHal

MCLightEvents == {1, 3, 4}
MCCounts      == {1, 2}
=============================================================================
