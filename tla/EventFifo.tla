----------------------------- MODULE EventFifo -----------------------------
(***************************************************************************)
(* What the reader of a sensor promises to the sensor: the events of the   *)
(* driver, each once and in the order in which they came.                  *)
(***************************************************************************)
EXTENDS Sequences

CONSTANTS
  Events,   \* the events of the driver
  NoEvent   \* what the sensor has before the first one

VARIABLES
  fifo,     \* the events the sensor has not been given yet
  event     \* the one it was given last

Init == fifo = <<>> /\ event = NoEvent

Arrive(e) == fifo' = Append(fifo, e) /\ UNCHANGED event

Take == fifo # <<>> /\ event' = Head(fifo) /\ fifo' = Tail(fifo)

Next == (\E e \in Events : Arrive(e)) \/ Take

Spec == Init /\ [][Next]_<<fifo, event>>
=============================================================================
