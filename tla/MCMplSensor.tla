----------------------------- MODULE MCMplSensor -----------------------------
(***************************************************************************)
(* The two sensors that share the gyroscope, the accelerometer and two     *)
(* that need the whole chip; a delay below the least one and one above it. *)
(***************************************************************************)
EXTENDS MplSensor

MCHandles == {Gyro, RawGyro, Accelerometer, "Orientation", "RotationVector"}
MCDelays  == {1, 20}
=============================================================================
