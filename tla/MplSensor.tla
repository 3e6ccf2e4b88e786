----------------------------- MODULE MplSensor -----------------------------
(***************************************************************************)
(* The motion sensors (Device/libsensors_iio/MPLSensor.cpp): enable() and  *)
(* setDelay() turn the sensors the framework asks for into writes to the   *)
(* sysfs files of one motion chip, whose data stream stands still while    *)
(* the files are changed.  One step is one group of writes; pc is the      *)
(* place in enableSensors() or update_delay().  The framework (external)   *)
(* makes one call at a time and calls setDelay() right after it has        *)
(* enabled a sensor.                                                       *)
(*                                                                         *)
(* As this device is built, the compass is integrated, the low power       *)
(* quaternion is on and the display orientation of the DMP is off.  Delays *)
(* are in milliseconds, rates in Hz.                                       *)
(***************************************************************************)
EXTENDS Integers

CONSTANTS
  Handles,     \* the sensors that the framework uses
  Delays,      \* the delays it asks for
  MaxFaults    \* bound: writes that fail

Gyro          == "Gyro"
RawGyro       == "RawGyro"
Accelerometer == "Accelerometer"
MagneticField == "MagneticField"
Changeables   == {Gyro, RawGyro, Accelerometer, MagneticField}
Fusion        == {"Orientation", "RotationVector", "LinearAccel", "Gravity"}
Sensors       == Changeables \cup Fusion
NoSensor      == "none"

Chips == {"gyro", "accel", "compass"}
Files == Chips \cup {"power", "master", "quat", "dmp"}

ASSUME HandlesAssumption == Handles \subseteq Sensors
ASSUME DelaysAssumption  == Delays \subseteq Nat
ASSUME FaultsAssumption  == MaxFaults \in Nat

VARIABLES
  mEnabled,          \* the sensors that are enabled
  mLocalSensorMask,  \* the parts of the chip they need
  lpq,               \* INV_DMP_QUATERNION is set in mFeatureActiveMask
  mDelays,           \* 0 until the first setDelay()
  hw,                \* the files that hold 1
  firmware,          \* firmware_loaded
  sampling,          \* sampling_frequency, the one file of all three rates
  dmpRate,           \* dmp_output_rate
  pc, changed,       \* enableSensors(), update_delay()
  due,               \* the sensor whose setDelay() comes next
  failed,            \* a write has failed
  faults

soft  == <<mEnabled, mLocalSensorMask>>
rates == <<sampling, dmpRate>>
vars  == <<soft, lpq, mDelays, hw, firmware, rates, pc, changed, due, failed, faults>>

\* The constructor leaves the chip without power; whether the DMP image was loaded is seen later.
Init ==
  /\ mEnabled = {} /\ mLocalSensorMask = {} /\ lpq = FALSE
  /\ mDelays = [s \in Sensors |-> 0]
  /\ hw = {} /\ firmware \in BOOLEAN /\ sampling = 0 /\ dmpRate = 0
  /\ pc = "idle" /\ changed = {} /\ due = NoSensor /\ failed = FALSE /\ faults = 0

NoFault == UNCHANGED <<failed, faults>>
Fault   == faults < MaxFaults /\ faults' = faults + 1 /\ failed' = TRUE

Goto(p) == pc' = p /\ UNCHANGED changed
Return  == pc' = "idle" /\ changed' = {}

Set(fs, en) == IF en THEN hw \cup fs ELSE hw \ fs

-----------------------------------------------------------------------------
(***************************************************************************)
(* enable()                                                                *)
(***************************************************************************)
FusionOf(en) == en \cap Fusion # {}

\* computeLocalSensorMask()
Mask(en) ==
  IF FusionOf(en) THEN Chips
  ELSE { c \in Chips : \/ c = "gyro" /\ en \cap {Gyro, RawGyro} # {}
                       \/ c = "accel" /\ Accelerometer \in en
                       \/ c = "compass" /\ MagneticField \in en }

\* Mutant: the last fusion sensor that goes does not release the chip.
ChangedOnce(what, last, en) ==
  IF what \in Changeables THEN (IF FusionOf(en) THEN {} ELSE {what})
  ELSE IF FusionOf(last) THEN {} ELSE Changeables \ en

\* The sensors whose part of the chip has to be written.
Changed(what, last, en) ==
  IF what \in Changeables THEN (IF FusionOf(en) THEN {} ELSE {what})
  ELSE IF FusionOf(last) /\ FusionOf(en) THEN {} ELSE Changeables \ en

\* enable() of a sensor that is in that state already does nothing.
Enable(what) ==
  /\ pc = "idle" /\ due = NoSensor
  /\ mEnabled' = IF what \in mEnabled THEN mEnabled \ {what} ELSE mEnabled \cup {what}
  /\ mLocalSensorMask' = Mask(mEnabled')
  /\ changed' = Changed(what, mEnabled, mEnabled')
  /\ due' = IF what \in mEnabled THEN NoSensor ELSE what
  /\ pc' = "power"
  /\ UNCHANGED <<lpq, mDelays, hw, firmware, rates, failed, faults>>

-----------------------------------------------------------------------------
(***************************************************************************)
(* enableSensors().  enable() does not look at its result.                 *)
(***************************************************************************)

\* onPower(1): the result is not looked at.
PowerOn(at, next) ==
  /\ pc = at /\ Goto(next)
  /\ \/ hw' = Set({"power"}, TRUE) /\ NoFault
     \/ UNCHANGED hw /\ Fault
  /\ UNCHANGED <<soft, lpq, mDelays, firmware, rates, due>>

\* Mutant: the result of masterEnable(0) is not looked at.
StopFailedGoesOn(next) == Goto(next)
StopFailed(next)       == Return

StopMaster(at, next) ==
  /\ pc = at
  /\ \/ hw' = Set({"master"}, FALSE) /\ NoFault /\ Goto(next)
     \/ UNCHANGED hw /\ Fault /\ StopFailed(next)
  /\ UNCHANGED <<soft, lpq, mDelays, firmware, rates, due>>

\* enableGyro(), enableAccel(), enableCompass().  Enabled, the result is that of the last
\* file, so that a failed write to the others is not seen.
EnableOneSensor(chip, watched, next) ==
  /\ pc = chip
  /\ IF changed \cap watched = {} THEN Goto(next) /\ UNCHANGED hw /\ NoFault
     ELSE LET en == chip \in mLocalSensorMask
          IN \/ hw' = Set({chip}, en) /\ NoFault /\ Goto(next)
             \/ en /\ Fault /\ hw' \in {hw, Set({chip}, TRUE)} /\ (Goto(next) \/ Return)
             \/ ~en /\ Fault /\ UNCHANGED hw /\ Return
  /\ UNCHANGED <<soft, lpq, mDelays, firmware, rates, due>>

\* enableLPQuaternion(1): onDMP() writes nothing, and is content, if no image is loaded or
\* dmp_on cannot be read.
Dmp == IF firmware THEN {"dmp"} ELSE {}
LPQuaternionOn ==
  \/ hw' = Set({"quat"} \cup Dmp, TRUE) /\ lpq' = TRUE /\ NoFault
  \/ hw' \in {hw, Set({"quat"}, TRUE)} /\ UNCHANGED lpq /\ Fault
  \/ firmware /\ hw' = Set({"quat"}, TRUE) /\ lpq' = TRUE /\ Fault

\* enableLPQuaternion(0): the results are not looked at.
LPQuaternionOff ==
  /\ lpq' = FALSE
  /\ \/ hw' = Set({"quat"} \cup Dmp, FALSE) /\ NoFault
     \/ hw' \in {hw, Set({"quat"}, FALSE), Set(Dmp, FALSE)} /\ Fault

\* Power and master are written once more for a fusion sensor that changes nothing.
BeforeQuaternion == IF FusionOf(mEnabled) /\ changed = {} THEN "repower" ELSE "quaternion"

EnableQuaternion ==
  /\ pc = "quaternion"
  /\ \/ FusionOf(mEnabled) /\ ~lpq /\ LPQuaternionOn /\ Goto("start")
     \/ ~FusionOf(mEnabled) /\ lpq /\ LPQuaternionOff /\ Goto("start")
     \/ (FusionOf(mEnabled) <=> lpq) /\ UNCHANGED <<hw, lpq>> /\ NoFault /\ Goto("start")
  /\ UNCHANGED <<soft, mDelays, firmware, rates, due>>

\* masterEnable(1) if a part of the chip is used and onPower(0) if none is; neither if
\* nothing has changed.
StartMaster ==
  /\ pc = "start" /\ Return
  /\ IF changed = {} THEN UNCHANGED hw /\ NoFault
     ELSE \/ /\ hw' = IF mLocalSensorMask # {} THEN Set({"master"}, TRUE) ELSE Set({"power"}, FALSE)
             /\ NoFault
          \/ UNCHANGED hw /\ Fault
  /\ UNCHANGED <<soft, lpq, mDelays, firmware, rates, due>>

EnableSensors ==
  \/ PowerOn("power", "stop")
  \/ StopMaster("stop", "gyro")
  \/ EnableOneSensor("gyro", {Gyro, RawGyro}, "accel")
  \/ EnableOneSensor("accel", {Accelerometer}, "compass")
  \/ EnableOneSensor("compass", {MagneticField}, BeforeQuaternion)
  \/ PowerOn("repower", "restop")
  \/ StopMaster("restop", "quaternion")
  \/ EnableQuaternion
  \/ StartMaster

-----------------------------------------------------------------------------
(***************************************************************************)
(* setDelay()                                                              *)
(***************************************************************************)
MinDelay == 5      \* 5000000 ns, and RATE_200HZ
MaxDelay == 1000

Unclamped(ms) == ms       \* mutant
Clamp(ms)     == IF ms < MinDelay THEN MinDelay ELSE ms

\* The delay of a sensor is ignored if another one has a smaller one.
Ignored(what, ms) ==
  /\ what \in Changeables
  /\ \E s \in (mEnabled \cap Changeables) \ {what} : ms > mDelays[s]

SetDelay(what, ms) ==
  /\ pc = "idle" /\ what \in mEnabled /\ due \in {NoSensor, what} /\ due' = NoSensor
  /\ mDelays' = [mDelays EXCEPT ![what] = Clamp(ms)]
  /\ IF Ignored(what, Clamp(ms)) THEN UNCHANGED pc ELSE pc' = "upower"
  /\ UNCHANGED <<soft, lpq, hw, firmware, rates, changed, failed, faults>>

\* update_delay(): here the result of masterEnable(0) is not looked at.
UpdateStop ==
  /\ pc = "ustop" /\ Goto("rate")
  /\ \/ hw' = Set({"master"}, FALSE) /\ NoFault
     \/ UNCHANGED hw /\ Fault
  /\ UNCHANGED <<soft, lpq, mDelays, firmware, rates, due>>

\* The smallest delay of an enabled sensor.
Least(D) == CHOOSE d \in D : \A e \in D : d <= e
Wanted   == Least({mDelays[s] : s \in mEnabled} \cup {MaxDelay})

\* Mutant: the fusion sensors decide alone.
WantedFusion == Least({mDelays[s] : s \in mEnabled \cap Fusion} \cup {MaxDelay})
FusionDelay  == Wanted

\* The file takes a whole number of Hz.
Hz(ms) == 1000 \div ms

\* With the quaternion the DMP runs at 200 Hz and hands on what is wanted.
FusionRate ==
  /\ FusionOf(mEnabled)
  /\ \/ /\ lpq /\ FusionDelay >= MinDelay
        /\ dmpRate' = Hz(FusionDelay) /\ sampling' = Hz(MinDelay)
        /\ UNCHANGED <<lpq, hw>> /\ NoFault
     \/ /\ ~lpq
        /\ sampling' = Hz(FusionDelay)
        /\ UNCHANGED <<dmpRate, lpq, hw>> /\ NoFault
     \/ /\ lpq /\ FusionDelay < MinDelay
        /\ LPQuaternionOff
        /\ sampling' = Hz(FusionDelay) /\ UNCHANGED dmpRate
     \/ /\ Fault
        /\ \/ dmpRate' = Hz(FusionDelay) /\ lpq
           \/ UNCHANGED dmpRate
        /\ sampling' \in {sampling, Hz(IF lpq THEN MinDelay ELSE FusionDelay)}
        /\ UNCHANGED <<lpq, hw>>

\* The delays of the gyroscope, the accelerometer and the compass as they are written,
\* the last one into the same file.  GY_ENABLED holds for either gyroscope.
GyroOn  == mEnabled \cap {Gyro, RawGyro} # {}
AccelOn == Accelerometer \in mEnabled

GyroDelay ==
  IF mDelays[Gyro] <= mDelays[RawGyro]
  THEN mDelays[IF Gyro \in mEnabled THEN Gyro ELSE RawGyro]
  ELSE mDelays[IF RawGyro \in mEnabled THEN RawGyro ELSE Gyro]

\* A gyroscope with a smaller delay, enabled or not, stands for sensor s.
GyroBefore(s) ==
  IF GyroOn /\ mDelays[Gyro] < mDelays[s] THEN Gyro
  ELSE IF GyroOn /\ mDelays[RawGyro] < mDelays[s] THEN RawGyro ELSE s

AccelDelay == mDelays[GyroBefore(Accelerometer)]

CompassDelay ==
  LET s == GyroBefore(MagneticField)
  IN IF s = MagneticField /\ AccelOn /\ mDelays[Accelerometer] < mDelays[MagneticField]
     THEN mDelays[Accelerometer] ELSE mDelays[s]

\* What the file may hold after it was written.  A delay of 0 becomes an infinite rate, whose
\* conversion to long is undefined (it saturates here); the driver takes the value or not.
LongMax == 2147483647
Written(ms, old, fails) ==
  IF ms = 0 THEN {old, LongMax} ELSE {Hz(ms)} \cup (IF fails THEN {old} ELSE {})

\* CompassSensor::setDelay() refuses a delay of 0.
SingleRates ==
  /\ ~FusionOf(mEnabled)
  /\ \E fails \in BOOLEAN :
       /\ IF fails THEN Fault ELSE NoFault
       /\ \E g \in IF GyroOn THEN Written(GyroDelay, sampling, fails) ELSE {sampling} :
          \E a \in IF AccelOn THEN Written(AccelDelay, g, fails) ELSE {g} :
            sampling' \in IF MagneticField \in mEnabled /\ CompassDelay # 0
                          THEN Written(CompassDelay, a, fails) ELSE {a}
  /\ UNCHANGED <<dmpRate, lpq, hw>>

SetRates ==
  /\ pc = "rate" /\ Goto("ustart")
  /\ FusionRate \/ SingleRates
  /\ UNCHANGED <<soft, mDelays, firmware, due>>

UpdateStart ==
  /\ pc = "ustart" /\ Return
  /\ \/ /\ hw' = IF mLocalSensorMask # {} THEN Set({"master"}, TRUE) ELSE Set({"power"}, FALSE)
        /\ NoFault
     \/ UNCHANGED hw /\ Fault
  /\ UNCHANGED <<soft, lpq, mDelays, firmware, rates, due>>

UpdateDelay == PowerOn("upower", "ustop") \/ UpdateStop \/ SetRates \/ UpdateStart

-----------------------------------------------------------------------------
Next ==
  \/ \E what \in Handles : Enable(what)
  \/ EnableSensors
  \/ \E what \in Handles, ms \in Delays : SetDelay(what, ms)
  \/ UpdateDelay

Spec == Init /\ [][Next]_vars

-----------------------------------------------------------------------------
(***************************************************************************)
(* Properties.                                                             *)
(***************************************************************************)

\* The variables keep their types; the delay of an enabled sensor is never below 5 ms once
\* its setDelay() was called.
TypeOK ==
  /\ mEnabled \subseteq Sensors /\ mLocalSensorMask \subseteq Chips /\ lpq \in BOOLEAN
  /\ mDelays \in [Sensors -> {0} \cup { d \in Nat : d >= MinDelay }]
  /\ hw \subseteq Files /\ firmware \in BOOLEAN /\ sampling \in Nat /\ dmpRate \in Nat
  /\ pc \in Chips \cup {"idle", "power", "stop", "repower", "restop", "quaternion", "start",
                        "upower", "ustop", "rate", "ustart"}
  /\ changed \subseteq Changeables /\ due \in Sensors \cup {NoSensor}
  /\ failed \in BOOLEAN /\ faults \in 0 .. MaxFaults
  /\ \A s \in mEnabled \ {due} : mDelays[s] >= MinDelay

\* Between two calls the chip is what the enabled sensors need, after any sequence of calls:
\* its parts, the quaternion and the DMP for the fusion sensors, and the power.  enable()
\* writes only what it believes has changed.
HwMatches ==
  (pc = "idle" /\ ~failed) =>
    /\ hw \cap Chips = Mask(mEnabled)
    /\ lpq <=> FusionOf(mEnabled)
    /\ "quat" \in hw <=> lpq
    /\ "dmp" \in hw <=> lpq /\ firmware
    /\ "power" \in hw <=> mEnabled # {}

\* The parts of the chip and the quaternion are switched only while the data stream stands
\* still, whichever write has failed: what is in the stream would be taken for another sensor.
ChangedWhileStopped == [][hw' \ {"power", "master"} # hw \ {"power", "master"} => "master" \notin hw]_vars

\* With a fusion sensor the data comes as often as the most demanding of all enabled sensors
\* asks for, although most calls of setDelay() are ignored or write one shared file.
DataRate     == IF lpq THEN dmpRate ELSE sampling
Quiet        == pc = "idle" /\ due = NoSensor /\ ~failed
FusionServed ==
  (Quiet /\ FusionOf(mEnabled)) => \A s \in mEnabled : DataRate >= Hz(mDelays[s])

\* Between two calls the data stream is on as long as a sensor is enabled: "4. set master
\* enable (=1)" ends the sequence to enable or disable a sensor.
StreamOn == (Quiet /\ mEnabled # {}) => "master" \in hw

\* "search the minimum delay requested across all enabled sensors": update_delay() sets the
\* rate of the most demanding enabled sensor.
MinimumSet == [][SetRates /\ ~failed' => DataRate' = Hz(Wanted)]_vars

-----------------------------------------------------------------------------
(***************************************************************************)
(* The inductive invariant: what holds at each place of enableSensors()    *)
(* and update_delay().                                                     *)
(***************************************************************************)
UpdatePlaces  == {"upower", "ustop", "rate", "ustart"}
BeforeStart   == Chips \cup {"power", "stop", "repower", "restop", "quaternion"}
StoppedPlaces == Chips \cup {"repower", "restop", "quaternion"}
PowerPlaces   == StoppedPlaces \cup {"stop", "start", "ustop", "rate", "ustart"}

\* The chips that enableSensors() has not come to yet, and the sensors that make it write them.
Pending    == { c \in Chips : \/ pc \in {"power", "stop", "gyro"}
                              \/ pc = "accel" /\ c # "gyro"
                              \/ pc = "compass" /\ c = "compass" }
Watched(c) == { s \in Changeables : \/ c = "gyro" /\ s \in {Gyro, RawGyro}
                                    \/ c = "accel" /\ s = Accelerometer
                                    \/ c = "compass" /\ s = MagneticField }

\* A call that changes nothing is not the last one to disable a sensor.
PlacesOK ==
  /\ pc \in UpdatePlaces => due = NoSensor /\ mEnabled # {}
  /\ pc \in BeforeStart \cup {"start"} /\ changed = {} => mEnabled # {}
  /\ pc \in StoppedPlaces => "master" \notin hw
  /\ mLocalSensorMask = Mask(mEnabled)

\* A chip that is not as it should be is one that is going to be written.
ChipsOK == \A c \in Chips :
  (c \in hw <=> c \notin Mask(mEnabled)) => c \in Pending /\ changed \cap Watched(c) # {}

\* The quaternion stays on as long as a fusion sensor is enabled.
QuaternionOK ==
  /\ "quat" \in hw <=> lpq
  /\ "dmp" \in hw <=> lpq /\ firmware
  /\ pc \notin BeforeStart => (lpq <=> FusionOf(mEnabled))
  /\ FusionOf(mEnabled) /\ due \notin Fusion => lpq

PowerOK ==
  /\ pc = "idle" => ("power" \in hw <=> mEnabled # {})
  /\ pc \in PowerPlaces => "power" \in hw

\* Until the first fusion sensor has its delay, the rate is not that of the quaternion.
RateOK ==
  (FusionOf(mEnabled) /\ due \notin Fusion /\ pc \notin {"upower", "ustop", "rate"}) =>
    \A s \in mEnabled \ {due} : dmpRate >= Hz(mDelays[s])

IInv == TypeOK /\ PlacesOK /\ (~failed => ChipsOK /\ QuaternionOK /\ PowerOK /\ RateOK)
=============================================================================
