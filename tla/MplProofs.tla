----------------------------- MODULE MplProofs -----------------------------
(***************************************************************************)
(* Proofs about MplSensor for all sensors, any delays and any number of    *)
(* failing writes: the chip is what the enabled sensors need, it is        *)
(* switched only in a stopped stream, and the rate serves the fusion       *)
(* sensors.                                                                *)
(***************************************************************************)
EXTENDS MplSensor, WellFoundedInduction, TLAPS

USE HandlesAssumption, DelaysAssumption, FaultsAssumption

-----------------------------------------------------------------------------
(***************************************************************************)
(* Delays and rates.                                                       *)
(***************************************************************************)
\* A rate is a natural number.
LEMMA HzType == ASSUME NEW d \in Nat, d > 0 PROVE Hz(d) \in Nat
  BY DEF Hz

\* A smaller delay means a higher rate.
LEMMA HzMonotone ==
  ASSUME NEW d \in Nat, NEW e \in Nat, d > 0, d <= e PROVE Hz(d) >= Hz(e)
<1> DEFINE p == Hz(d)
           q == Hz(e)
<1>1. p \in Nat /\ q \in Nat
  BY HzType
<1>2. 1000 < d * (p + 1)
  BY DEF Hz
<1>3. e * q <= 1000
  BY DEF Hz
<1>4. SUFFICES ASSUME q >= p + 1 PROVE FALSE
  BY <1>1
<1>5. d * (p + 1) <= e * q
  <2> HIDE DEF p, q
  <2>1. d * (p + 1) <= d * q
    BY <1>1, <1>4
  <2>2. d * q <= e * q
    BY <1>1
  <2>3. d * (p + 1) \in Int /\ d * q \in Int /\ e * q \in Int
    BY <1>1
  <2> QED  BY <2>1, <2>2, <2>3
<1> QED  BY <1>1, <1>2, <1>3, <1>5

\* A set of natural numbers has a least element.
LEMMA LeastFacts ==
  ASSUME NEW D \in SUBSET Nat, D # {}
  PROVE  Least(D) \in D /\ \A d \in D : Least(D) <= d
<1> DEFINE R == { ss \in Nat \X Nat : ss[1] < ss[2] }
<1>1. IsWellFoundedOn(R, Nat)
  BY NatLessThanWellFounded DEF OpToRel
<1>2. PICK x \in D : \A y \in D : <<y, x>> \notin R
  BY <1>1, WFMin
<1>3. ASSUME NEW y \in D PROVE x <= y
  <2>1. <<y, x>> \in Nat \X Nat /\ <<y, x>>[1] = y /\ <<y, x>>[2] = x
    OBVIOUS
  <2>2. ~(<<y, x>>[1] < <<y, x>>[2])
    BY <1>2, <2>1
  <2> QED  BY <2>1, <2>2
<1> QED  BY <1>3 DEF Least

\* The delay that update_delay() finds is that of an enabled sensor, or the largest one.
LEMMA WantedFacts ==
  ASSUME TypeOK, due = NoSensor
  PROVE  /\ Wanted \in Nat /\ Wanted >= MinDelay
         /\ \A s \in mEnabled : Wanted <= mDelays[s]
<1> DEFINE D == {mDelays[s] : s \in mEnabled} \cup {MaxDelay}
<1>1. \A s \in mEnabled : mDelays[s] \in Nat /\ mDelays[s] >= MinDelay
  BY DEF TypeOK, NoSensor, Sensors, Changeables, Fusion, Gyro, RawGyro, Accelerometer, MagneticField, MinDelay
<1>2. D \in SUBSET Nat /\ D # {} /\ \A d \in D : d >= MinDelay
  BY <1>1 DEF MaxDelay, MinDelay
<1>3. Least(D) \in D /\ \A d \in D : Least(D) <= d
  BY <1>2, LeastFacts
<1> QED  BY <1>2, <1>3 DEF Wanted

-----------------------------------------------------------------------------
(***************************************************************************)
(* The invariant.                                                          *)
(***************************************************************************)
\* Which sensors share a chip: a chip whose need changes is among those that enable() writes.
LEMMA ChangedFacts ==
  ASSUME NEW last \in SUBSET Sensors, NEW what \in Sensors, NEW en,
         en = IF what \in last THEN last \ {what} ELSE last \cup {what}
  PROVE  /\ Changed(what, last, en) \in SUBSET Changeables
         /\ Changed(what, last, en) = {} => en # {}
         /\ \A c \in Chips : (c \in Mask(last) <=> c \notin Mask(en))
                               => Changed(what, last, en) \cap Watched(c) # {}
<1> USE DEF Changed, FusionOf, Sensors, Changeables, Fusion, Gyro, RawGyro, Accelerometer, MagneticField
<1>1. Changed(what, last, en) \in SUBSET Changeables
  OBVIOUS
<1>2. Changed(what, last, en) = {} => en # {}
  OBVIOUS
<1>3. ASSUME NEW c \in Chips, c \in Mask(last) <=> c \notin Mask(en)
      PROVE  Changed(what, last, en) \cap Watched(c) # {}
  <2>1. CASE FusionOf(last) /\ FusionOf(en)
    BY <1>3, <2>1 DEF Mask
  <2>2. CASE ~FusionOf(last) /\ ~FusionOf(en)
    BY <1>3, <2>2 DEF Mask, Watched, Chips
  <2>3. CASE FusionOf(last) /\ ~FusionOf(en)
    BY <1>3, <2>3 DEF Mask, Watched, Chips
  <2>4. CASE ~FusionOf(last) /\ FusionOf(en)
    BY <1>3, <2>4 DEF Mask, Watched, Chips
  <2> QED  BY <2>1, <2>2, <2>3, <2>4
<1> QED  BY <1>1, <1>2, <1>3

\* A sensor is enabled exactly if the chip is needed.
LEMMA MaskFacts ==
  ASSUME NEW en \in SUBSET Sensors
  PROVE  Mask(en) \in SUBSET Chips /\ (Mask(en) = {} <=> en = {})
  BY DEF Mask, FusionOf, Chips, Sensors, Changeables, Fusion, Gyro, RawGyro, Accelerometer, MagneticField

LEMMA InitIInv == Init => IInv
<1> SUFFICES ASSUME Init PROVE IInv
  OBVIOUS
<1>1. TypeOK
  <2>1. mDelays \in [Sensors -> {0} \cup { d \in Nat : d >= MinDelay }]
    BY DEF Init
  <2>2. faults \in 0 .. MaxFaults
    BY DEF Init
  <2> QED  BY <2>1, <2>2 DEF Init, TypeOK, NoSensor, Chips, Files
<1>2. PlacesOK
  BY DEF Init, PlacesOK, UpdatePlaces, BeforeStart, StoppedPlaces, Chips, Mask, FusionOf
<1>3. ChipsOK
  BY DEF Init, ChipsOK, Mask, FusionOf
<1>4. QuaternionOK /\ PowerOK /\ RateOK
  BY DEF Init, QuaternionOK, PowerOK, RateOK, FusionOf, PowerPlaces, StoppedPlaces, Chips
<1> QED  BY <1>1, <1>2, <1>3, <1>4 DEF IInv

\* onPower(1), written in three places.

\* onPower(1), written in three places.
LEMMA PowerOnIInv == ASSUME IInv, PowerOn("power", "stop") \/ PowerOn("repower", "restop") \/ PowerOn("upower", "ustop") PROVE IInv'
<1> USE DEF UpdatePlaces, BeforeStart, StoppedPlaces, PowerPlaces, Chips, Goto, Return, PowerOn, soft, rates, NoFault, Fault, Set
<1>1. TypeOK'
  <2>1. (faults \in 0 .. MaxFaults)'
    BY DEF IInv, TypeOK
  <2> QED  BY <2>1 DEF IInv, TypeOK, Files
<1>2. PlacesOK'
  BY DEF IInv, TypeOK, PlacesOK
<1>3. ASSUME ~failed' PROVE ChipsOK'
  BY <1>3 DEF IInv, TypeOK, PlacesOK, ChipsOK, Pending
<1>4. ASSUME ~failed' PROVE QuaternionOK'
  BY <1>4 DEF IInv, TypeOK, QuaternionOK
<1>5. ASSUME ~failed' PROVE PowerOK'
  BY <1>5 DEF IInv, TypeOK, PlacesOK, PowerOK
<1>6. ASSUME ~failed' PROVE RateOK'
  BY <1>6 DEF IInv, TypeOK, RateOK
<1> QED  BY <1>1, <1>2, <1>3, <1>4, <1>5, <1>6 DEF IInv

\* masterEnable(0), written in two places.
LEMMA StopMasterIInv == ASSUME IInv, StopMaster("stop", "gyro") \/ StopMaster("restop", "quaternion") PROVE IInv'
<1> USE DEF UpdatePlaces, BeforeStart, StoppedPlaces, PowerPlaces, Chips, Goto, Return, StopMaster, StopFailed, soft, rates, NoFault, Fault, Set
<1>1. TypeOK'
  <2>1. (faults \in 0 .. MaxFaults)'
    BY DEF IInv, TypeOK
  <2> QED  BY <2>1 DEF IInv, TypeOK, Files
<1>2. PlacesOK'
  BY DEF IInv, TypeOK, PlacesOK
<1>3. ASSUME ~failed' PROVE ChipsOK'
  BY <1>3 DEF IInv, TypeOK, PlacesOK, ChipsOK, Pending
<1>4. ASSUME ~failed' PROVE QuaternionOK'
  BY <1>4 DEF IInv, TypeOK, QuaternionOK
<1>5. ASSUME ~failed' PROVE PowerOK'
  BY <1>5 DEF IInv, TypeOK, PlacesOK, PowerOK
<1>6. ASSUME ~failed' PROVE RateOK'
  BY <1>6 DEF IInv, TypeOK, RateOK
<1> QED  BY <1>1, <1>2, <1>3, <1>4, <1>5, <1>6 DEF IInv

\* enableGyro()
LEMMA EnableGyroIInv == ASSUME IInv, EnableOneSensor("gyro", {Gyro, RawGyro}, "accel") PROVE IInv'
<1> USE DEF UpdatePlaces, BeforeStart, StoppedPlaces, PowerPlaces, Chips, Goto, Return, EnableOneSensor, soft, rates, NoFault, Fault, Set
<1>1. TypeOK'
  <2>1. (faults \in 0 .. MaxFaults)'
    BY DEF IInv, TypeOK
  <2> QED  BY <2>1 DEF IInv, TypeOK, Files
<1>2. PlacesOK'
  BY DEF IInv, TypeOK, PlacesOK
<1>3. ASSUME ~failed' PROVE ChipsOK'
  BY <1>3 DEF IInv, TypeOK, PlacesOK, ChipsOK, Pending, Watched, Changeables
<1>4. ASSUME ~failed' PROVE QuaternionOK'
  BY <1>4 DEF IInv, TypeOK, QuaternionOK
<1>5. ASSUME ~failed' PROVE PowerOK'
  BY <1>5 DEF IInv, TypeOK, PlacesOK, PowerOK
<1>6. ASSUME ~failed' PROVE RateOK'
  BY <1>6 DEF IInv, TypeOK, RateOK
<1> QED  BY <1>1, <1>2, <1>3, <1>4, <1>5, <1>6 DEF IInv

\* enableAccel()
LEMMA EnableAccelIInv == ASSUME IInv, EnableOneSensor("accel", {Accelerometer}, "compass") PROVE IInv'
<1> USE DEF UpdatePlaces, BeforeStart, StoppedPlaces, PowerPlaces, Chips, Goto, Return, EnableOneSensor, soft, rates, NoFault, Fault, Set
<1>1. TypeOK'
  <2>1. (faults \in 0 .. MaxFaults)'
    BY DEF IInv, TypeOK
  <2> QED  BY <2>1 DEF IInv, TypeOK, Files
<1>2. PlacesOK'
  BY DEF IInv, TypeOK, PlacesOK
<1>3. ASSUME ~failed' PROVE ChipsOK'
  BY <1>3 DEF IInv, TypeOK, PlacesOK, ChipsOK, Pending, Watched, Changeables
<1>4. ASSUME ~failed' PROVE QuaternionOK'
  BY <1>4 DEF IInv, TypeOK, QuaternionOK
<1>5. ASSUME ~failed' PROVE PowerOK'
  BY <1>5 DEF IInv, TypeOK, PlacesOK, PowerOK
<1>6. ASSUME ~failed' PROVE RateOK'
  BY <1>6 DEF IInv, TypeOK, RateOK
<1> QED  BY <1>1, <1>2, <1>3, <1>4, <1>5, <1>6 DEF IInv

\* enableCompass()
LEMMA EnableCompassIInv == ASSUME IInv, EnableOneSensor("compass", {MagneticField}, BeforeQuaternion) PROVE IInv'
<1> USE DEF UpdatePlaces, BeforeStart, StoppedPlaces, PowerPlaces, Chips, Goto, Return, EnableOneSensor, BeforeQuaternion, soft, rates, NoFault, Fault, Set
<1>1. TypeOK'
  <2>1. (faults \in 0 .. MaxFaults)'
    BY DEF IInv, TypeOK
  <2> QED  BY <2>1 DEF IInv, TypeOK, Files
<1>2. PlacesOK'
  BY DEF IInv, TypeOK, PlacesOK
<1>3. ASSUME ~failed' PROVE ChipsOK'
  BY <1>3 DEF IInv, TypeOK, PlacesOK, ChipsOK, Pending, Watched, Changeables
<1>4. ASSUME ~failed' PROVE QuaternionOK'
  BY <1>4 DEF IInv, TypeOK, QuaternionOK
<1>5. ASSUME ~failed' PROVE PowerOK'
  BY <1>5 DEF IInv, TypeOK, PlacesOK, PowerOK
<1>6. ASSUME ~failed' PROVE RateOK'
  BY <1>6 DEF IInv, TypeOK, RateOK
<1> QED  BY <1>1, <1>2, <1>3, <1>4, <1>5, <1>6 DEF IInv

\* enableLPQuaternion() in enableSensors()
LEMMA EnableQuaternionIInv == ASSUME IInv, EnableQuaternion PROVE IInv'
<1> USE DEF UpdatePlaces, BeforeStart, StoppedPlaces, PowerPlaces, Chips, Goto, Return, EnableQuaternion, LPQuaternionOn, LPQuaternionOff, Dmp, soft, rates, NoFault, Fault, Set
<1>1. TypeOK'
  <2>1. (faults \in 0 .. MaxFaults)'
    BY DEF IInv, TypeOK
  <2> QED  BY <2>1 DEF IInv, TypeOK, Files
<1>2. PlacesOK'
  BY DEF IInv, TypeOK, PlacesOK
<1>3. ASSUME ~failed' PROVE ChipsOK'
  BY <1>3 DEF IInv, TypeOK, PlacesOK, ChipsOK, Pending
<1>4. ASSUME ~failed' PROVE QuaternionOK'
  BY <1>4 DEF IInv, TypeOK, QuaternionOK
<1>5. ASSUME ~failed' PROVE PowerOK'
  BY <1>5 DEF IInv, TypeOK, PlacesOK, PowerOK
<1>6. ASSUME ~failed' PROVE RateOK'
  BY <1>6 DEF IInv, TypeOK, RateOK
<1> QED  BY <1>1, <1>2, <1>3, <1>4, <1>5, <1>6 DEF IInv

\* masterEnable(1) or onPower(0) in enableSensors()
LEMMA StartMasterIInv == ASSUME IInv, StartMaster PROVE IInv'
<1> USE DEF UpdatePlaces, BeforeStart, StoppedPlaces, PowerPlaces, Chips, Goto, Return, StartMaster, soft, rates, NoFault, Fault, Set
<1>0. mLocalSensorMask = {} <=> mEnabled = {}
  BY MaskFacts DEF IInv, TypeOK, PlacesOK
<1>1. TypeOK'
  <2>1. (faults \in 0 .. MaxFaults)'
    BY DEF IInv, TypeOK
  <2> QED  BY <2>1 DEF IInv, TypeOK, Files
<1>2. PlacesOK'
  BY DEF IInv, TypeOK, PlacesOK
<1>3. ASSUME ~failed' PROVE ChipsOK'
  BY <1>3 DEF IInv, TypeOK, PlacesOK, ChipsOK, Pending
<1>4. ASSUME ~failed' PROVE QuaternionOK'
  BY <1>4 DEF IInv, TypeOK, QuaternionOK
<1>5. ASSUME ~failed' PROVE PowerOK'
  BY <1>0, <1>5 DEF IInv, TypeOK, PlacesOK, PowerOK
<1>6. ASSUME ~failed' PROVE RateOK'
  BY <1>6 DEF IInv, TypeOK, RateOK
<1> QED  BY <1>1, <1>2, <1>3, <1>4, <1>5, <1>6 DEF IInv

\* masterEnable(0) in update_delay()
LEMMA UpdateStopIInv == ASSUME IInv, UpdateStop PROVE IInv'
<1> USE DEF UpdatePlaces, BeforeStart, StoppedPlaces, PowerPlaces, Chips, Goto, Return, UpdateStop, soft, rates, NoFault, Fault, Set
<1>1. TypeOK'
  <2>1. (faults \in 0 .. MaxFaults)'
    BY DEF IInv, TypeOK
  <2> QED  BY <2>1 DEF IInv, TypeOK, Files
<1>2. PlacesOK'
  BY DEF IInv, TypeOK, PlacesOK
<1>3. ASSUME ~failed' PROVE ChipsOK'
  BY <1>3 DEF IInv, TypeOK, PlacesOK, ChipsOK, Pending
<1>4. ASSUME ~failed' PROVE QuaternionOK'
  BY <1>4 DEF IInv, TypeOK, QuaternionOK
<1>5. ASSUME ~failed' PROVE PowerOK'
  BY <1>5 DEF IInv, TypeOK, PlacesOK, PowerOK
<1>6. ASSUME ~failed' PROVE RateOK'
  BY <1>6 DEF IInv, TypeOK, RateOK
<1> QED  BY <1>1, <1>2, <1>3, <1>4, <1>5, <1>6 DEF IInv

\* masterEnable(1) in update_delay()
LEMMA UpdateStartIInv == ASSUME IInv, UpdateStart PROVE IInv'
<1> USE DEF UpdatePlaces, BeforeStart, StoppedPlaces, PowerPlaces, Chips, Goto, Return, UpdateStart, soft, rates, NoFault, Fault, Set
<1>0. mLocalSensorMask = {} <=> mEnabled = {}
  BY MaskFacts DEF IInv, TypeOK, PlacesOK
<1>1. TypeOK'
  <2>1. (faults \in 0 .. MaxFaults)'
    BY DEF IInv, TypeOK
  <2> QED  BY <2>1 DEF IInv, TypeOK, Files
<1>2. PlacesOK'
  BY DEF IInv, TypeOK, PlacesOK
<1>3. ASSUME ~failed' PROVE ChipsOK'
  BY <1>3 DEF IInv, TypeOK, PlacesOK, ChipsOK, Pending
<1>4. ASSUME ~failed' PROVE QuaternionOK'
  BY <1>4 DEF IInv, TypeOK, QuaternionOK
<1>5. ASSUME ~failed' PROVE PowerOK'
  BY <1>0, <1>5 DEF IInv, TypeOK, PlacesOK, PowerOK
<1>6. ASSUME ~failed' PROVE RateOK'
  BY <1>6 DEF IInv, TypeOK, RateOK
<1> QED  BY <1>1, <1>2, <1>3, <1>4, <1>5, <1>6 DEF IInv

\* enable()
LEMMA EnableIInv == ASSUME IInv, NEW what \in Handles, Enable(what) PROVE IInv'
<1>0. /\ what \in Sensors /\ mEnabled \in SUBSET Sensors
      /\ mEnabled' = IF what \in mEnabled THEN mEnabled \ {what} ELSE mEnabled \cup {what}
      /\ mEnabled' \in SUBSET Sensors /\ pc = "idle" /\ pc' = "power" /\ due = NoSensor
      /\ changed' = Changed(what, mEnabled, mEnabled') /\ mLocalSensorMask' = Mask(mEnabled')
      /\ due' = (IF what \in mEnabled THEN NoSensor ELSE what)
      /\ UNCHANGED <<lpq, mDelays, hw, firmware, rates, failed, faults>>
  BY DEF IInv, TypeOK, Enable
<1>1. /\ changed' \in SUBSET Changeables /\ (changed' = {} => mEnabled' # {})
      /\ \A c \in Chips : (c \in Mask(mEnabled) <=> c \notin Mask(mEnabled'))
                            => changed' \cap Watched(c) # {}
  <2> DEFINE en == mEnabled'
  <2>1. en = IF what \in mEnabled THEN mEnabled \ {what} ELSE mEnabled \cup {what}
    BY <1>0
  <2> HIDE DEF en
  <2>2. /\ Changed(what, mEnabled, en) \in SUBSET Changeables
        /\ Changed(what, mEnabled, en) = {} => en # {}
        /\ \A c \in Chips : (c \in Mask(mEnabled) <=> c \notin Mask(en))
                              => Changed(what, mEnabled, en) \cap Watched(c) # {}
    BY <1>0, <2>1, ChangedFacts
  <2> QED  BY <1>0, <2>2 DEF en
<1>2. Mask(mEnabled') \in SUBSET Chips
  BY <1>0, MaskFacts
<1> USE DEF UpdatePlaces, BeforeStart, StoppedPlaces, PowerPlaces, Chips
<1>3. TypeOK'
  <2>1. (due \in Sensors \cup {NoSensor})'
    BY <1>0
  <2>2. (\A s \in mEnabled \ {due} : mDelays[s] >= MinDelay)'
    <3> SUFFICES ASSUME NEW s \in mEnabled' \ {due'} PROVE mDelays[s] >= MinDelay
      BY <1>0
    <3>1. s \in mEnabled \ {NoSensor}
      BY <1>0 DEF NoSensor, Sensors, Changeables, Fusion, Gyro, RawGyro, Accelerometer, MagneticField
    <3> QED  BY <1>0, <3>1 DEF IInv, TypeOK
  <2> QED  BY <1>0, <1>1, <1>2, <2>1, <2>2 DEF IInv, TypeOK, rates
<1>4. PlacesOK'
  BY <1>0, <1>1 DEF IInv, PlacesOK
<1>5. ASSUME ~failed' PROVE ChipsOK'
  <2> SUFFICES ASSUME NEW c \in Chips, c \in hw' <=> c \notin Mask(mEnabled')
               PROVE  c \in Pending' /\ changed' \cap Watched(c) # {}
    BY DEF ChipsOK, Watched
  <2>1. c \in hw <=> c \in Mask(mEnabled)
    BY <1>0, <1>5 DEF IInv, ChipsOK, Pending
  <2> QED  BY <1>0, <1>1, <2>1 DEF Pending
<1>6. ASSUME ~failed' PROVE QuaternionOK'
  <2>1. ~failed /\ (lpq <=> FusionOf(mEnabled))
    BY <1>0, <1>6 DEF IInv, QuaternionOK
  <2>2. FusionOf(mEnabled') /\ due' \notin Fusion => FusionOf(mEnabled)
    BY <1>0 DEF FusionOf
  <2> QED  BY <1>0, <2>1, <2>2 DEF IInv, QuaternionOK
<1>7. ASSUME ~failed' PROVE PowerOK'
  BY <1>0, <1>7 DEF IInv, PowerOK
<1>8. ASSUME ~failed' PROVE RateOK'
  <2> SUFFICES ASSUME FusionOf(mEnabled'), due' \notin Fusion, NEW s \in mEnabled' \ {due'}
               PROVE  dmpRate >= Hz(mDelays[s])
    BY <1>0 DEF RateOK, rates
  <2>1. FusionOf(mEnabled) /\ due \notin Fusion
    BY <1>0 DEF FusionOf, NoSensor, Fusion
  <2>2. s \in mEnabled \ {due}
    BY <1>0 DEF NoSensor, Sensors, Changeables, Fusion, Gyro, RawGyro, Accelerometer, MagneticField
  <2> QED  BY <1>0, <1>8, <2>1, <2>2 DEF IInv, RateOK
<1> QED  BY <1>3, <1>4, <1>5, <1>6, <1>7, <1>8 DEF IInv

\* setDelay()
LEMMA SetDelayIInv ==
  ASSUME IInv, NEW what \in Handles, NEW ms \in Delays, SetDelay(what, ms) PROVE IInv'
<1> USE DEF UpdatePlaces, BeforeStart, StoppedPlaces, PowerPlaces, Chips
<1> DEFINE d == Clamp(ms)
<1>0. /\ what \in mEnabled /\ pc = "idle" /\ due \in {NoSensor, what} /\ due' = NoSensor
      /\ mDelays' = [mDelays EXCEPT ![what] = d]
      /\ pc' = IF Ignored(what, d) THEN "idle" ELSE "upower"
      /\ UNCHANGED <<soft, lpq, hw, firmware, rates, changed, failed, faults>>
  BY DEF SetDelay
<1>1. d \in Nat /\ d >= MinDelay
  BY DEF Clamp, MinDelay
<1> HIDE DEF d
<1>2. mDelays \in [Sensors -> {0} \cup { e \in Nat : e >= MinDelay }]
  BY DEF IInv, TypeOK
<1>3. /\ mDelays' \in [Sensors -> {0} \cup { e \in Nat : e >= MinDelay }]
      /\ mDelays'[what] = d /\ \A s \in Sensors \ {what} : mDelays'[s] = mDelays[s]
  BY <1>0, <1>1, <1>2 DEF IInv, TypeOK
<1>4. \A s \in mEnabled : s \in Sensors /\ s # NoSensor
  BY DEF IInv, TypeOK, NoSensor, Sensors, Changeables, Fusion, Gyro, RawGyro, Accelerometer, MagneticField
<1>5. \A s \in mEnabled : mDelays'[s] >= MinDelay
  <2> TAKE s \in mEnabled
  <2>1. CASE s = what
    BY <1>1, <1>3, <2>1
  <2>2. CASE s # what
    BY <1>0, <1>3, <1>4, <2>2 DEF IInv, TypeOK
  <2> QED  BY <2>1, <2>2
<1>6. TypeOK'
  BY <1>0, <1>3, <1>5 DEF IInv, TypeOK, soft, rates, NoSensor
<1>7. PlacesOK'
  BY <1>0 DEF IInv, PlacesOK, soft
<1>8. ASSUME ~failed' PROVE ChipsOK' /\ PowerOK'
  BY <1>0, <1>8 DEF IInv, ChipsOK, Pending, PowerOK, soft
<1>9. ASSUME ~failed' PROVE QuaternionOK'
  BY <1>0, <1>9 DEF IInv, QuaternionOK, soft
<1>10. ASSUME ~failed' PROVE RateOK'
  <2> SUFFICES ASSUME FusionOf(mEnabled), Ignored(what, d), NEW s \in mEnabled
               PROVE  dmpRate >= Hz(mDelays'[s])
    BY <1>0 DEF RateOK, soft, rates
  <2>1. PICK t \in (mEnabled \cap Changeables) \ {what} : d > mDelays[t]
    BY DEF Ignored
  <2>2. what \notin Fusion
    BY DEF Ignored, Changeables, Fusion, Gyro, RawGyro, Accelerometer, MagneticField
  <2>3. \A u \in mEnabled \ {due} : dmpRate >= Hz(mDelays[u])
    BY <1>0, <1>10, <2>2 DEF IInv, RateOK, NoSensor, Fusion
  <2>4. CASE s = what
    <3>1. t \in mEnabled \ {due}
      BY <1>0, <1>4
    <3>2. mDelays[t] \in Nat /\ mDelays[t] >= MinDelay
      BY <1>2, <1>4, <3>1 DEF IInv, TypeOK, MinDelay
    <3>3. Hz(mDelays[t]) >= Hz(d)
      BY <1>1, <2>1, <3>2, HzMonotone DEF MinDelay
    <3>4. Hz(mDelays[t]) \in Nat /\ Hz(d) \in Nat /\ dmpRate \in Nat
      BY <1>1, <3>2, HzType DEF IInv, TypeOK, MinDelay
    <3> QED  BY <1>3, <2>3, <2>4, <3>1, <3>3, <3>4
  <2>5. CASE s # what
    BY <1>0, <1>3, <1>4, <2>3, <2>5
  <2> QED  BY <2>4, <2>5
<1> QED  BY <1>6, <1>7, <1>8, <1>9, <1>10 DEF IInv

\* The rates in update_delay()
LEMMA SetRatesIInv == ASSUME IInv, SetRates PROVE IInv'
<1> USE DEF UpdatePlaces, BeforeStart, StoppedPlaces, PowerPlaces, Chips
<1>0. pc = "rate" /\ pc' = "ustart" /\ due = NoSensor /\ UNCHANGED <<soft, mDelays, firmware, due, changed>>
  BY DEF IInv, PlacesOK, SetRates, Goto
<1>1. /\ Wanted \in Nat /\ Wanted >= MinDelay
      /\ \A s \in mEnabled : Wanted <= mDelays[s]
  BY <1>0, WantedFacts DEF IInv
<1>2. \A s \in mEnabled : mDelays[s] \in Nat /\ mDelays[s] >= MinDelay
  BY <1>0 DEF IInv, TypeOK, NoSensor, Sensors, Changeables, Fusion, Gyro, RawGyro, Accelerometer, MagneticField, MinDelay
<1>3. \A s \in Sensors : mDelays[s] \in Nat
  BY DEF IInv, TypeOK
<1>4. UNCHANGED <<hw, lpq>>
  <2>1. CASE FusionRate
    BY <1>1, <2>1 DEF FusionRate, FusionDelay, MinDelay
  <2>2. CASE SingleRates
    BY <2>2 DEF SingleRates
  <2> QED  BY <2>1, <2>2 DEF SetRates
<1>5. failed' \in BOOLEAN /\ faults' \in 0 .. MaxFaults /\ (~failed' => ~failed)
  <2>1. NoFault \/ Fault
    <3>1. CASE FusionRate
      BY <1>1, <3>1 DEF FusionRate, FusionDelay, MinDelay
    <3>2. CASE SingleRates
      BY <3>2 DEF SingleRates
    <3> QED  BY <3>1, <3>2 DEF SetRates
  <2>2. faults' \in 0 .. MaxFaults
    BY <2>1 DEF NoFault, Fault, IInv, TypeOK
  <2>3. failed' \in BOOLEAN /\ (~failed' => ~failed)
    BY <2>1, Zenon DEF NoFault, Fault, IInv, TypeOK
  <2> QED  BY <2>2, <2>3
<1>6. Hz(Wanted) \in Nat /\ Hz(MinDelay) \in Nat
  BY <1>1, HzType DEF MinDelay
<1>7. sampling' \in Nat /\ dmpRate' \in Nat
  <2>1. CASE FusionRate
    BY <1>1, <1>6, <2>1 DEF FusionRate, FusionDelay, MinDelay, IInv, TypeOK
  <2>2. CASE SingleRates
    <3>1. \A e \in Nat, old \in Nat, f \in BOOLEAN : Written(e, old, f) \in SUBSET Nat
      BY HzType DEF Written, LongMax
    <3>2. GyroDelay \in Nat /\ AccelDelay \in Nat /\ CompassDelay \in Nat
      BY <1>3 DEF GyroDelay, AccelDelay, CompassDelay, GyroBefore, Sensors, Changeables
    <3>3. sampling \in Nat /\ dmpRate' \in Nat
      BY <2>2 DEF SingleRates, IInv, TypeOK
    <3>4. PICK f \in BOOLEAN :
            \E g \in IF GyroOn THEN Written(GyroDelay, sampling, f) ELSE {sampling} :
            \E a \in IF AccelOn THEN Written(AccelDelay, g, f) ELSE {g} :
              sampling' \in IF MagneticField \in mEnabled /\ CompassDelay # 0
                            THEN Written(CompassDelay, a, f) ELSE {a}
      BY <2>2 DEF SingleRates
    <3>5. PICK g \in IF GyroOn THEN Written(GyroDelay, sampling, f) ELSE {sampling} :
            \E a \in IF AccelOn THEN Written(AccelDelay, g, f) ELSE {g} :
              sampling' \in IF MagneticField \in mEnabled /\ CompassDelay # 0
                            THEN Written(CompassDelay, a, f) ELSE {a}
      BY <3>4
    <3>6. g \in Nat
      BY <3>1, <3>2, <3>3
    <3>7. PICK a \in IF AccelOn THEN Written(AccelDelay, g, f) ELSE {g} :
            sampling' \in IF MagneticField \in mEnabled /\ CompassDelay # 0
                          THEN Written(CompassDelay, a, f) ELSE {a}
      BY <3>5
    <3>8. a \in Nat
      BY <3>1, <3>2, <3>6
    <3> QED  BY <3>1, <3>2, <3>3, <3>7, <3>8
  <2> QED  BY <2>1, <2>2 DEF SetRates
<1>8. TypeOK'
  BY <1>0, <1>4, <1>5, <1>7 DEF IInv, TypeOK, soft
<1>9. PlacesOK'
  BY <1>0, <1>4 DEF IInv, PlacesOK, soft
<1>10. ASSUME ~failed' PROVE ChipsOK' /\ QuaternionOK' /\ PowerOK'
  BY <1>0, <1>4, <1>5, <1>10 DEF IInv, ChipsOK, Pending, QuaternionOK, PowerOK, soft
<1>11. ASSUME ~failed' PROVE RateOK'
  <2> SUFFICES ASSUME FusionOf(mEnabled), NEW s \in mEnabled PROVE dmpRate' >= Hz(mDelays[s])
    BY <1>0 DEF RateOK, soft
  <2>1. lpq
    BY <1>0, <1>5, <1>11 DEF IInv, QuaternionOK
  <2>2. dmpRate' = Hz(Wanted)
    <3>1. FusionRate
      BY DEF SetRates, SingleRates
    <3>2. ~Fault /\ ~(Wanted < MinDelay)
      BY <1>1, <1>11 DEF Fault, MinDelay
    <3> QED  BY <2>1, <3>1, <3>2, Zenon DEF FusionRate, FusionDelay
  <2> QED  BY <1>1, <1>2, <2>2, HzMonotone DEF MinDelay
<1> QED  BY <1>8, <1>9, <1>10, <1>11 DEF IInv

\* Every step preserves the invariant.
LEMMA NextIInv == IInv /\ [Next]_vars => IInv'
<1> SUFFICES ASSUME IInv, [Next]_vars PROVE IInv'
  OBVIOUS
<1>1. ASSUME NEW what \in Handles, Enable(what) PROVE IInv'
  BY <1>1, EnableIInv
<1>2. ASSUME EnableSensors PROVE IInv'
  BY <1>2, PowerOnIInv, StopMasterIInv, EnableGyroIInv, EnableAccelIInv, EnableCompassIInv,
     EnableQuaternionIInv, StartMasterIInv DEF EnableSensors
<1>3. ASSUME NEW what \in Handles, NEW ms \in Delays, SetDelay(what, ms) PROVE IInv'
  BY <1>3, SetDelayIInv
<1>4. ASSUME UpdateDelay PROVE IInv'
  BY <1>4, PowerOnIInv, UpdateStopIInv, SetRatesIInv, UpdateStartIInv DEF UpdateDelay
<1>5. ASSUME UNCHANGED vars PROVE IInv'
  BY <1>5 DEF IInv, TypeOK, PlacesOK, ChipsOK, Pending, QuaternionOK, PowerOK, RateOK, vars, soft, rates
<1> QED  BY <1>1, <1>2, <1>3, <1>4, <1>5 DEF Next

-----------------------------------------------------------------------------
(***************************************************************************)
(* The theorems.                                                           *)
(***************************************************************************)
\* The invariant of enableSensors() and update_delay() holds in every state.
THEOREM SpecIInv == Spec => []IInv
  BY InitIInv, NextIInv, PTL DEF Spec

\* The state keeps its type, and the delays in use are at least 5 ms.
THEOREM SpecTypeOK == Spec => []TypeOK
<1>1. IInv => TypeOK
  BY DEF IInv
<1> QED  BY <1>1, SpecIInv, PTL

\* After any calls for any of the eight sensors, and as long as no write has failed, the chip
\* is what the enabled sensors need.
THEOREM SpecHwMatches == Spec => []HwMatches
<1>1. IInv => HwMatches
  <2> SUFFICES ASSUME IInv, pc = "idle", ~failed
               PROVE  /\ hw \cap Chips = Mask(mEnabled)
                      /\ lpq <=> FusionOf(mEnabled)
                      /\ "quat" \in hw <=> lpq
                      /\ "dmp" \in hw <=> lpq /\ firmware
                      /\ "power" \in hw <=> mEnabled # {}
    BY DEF HwMatches
  <2>1. \A c \in Chips : c \in hw <=> c \in Mask(mEnabled)
    BY DEF IInv, ChipsOK, Pending
  <2>2. Mask(mEnabled) \in SUBSET Chips
    BY MaskFacts DEF IInv, TypeOK
  <2>3. pc \notin BeforeStart
    BY DEF BeforeStart, Chips
  <2> QED  BY <2>1, <2>2, <2>3 DEF IInv, QuaternionOK, PowerOK
<1> QED  BY <1>1, SpecIInv, PTL

\* Whichever writes fail, no part of the chip is switched in a running stream.
THEOREM SpecChangedWhileStopped == Spec => ChangedWhileStopped
<1>1. IInv /\ [Next]_vars =>
        [hw' \ {"power", "master"} # hw \ {"power", "master"} => "master" \notin hw]_vars
  <2> DEFINE Parts == hw \ {"power", "master"}
  <2>0. SUFFICES ASSUME IInv, [Next]_vars PROVE Parts' # Parts => "master" \notin hw
    OBVIOUS
  <2> USE DEF Set, Goto, Return, soft, rates
  <2>1. CASE \E what \in Handles : Enable(what)
    BY <2>1 DEF Enable
  <2>2. CASE EnableSensors
    <3>1. pc \in StoppedPlaces => "master" \notin hw
      BY <2>0 DEF IInv, PlacesOK
    <3>2. ASSUME pc \notin StoppedPlaces PROVE Parts' = Parts
      BY <2>2, <3>2 DEF EnableSensors, StoppedPlaces, Chips, PowerOn, StopMaster, EnableOneSensor,
         EnableQuaternion, StartMaster
    <3> QED  BY <3>1, <3>2
  <2>3. CASE \E what \in Handles, ms \in Delays : SetDelay(what, ms)
    BY <2>3 DEF SetDelay
  <2>4. CASE UpdateDelay
    <3>1. CASE SetRates
      <4>1. Wanted >= MinDelay /\ Wanted \in Nat
        BY <2>0, <3>1, WantedFacts DEF IInv, PlacesOK, UpdatePlaces, SetRates
      <4> QED  BY <3>1, <4>1 DEF SetRates, FusionRate, SingleRates, FusionDelay, MinDelay
    <3> QED  BY <2>4, <3>1 DEF UpdateDelay, PowerOn, UpdateStop, UpdateStart
  <2>5. CASE UNCHANGED vars
    BY <2>5 DEF vars
  <2> QED  BY <2>0, <2>1, <2>2, <2>3, <2>4, <2>5 DEF Next
<1> QED  BY <1>1, SpecIInv, PTL DEF Spec, ChangedWhileStopped

\* With a fusion sensor, every enabled sensor gets its data as often as it asked for.
THEOREM SpecFusionServed == Spec => []FusionServed
<1>1. IInv => FusionServed
  <2> SUFFICES ASSUME IInv, Quiet, FusionOf(mEnabled), NEW s \in mEnabled
               PROVE  DataRate >= Hz(mDelays[s])
    BY DEF FusionServed
  <2>1. ~failed /\ pc = "idle" /\ due = NoSensor /\ due \notin Fusion
    BY DEF Quiet, NoSensor, Fusion
  <2>2. s # due
    BY <2>1 DEF IInv, TypeOK, NoSensor, Sensors, Changeables, Fusion, Gyro, RawGyro, Accelerometer, MagneticField
  <2>3. DataRate = dmpRate
    BY <2>1 DEF IInv, QuaternionOK, DataRate
  <2> QED  BY <2>1, <2>2, <2>3 DEF IInv, RateOK
<1> QED  BY <1>1, SpecIInv, PTL
=============================================================================
