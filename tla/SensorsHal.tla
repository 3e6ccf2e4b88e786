----------------------------- MODULE SensorsHal -----------------------------
(***************************************************************************)
(* The poll loop of the sensors HAL (pollEvents() in                       *)
(* Device/libsensors/sensors.cpp) with the light sensor, its circular      *)
(* reader (InputEventReader.cpp, IioSensorBase.cpp) and the wake pipe.     *)
(* One thread of the framework calls pollEvents() again and again, another *)
(* one calls activate().                                                   *)
(*                                                                         *)
(* Of the motion sensors only their file descriptor and the number of      *)
(* events they produce matter here (module MplSensor has the rest).  The   *)
(* slot of the compass is left out: its descriptor is -1, which poll()     *)
(* ignores, and hasPendingEvents() is false for all three sensors          *)
(* (mPollTime is -1 for ever).                                             *)
(***************************************************************************)
EXTENDS Integers, Sequences

CONSTANTS
  mMaxEvents,   \* MAX_BUFFER_FOR_EVENT
  MaxEvents,    \* bound: events of the light driver
  LightEvents,  \* those of them whose channel is IIO_LIGHT
  KFifo,        \* events the light driver keeps
  MaxMotion,    \* motion sensors there are
  MaxSamples,   \* samples the motion driver keeps
  PipeSize,     \* bytes the wake pipe holds
  Counts,       \* sizes of the array the framework passes
  MaxActs,      \* bound: calls of activate()
  MaxFaults     \* bound: system calls that fail

ASSUME ReaderAssumption == mMaxEvents \in Nat \ {0}
ASSUME EventsAssumption ==
  /\ MaxEvents \in Nat /\ LightEvents \subseteq 1 .. MaxEvents /\ KFifo \in Nat
ASSUME BoundsAssumption ==
  /\ MaxMotion \in Nat /\ MaxSamples \in Nat /\ PipeSize \in Nat
  /\ Counts \subseteq Nat \ {0} /\ MaxActs \in Nat /\ MaxFaults \in Nat

Events  == 1 .. MaxEvents
NoEvent == 0
Fds     == {"mpl", "light", "wake"}

VARIABLES
  \* the drivers and the pipe
  arrived,       \* events of the light driver so far
  lightfd,       \* those not read
  samples,       \* samples of the motion driver not read
  pipe,          \* bytes in the wake pipe
  \* the light sensor
  mEnabled, mBuffer, mHead, mCurr, mFreeEvents,
  motion,        \* motion sensors that are enabled
  \* pollEvents()
  pc, count, nbEvents,
  revents,       \* descriptors whose revents is set
  event,         \* readEvents(): the event at hand,
  got,           \*   and numEventReceived
  \* activate()
  ctl,           \* "wake" between enable() and the write to the pipe
  acts, faults   \* bounds

drivers == <<arrived, lightfd, samples, pipe>>
reader  == <<mBuffer, mHead, mCurr, mFreeEvents>>
light   == <<mEnabled, reader>>
poller  == <<pc, count, nbEvents, revents, event, got>>
control == <<ctl, acts>>
vars    == <<drivers, light, motion, poller, control, faults>>

\* mEnabled is true until enable(0, 0) in the constructor has succeeded, which may fail.
Init ==
  /\ arrived = 0 /\ lightfd = <<>> /\ samples = 0 /\ pipe = 0
  /\ mEnabled \in BOOLEAN
  /\ mBuffer = [s \in 0 .. mMaxEvents - 1 |-> NoEvent]
  /\ mHead = 0 /\ mCurr = 0 /\ mFreeEvents = mMaxEvents
  /\ motion = 0
  /\ pc = "out" /\ count = 0 /\ nbEvents = 0 /\ revents = {}
  /\ event = NoEvent /\ got = 0
  /\ ctl = "idle" /\ acts = 0 /\ faults = 0

Min(a, b) == IF a < b THEN a ELSE b
Fault     == faults < MaxFaults /\ faults' = faults + 1

-----------------------------------------------------------------------------
(***************************************************************************)
(* InputEventCircularReader.  Pointers are indices of mBuffer.             *)
(***************************************************************************)
Empty == mFreeEvents >= mMaxEvents

\* fill(): readv() into the part behind mHead and then into the part before it.
numFirst       == Min(mFreeEvents, mMaxEvents - mHead)
IovSlotLate(k) == IF k <= numFirst THEN mHead + k - 1 ELSE k - numFirst        \* mutant
IovSlot(k)     == IF k <= numFirst THEN mHead + k - 1 ELSE k - numFirst - 1

Wrapped(i) == IF i >= mMaxEvents THEN i - mMaxEvents ELSE i

FillReader(k) ==
  /\ mBuffer' = [s \in DOMAIN mBuffer |->
                   IF \E j \in 1 .. k : IovSlot(j) = s
                   THEN lightfd[CHOOSE j \in 1 .. k : IovSlot(j) = s] ELSE mBuffer[s]]
  /\ lightfd' = SubSeq(lightfd, k + 1, Len(lightfd))
  /\ mHead' = Wrapped(mHead + k)
  /\ mFreeEvents' = mFreeEvents - k
  /\ UNCHANGED mCurr

\* next()
NextEvent ==
  /\ mCurr' = Wrapped(mCurr + 1)
  /\ mFreeEvents' = IF mFreeEvents < mMaxEvents THEN mFreeEvents + 1 ELSE mFreeEvents
  /\ UNCHANGED <<mBuffer, mHead>>

-----------------------------------------------------------------------------
(***************************************************************************)
(* pollEvents().  pc: "out" not called; "mpl", "light" the for loop is at  *)
(* that sensor; "read" IioSensorBase::readEvents() of the light sensor,    *)
(* with mLock taken; "poll" before poll(); "wake" before the read of the   *)
(* wake pipe.                                                              *)
(***************************************************************************)
PollEvents(c) ==
  /\ pc = "out" /\ pc' = "mpl"
  /\ count' = c /\ nbEvents' = 0
  /\ UNCHANGED <<drivers, light, motion, revents, event, got, control, faults>>

\* executeOnData(): at most one event of every enabled sensor, and as many as there is room for.
ProducedAll(room) == 0 .. motion            \* mutant: count is not looked at
Produced(room)    == 0 .. Min(motion, room)

\* Mutant: revents of the motion sensors is cleared as for any other sensor.
MplReventsIfLess(nb) == IF nb < count THEN revents \ {"mpl"} ELSE revents
MplRevents(nb)       == revents \ {"mpl"}

\* i = mpl: one sample is read, if it is still there, or all of them if no sensor is enabled;
\* then executeOnData().
ScanMpl ==
  /\ pc = "mpl" /\ pc' = "light"
  /\ IF "mpl" \in revents
     THEN /\ samples' = IF samples = 0 \/ motion = 0 THEN 0 ELSE samples - 1
          /\ \E nb \in Produced(count) :
               /\ revents' = MplRevents(nb)
               /\ count' = count - nb /\ nbEvents' = nbEvents + nb
     ELSE UNCHANGED <<samples, revents, count, nbEvents>>
  /\ UNCHANGED <<arrived, lightfd, pipe, light, motion, event, got, control, faults>>

\* The end of the for loop: poll() if there is room left, else return.
AfterScan(room) == IF room > 0 THEN "poll" ELSE "out"

\* i = light
ScanLight ==
  /\ pc = "light"
  /\ IF count > 0 /\ "light" \in revents
     THEN pc' = "read" ELSE pc' = AfterScan(count)
  /\ UNCHANGED <<drivers, light, motion, count, nbEvents, revents, event, got, control, faults>>

\* readEvents(): readEvent() fills the reader when it is empty.
Fill ==
  /\ pc = "read" /\ got < count /\ Empty
  /\ \E k \in 1 .. Min(Len(lightfd), mFreeEvents) : FillReader(k)
  /\ UNCHANGED <<arrived, samples, pipe, mEnabled, motion, poller, control, faults>>

\* An event of another channel, one that came while the sensor is disabled, or one whose
\* value cannot be read, is dropped.
Take ==
  /\ pc = "read" /\ got < count /\ ~Empty
  /\ event' = mBuffer[mCurr]
  /\ \E valueRead \in BOOLEAN :
       got' = IF event' \in LightEvents /\ mEnabled /\ valueRead THEN got + 1 ELSE got
  /\ NextEvent
  /\ UNCHANGED <<drivers, mEnabled, motion, pc, count, nbEvents, revents, control, faults>>

\* Mutant: revents is cleared also when the array was filled.
ClearedAlways(nb) == revents \ {"light"}
Cleared(nb)       == IF nb < count THEN revents \ {"light"} ELSE revents

\* The loop of readEvents() ends: the array is full, there is nothing to read, or the read
\* failed.  (fill() would lose what it read if that ended inside an event; the driver hands
\* over whole ones.)
ReadDone ==
  /\ pc = "read"
  /\ \/ (got = count \/ (Empty /\ lightfd = <<>>)) /\ UNCHANGED faults
     \/ got < count /\ Empty /\ lightfd # <<>> /\ Fault
  /\ revents' = Cleared(got)
  /\ count' = count - got /\ nbEvents' = nbEvents + got
  /\ got' = 0 /\ pc' = AfterScan(count')
  /\ UNCHANGED <<drivers, light, motion, event, control>>

-----------------------------------------------------------------------------
Ready == { f \in Fds : \/ f = "mpl" /\ samples > 0
                       \/ f = "light" /\ lightfd # <<>>
                       \/ f = "wake" /\ pipe > 0 }

\* poll() waits for ever if there is no event yet, and not at all otherwise.
NeverWaits == TRUE          \* mutant: timeout 0
MayReturn  == Ready # {} \/ nbEvents > 0

Poll ==
  /\ pc = "poll" /\ MayReturn
  /\ revents' = Ready
  /\ pc' = IF Ready = {} THEN "out" ELSE IF "wake" \in Ready THEN "wake" ELSE "mpl"
  /\ UNCHANGED <<drivers, light, motion, count, nbEvents, event, got, control, faults>>

\* poll() fails (not with EINTR, which is tried again): pollEvents() returns -errno.
PollFails ==
  /\ pc = "poll" /\ Fault
  /\ pc' = "out"
  /\ UNCHANGED <<drivers, light, motion, count, nbEvents, revents, event, got, control>>

\* One byte, however many there are.
ReadWake ==
  /\ pc = "wake" /\ pc' = "mpl"
  /\ pipe' = pipe - 1
  /\ revents' = revents \ {"wake"}
  /\ UNCHANGED <<arrived, lightfd, samples, light, motion, count, nbEvents, event, got,
                 control, faults>>

-----------------------------------------------------------------------------
(***************************************************************************)
(* activate(): enable() of the sensor, which for the light sensor takes    *)
(* mLock, and then a byte to the wake pipe, which is lost when it is full. *)
(***************************************************************************)
ActivateLight(en) ==
  /\ ctl = "idle" /\ acts < MaxActs /\ acts' = acts + 1
  /\ pc # "read"
  /\ \/ mEnabled' = en /\ ctl' = "wake" /\ UNCHANGED faults
     \/ en # mEnabled /\ Fault /\ UNCHANGED <<mEnabled, ctl>>
  /\ UNCHANGED <<drivers, reader, motion, poller>>

\* MPLSensor::enable() always returns 0.  It stops the driver's buffer for a while, which may
\* drop samples.
ActivateMotion(m) ==
  /\ ctl = "idle" /\ acts < MaxActs /\ acts' = acts + 1
  /\ m \in {motion - 1, motion, motion + 1} /\ motion' = m /\ ctl' = "wake"
  /\ samples' \in {samples, 0}
  /\ UNCHANGED <<arrived, lightfd, pipe, light, poller, faults>>

WakeUp ==
  /\ ctl = "wake" /\ ctl' = "idle"
  /\ pipe' = IF pipe < PipeSize THEN pipe + 1 ELSE pipe
  /\ UNCHANGED <<arrived, lightfd, samples, light, motion, poller, acts, faults>>

-----------------------------------------------------------------------------
(***************************************************************************)
(* The drivers (external).                                                 *)
(***************************************************************************)
LightArrives ==
  /\ arrived < MaxEvents /\ Len(lightfd) < KFifo
  /\ arrived' = arrived + 1
  /\ lightfd' = Append(lightfd, arrived + 1)
  /\ UNCHANGED <<samples, pipe, light, motion, poller, control, faults>>

SampleArrives ==
  /\ motion > 0 /\ samples < MaxSamples
  /\ samples' = samples + 1
  /\ UNCHANGED <<arrived, lightfd, pipe, light, motion, poller, control, faults>>

PollThread ==
  \/ \E c \in Counts : PollEvents(c)
  \/ ScanMpl \/ ScanLight \/ Fill \/ Take \/ ReadDone \/ Poll \/ ReadWake

Next ==
  \/ PollThread \/ PollFails
  \/ \E en \in BOOLEAN : ActivateLight(en)
  \/ \E m \in 0 .. MaxMotion : ActivateMotion(m)
  \/ WakeUp \/ LightArrives \/ SampleArrives

Spec == Init /\ [][Next]_vars

\* The framework's thread calls pollEvents() again as soon as it has returned, and a system
\* call that can return does.
FairSpec == Spec /\ WF_vars(PollThread)

-----------------------------------------------------------------------------
(***************************************************************************)
(* Properties.                                                             *)
(***************************************************************************)

\* The variables keep their types; pollEvents() writes no more events than the caller has
\* room for, over all sensors and rounds together.
TypeOK ==
  /\ arrived \in 0 .. MaxEvents /\ lightfd \in Seq(Events)
  /\ samples \in Nat /\ pipe \in 0 .. PipeSize
  /\ mEnabled \in BOOLEAN /\ motion \in 0 .. MaxMotion
  /\ mBuffer \in [0 .. mMaxEvents - 1 -> Events \cup {NoEvent}]
  /\ mHead \in 0 .. mMaxEvents - 1 /\ mCurr \in 0 .. mMaxEvents - 1
  /\ mFreeEvents \in 0 .. mMaxEvents
  /\ pc \in {"out", "mpl", "light", "read", "poll", "wake"}
  /\ count \in Nat /\ nbEvents \in Nat /\ got \in 0 .. count
  /\ revents \subseteq Fds
  /\ event \in Events \cup {NoEvent}
  /\ ctl \in {"idle", "wake"} /\ acts \in 0 .. MaxActs /\ faults \in 0 .. MaxFaults

\* Events that were read from the driver but did not fit into the array are not forgotten:
\* revents stays set for them, so that the next call looks at the sensor although poll()
\* would not report it.
NoneStranded == (~Empty /\ pc # "read") => "light" \in revents

\* pollEvents() returns with an event or an error, never empty-handed: it waits in poll()
\* until there is one, also after a wake-up and after events that were dropped.
ReturnsEvents == [][(pc # "out" /\ pc' = "out" /\ ~PollFails) => nbEvents' > 0]_vars

\* The reader hands over every event of the driver once and in order, over the wrap-around
\* of its buffer and reads of any length.
Buffered == [k \in 1 .. mMaxEvents - mFreeEvents |-> mBuffer[Wrapped(mCurr + k - 1)]]
Fifo     == INSTANCE EventFifo WITH fifo <- Buffered \o lightfd
FifoSpec == Fifo!Spec

\* No sensor is starved: an event of the light driver is read although the motion sensors
\* have something to say in every round and fill the array each time.
InFlight(e) == \E k \in DOMAIN (Buffered \o lightfd) : (Buffered \o lightfd)[k] = e
LightServed == \A e \in Events : InFlight(e) ~> ~InFlight(e)

-----------------------------------------------------------------------------
(***************************************************************************)
(* The inductive invariant.                                                *)
(***************************************************************************)

\* The events lie between mCurr and mHead.
ReaderOK == mHead = Wrapped(mCurr + (mMaxEvents - mFreeEvents))

\* Where pollEvents() stands: it has room or events, and goes to poll() only with an empty reader.
PollOK ==
  /\ pc # "out" => count + nbEvents > 0
  /\ pc \in {"mpl", "read", "poll", "wake"} => count > 0
  /\ pc # "read" => got = 0
  /\ pc = "read" => "light" \in revents
  /\ pc \in {"poll", "wake"} => Empty
  /\ pc = "wake" => pipe > 0

IInv == TypeOK /\ ReaderOK /\ PollOK /\ NoneStranded
=============================================================================
