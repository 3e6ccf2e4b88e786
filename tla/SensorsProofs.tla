--------------------------- MODULE SensorsProofs ---------------------------
(***************************************************************************)
(* Proofs about SensorsHal for a buffer of any size, any number of events, *)
(* sensors, calls and failures: no event is stranded in the reader,        *)
(* pollEvents() never returns empty-handed, and the reader implements      *)
(* EventFifo.                                                              *)
(***************************************************************************)
EXTENDS SensorsHal, SequenceTheorems, TLAPS

USE ReaderAssumption, EventsAssumption, BoundsAssumption

-----------------------------------------------------------------------------
(***************************************************************************)
(* The inductive invariant.                                                *)
(***************************************************************************)

\* Only a failing call counts as a fault, and there are at most MaxFaults.
LEMMA FaultBound ==
  ASSUME faults \in 0 .. MaxFaults, Fault \/ UNCHANGED faults
  PROVE  faults' \in 0 .. MaxFaults
  BY DEF Fault

\* The HAL starts with an empty reader, outside of pollEvents().
LEMMA InitIInv == Init => IInv
<1> SUFFICES ASSUME Init PROVE IInv
  OBVIOUS
<1>1. lightfd \in Seq(Events)
  BY DEF Init
<1>2. mBuffer \in [0 .. mMaxEvents - 1 -> Events \cup {NoEvent}]
  BY DEF Init
<1>3. /\ arrived \in 0 .. MaxEvents /\ samples \in Nat /\ pipe \in 0 .. PipeSize
      /\ motion \in 0 .. MaxMotion /\ acts \in 0 .. MaxActs /\ faults \in 0 .. MaxFaults
  BY DEF Init
<1>4. /\ mHead \in 0 .. mMaxEvents - 1 /\ mCurr \in 0 .. mMaxEvents - 1
      /\ mFreeEvents \in 0 .. mMaxEvents
      /\ count \in Nat /\ nbEvents \in Nat /\ got \in 0 .. count
  BY DEF Init
<1>5. TypeOK
  BY <1>1, <1>2, <1>3, <1>4 DEF Init, TypeOK
<1>6. ReaderOK /\ PollOK /\ NoneStranded
  BY DEF Init, ReaderOK, PollOK, NoneStranded, Empty, Wrapped
<1> QED  BY <1>5, <1>6 DEF IInv

\* A call begins: there is room, and the reader is as the last call left it.
LEMMA PollEventsIInv ==
  ASSUME IInv, NEW c \in Counts, PollEvents(c) PROVE IInv'
<1>1. TypeOK'
  BY DEF IInv, TypeOK, PollOK, PollEvents, drivers, light, reader, control
<1>2. ReaderOK' /\ PollOK' /\ NoneStranded'
  BY DEF IInv, TypeOK, ReaderOK, PollOK, NoneStranded, PollEvents, drivers, light, reader,
     control, Empty, Wrapped
<1> QED  BY <1>1, <1>2 DEF IInv

\* The motion sensors produce no more than there is room for.
LEMMA ScanMplIInv == ASSUME IInv, ScanMpl PROVE IInv'
<1>1. /\ samples' \in Nat /\ revents' \in {revents, revents \ {"mpl"}}
      /\ count' \in Nat /\ nbEvents' \in Nat /\ count' + nbEvents' = count + nbEvents
  BY DEF IInv, TypeOK, ScanMpl, Produced, Min, MplRevents
<1>2. pc' = "light" /\ got' = 0 /\ UNCHANGED <<arrived, lightfd, pipe, light, motion, event, control, faults>>
  BY DEF IInv, PollOK, ScanMpl
<1>3. TypeOK'
  BY <1>1, <1>2 DEF IInv, TypeOK, light, reader, control
<1>4. ReaderOK' /\ PollOK' /\ NoneStranded'
  BY <1>1, <1>2 DEF IInv, TypeOK, ReaderOK, PollOK, NoneStranded, ScanMpl, light, reader,
     Empty, Wrapped
<1> QED  BY <1>3, <1>4 DEF IInv

\* The loop goes on to poll() only when the light sensor has nothing left.
LEMMA ScanLightIInv == ASSUME IInv, ScanLight PROVE IInv'
<1>1. TypeOK'
  BY DEF IInv, TypeOK, PollOK, ScanLight, AfterScan, drivers, light, reader, control
<1>2. ReaderOK' /\ PollOK' /\ NoneStranded'
  BY DEF IInv, TypeOK, ReaderOK, PollOK, NoneStranded, ScanLight, AfterScan, drivers, light,
     reader, control, Empty, Wrapped
<1> QED  BY <1>1, <1>2 DEF IInv

\* fill() stays within the buffer.
LEMMA FillIInv == ASSUME IInv, Fill PROVE IInv'
<1>1. PICK k \in 1 .. Min(Len(lightfd), mFreeEvents) : FillReader(k)
  BY DEF Fill
<1>2. mFreeEvents = mMaxEvents /\ mHead = mCurr
  BY DEF Fill, Empty, IInv, TypeOK, ReaderOK, Wrapped
<1>3. Len(lightfd) \in Nat /\ k \in 1 .. Len(lightfd) /\ k \in 1 .. mMaxEvents
  BY <1>2 DEF IInv, TypeOK, Min
<1>4. /\ mHead' = Wrapped(mHead + k) /\ mFreeEvents' = mMaxEvents - k /\ mCurr' = mCurr
      /\ lightfd' = SubSeq(lightfd, k + 1, Len(lightfd))
  BY <1>1, <1>2 DEF FillReader
<1>5. lightfd' \in Seq(Events)
  BY <1>3, <1>4, SubSeqProperties DEF IInv, TypeOK
<1>6. mBuffer' \in [0 .. mMaxEvents - 1 -> Events \cup {NoEvent}]
  <2>1. ASSUME NEW s \in 0 .. mMaxEvents - 1, \E j \in 1 .. k : IovSlot(j) = s
        PROVE  lightfd[CHOOSE j \in 1 .. k : IovSlot(j) = s] \in Events
    <3> DEFINE j == CHOOSE j \in 1 .. k : IovSlot(j) = s
    <3>1. j \in 1 .. k
      BY <2>1
    <3>2. j \in 1 .. Len(lightfd)
      BY <3>1, <1>3
    <3> QED  BY <3>2, ElementOfSeq DEF IInv, TypeOK
  <2>2. mBuffer \in [0 .. mMaxEvents - 1 -> Events \cup {NoEvent}]
    BY DEF IInv, TypeOK
  <2> QED  BY <1>1, <2>1, <2>2 DEF FillReader
<1>7. mHead' \in 0 .. mMaxEvents - 1 /\ mFreeEvents' \in 0 .. mMaxEvents - 1
  BY <1>3, <1>4 DEF IInv, TypeOK, Wrapped
<1>8. TypeOK'
  BY <1>4, <1>5, <1>6, <1>7 DEF IInv, TypeOK, Fill, poller, control
<1>9. ReaderOK'
  BY <1>2, <1>3, <1>4 DEF ReaderOK, Wrapped
<1>10. PollOK' /\ NoneStranded'
  BY DEF IInv, PollOK, NoneStranded, Fill, poller
<1> QED  BY <1>8, <1>9, <1>10 DEF IInv

\* next() follows fill() around the buffer.
LEMMA TakeIInv == ASSUME IInv, Take PROVE IInv'
<1>1. /\ mCurr \in 0 .. mMaxEvents - 1 /\ mFreeEvents \in 0 .. mMaxEvents - 1
      /\ mFreeEvents' = mFreeEvents + 1 /\ mCurr' = Wrapped(mCurr + 1)
      /\ mHead' = mHead /\ mBuffer' = mBuffer
  BY DEF Take, Empty, NextEvent, IInv, TypeOK
<1>2. mCurr' \in 0 .. mMaxEvents - 1 /\ mFreeEvents' \in 0 .. mMaxEvents
  BY <1>1 DEF Wrapped
<1>3. event' \in Events \cup {NoEvent}
  BY <1>1 DEF Take, IInv, TypeOK
<1>4. got' \in 0 .. count
  BY DEF Take, IInv, TypeOK
<1>5. TypeOK'
  BY <1>1, <1>2, <1>3, <1>4 DEF IInv, TypeOK, Take, drivers, control
<1>6. ReaderOK'
  BY <1>1 DEF IInv, TypeOK, ReaderOK, Wrapped
<1>7. PollOK' /\ NoneStranded'
  BY DEF IInv, PollOK, NoneStranded, Take, drivers
<1> QED  BY <1>5, <1>6, <1>7 DEF IInv

\* What is left in the reader keeps its revents: the array was filled.
LEMMA ReadDoneIInv == ASSUME IInv, ReadDone PROVE IInv'
<1>1. /\ count \in Nat /\ nbEvents \in Nat /\ got \in 0 .. count /\ count > 0
      /\ got = count \/ Empty
      /\ count' = count - got /\ nbEvents' = nbEvents + got /\ got' = 0
      /\ pc' = AfterScan(count') /\ revents' = Cleared(got)
  BY DEF ReadDone, IInv, TypeOK, PollOK
<1>2. UNCHANGED <<drivers, light, motion, event, control>>
  BY DEF ReadDone
<1>3. faults' \in 0 .. MaxFaults
  <2>1. Fault \/ UNCHANGED faults
    BY DEF ReadDone
  <2> QED  BY <2>1, FaultBound DEF IInv, TypeOK
<1>4. revents' \subseteq Fds /\ (got = count => revents' = revents)
  BY <1>1 DEF Cleared, IInv, TypeOK
<1>5. TypeOK'
  BY <1>1, <1>2, <1>3, <1>4 DEF IInv, TypeOK, AfterScan, drivers, light, reader, control
<1>6. ReaderOK' /\ Empty' = Empty
  BY <1>2 DEF IInv, ReaderOK, light, reader, Empty, Wrapped
<1>7. PollOK'
  BY <1>1, <1>6 DEF PollOK, AfterScan
<1>8. NoneStranded'
  BY <1>1, <1>4, <1>6 DEF ReadDone, IInv, PollOK, NoneStranded
<1> QED  BY <1>5, <1>6, <1>7, <1>8 DEF IInv

\* poll() overwrites revents, when the reader is empty.
LEMMA PollIInv == ASSUME IInv, Poll PROVE IInv'
<1>1. revents' \subseteq Fds /\ ("wake" \in Ready => pipe > 0)
  BY DEF Poll, Ready, Fds
<1>2. TypeOK'
  BY <1>1 DEF IInv, TypeOK, PollOK, Poll, drivers, light, reader, control
<1>3. ReaderOK' /\ PollOK' /\ NoneStranded'
  BY <1>1 DEF IInv, TypeOK, ReaderOK, PollOK, NoneStranded, Poll, drivers, light,
     reader, control, Empty, Wrapped
<1> QED  BY <1>2, <1>3 DEF IInv

\* poll() fails.
LEMMA PollFailsIInv == ASSUME IInv, PollFails PROVE IInv'
<1>1. faults' \in 0 .. MaxFaults
  BY FaultBound DEF PollFails, IInv, TypeOK
<1>2. TypeOK'
  BY <1>1 DEF IInv, TypeOK, PollFails, drivers, light, reader, control
<1>3. ReaderOK' /\ PollOK' /\ NoneStranded'
  BY DEF IInv, ReaderOK, PollOK, NoneStranded, PollFails, drivers, light,
     reader, control, Empty, Wrapped
<1> QED  BY <1>2, <1>3 DEF IInv

\* The byte that is read from the wake pipe is there.
LEMMA ReadWakeIInv == ASSUME IInv, ReadWake PROVE IInv'
<1>1. pipe' \in 0 .. PipeSize /\ revents' \subseteq Fds
  BY DEF ReadWake, IInv, TypeOK, PollOK
<1>2. TypeOK'
  BY <1>1 DEF IInv, TypeOK, PollOK, ReadWake, light, reader, control
<1>3. ReaderOK' /\ PollOK' /\ NoneStranded'
  BY DEF IInv, TypeOK, ReaderOK, PollOK, NoneStranded, ReadWake, light,
     reader, control, Empty, Wrapped
<1> QED  BY <1>2, <1>3 DEF IInv

\* activate() touches neither the reader nor what pollEvents() knows.
LEMMA ActivateIInv ==
  ASSUME IInv,
         (\E en \in BOOLEAN : ActivateLight(en)) \/ (\E m \in 0 .. MaxMotion : ActivateMotion(m))
  PROVE  IInv'
<1>1. UNCHANGED <<arrived, lightfd, pipe, reader, poller>>
  BY DEF ActivateLight, ActivateMotion, drivers, light
<1>2. mEnabled' \in BOOLEAN
  BY DEF ActivateLight, ActivateMotion, light, IInv, TypeOK
<1>3. motion' \in 0 .. MaxMotion /\ samples' \in Nat
  BY DEF ActivateLight, ActivateMotion, drivers, IInv, TypeOK
<1>4. ctl' \in {"idle", "wake"} /\ acts' \in 0 .. MaxActs
  BY DEF ActivateLight, ActivateMotion, IInv, TypeOK
<1>5. faults' \in 0 .. MaxFaults
  <2>1. Fault \/ UNCHANGED faults
    BY DEF ActivateLight, ActivateMotion
  <2> QED  BY <2>1, FaultBound DEF IInv, TypeOK
<1>6. TypeOK'
  BY <1>1, <1>2, <1>3, <1>4, <1>5 DEF IInv, TypeOK, reader, poller
<1>7. ReaderOK' /\ PollOK' /\ NoneStranded'
  BY <1>1 DEF IInv, ReaderOK, PollOK, NoneStranded, reader, poller, Empty, Wrapped
<1> QED  BY <1>6, <1>7 DEF IInv

\* The wake pipe does not overflow, and the drivers only add.
LEMMA EnvironmentIInv ==
  ASSUME IInv, WakeUp \/ LightArrives \/ SampleArrives PROVE IInv'
<1>1. UNCHANGED <<reader, poller, mEnabled, motion, acts, faults>>
  BY DEF WakeUp, LightArrives, SampleArrives, light, control
<1>2. pipe' \in 0 .. PipeSize /\ pipe' >= pipe
  BY DEF WakeUp, LightArrives, SampleArrives, IInv, TypeOK
<1>3. arrived' \in 0 .. MaxEvents /\ lightfd' \in Seq(Events)
  <2>1. CASE LightArrives
    <3>1. arrived + 1 \in Events
      BY <2>1 DEF LightArrives, IInv, TypeOK, Events
    <3> QED  BY <2>1, <3>1, AppendProperties DEF LightArrives, IInv, TypeOK, Events
  <2>2. CASE WakeUp \/ SampleArrives
    BY <2>2 DEF WakeUp, SampleArrives, IInv, TypeOK
  <2> QED  BY <2>1, <2>2
<1>4. samples' \in Nat /\ ctl' \in {"idle", "wake"}
  BY DEF WakeUp, LightArrives, SampleArrives, control, IInv, TypeOK
<1>5. TypeOK'
  BY <1>1, <1>2, <1>3, <1>4 DEF IInv, TypeOK, reader, poller
<1>6. ReaderOK' /\ PollOK' /\ NoneStranded'
  BY <1>1, <1>2 DEF IInv, TypeOK, ReaderOK, PollOK, NoneStranded, reader, poller, Empty,
     Wrapped
<1> QED  BY <1>5, <1>6 DEF IInv

\* Every step keeps the invariant.
LEMMA NextIInv == IInv /\ [Next]_vars => IInv'
<1> SUFFICES ASSUME IInv, [Next]_vars PROVE IInv'
  OBVIOUS
<1>1. CASE PollThread
  BY <1>1, PollEventsIInv, ScanMplIInv, ScanLightIInv, FillIInv, TakeIInv, ReadDoneIInv,
     PollIInv, ReadWakeIInv DEF PollThread
<1>2. CASE Next /\ ~PollThread
  BY <1>2, PollFailsIInv, ActivateIInv, EnvironmentIInv DEF Next
<1>3. CASE UNCHANGED vars
  BY <1>3 DEF vars, drivers, light, reader, poller, control, IInv, TypeOK, ReaderOK, PollOK,
     NoneStranded, Empty, Wrapped
<1> QED  BY <1>1, <1>2, <1>3

\* The inductive invariant holds in every state of pollEvents() and activate().
THEOREM SpecIInv == Spec => []IInv
  BY InitIInv, NextIInv, PTL DEF Spec

\* The variables keep their types: pollEvents() never writes behind the caller's array, nor
\* fill() outside of the buffer.
THEOREM SpecTypeOK == Spec => []TypeOK
<1>1. IInv => TypeOK
  BY DEF IInv
<1> QED  BY <1>1, SpecIInv, PTL

\* Events in the reader keep the revents of their sensor set until they are handed over.
THEOREM SpecNoneStranded == Spec => []NoneStranded
<1>1. IInv => NoneStranded
  BY DEF IInv
<1> QED  BY <1>1, SpecIInv, PTL

\* pollEvents() returns with an event unless poll() fails.
THEOREM SpecReturnsEvents == Spec => ReturnsEvents
<1> DEFINE Returns == (pc # "out" /\ pc' = "out" /\ ~PollFails) => nbEvents' > 0
<1>1. IInv /\ [Next]_vars => [Returns]_vars
  <2> SUFFICES ASSUME IInv, Next, pc # "out", pc' = "out", ~PollFails PROVE nbEvents' > 0
    OBVIOUS
  <2>1. ScanLight \/ ReadDone \/ Poll
    <3>1. \A c \in Counts : ~PollEvents(c)
      BY DEF PollEvents
    <3>2. ~ScanMpl /\ ~Fill /\ ~Take /\ ~ReadWake
      BY DEF ScanMpl, Fill, Take, ReadWake, poller
    <3>3. \A en \in BOOLEAN : ~ActivateLight(en)
      BY DEF ActivateLight, poller
    <3>4. \A m \in 0 .. MaxMotion : ~ActivateMotion(m)
      BY DEF ActivateMotion, poller
    <3>5. ~WakeUp /\ ~LightArrives /\ ~SampleArrives
      BY DEF WakeUp, LightArrives, SampleArrives, poller
    <3> QED  BY <3>1, <3>2, <3>3, <3>4, <3>5 DEF Next, PollThread
  <2>2. CASE ScanLight
    BY <2>2 DEF ScanLight, AfterScan, IInv, TypeOK, PollOK
  <2>3. CASE ReadDone
    BY <2>3 DEF ReadDone, AfterScan, IInv, TypeOK, PollOK
  <2>4. CASE Poll
    BY <2>4 DEF Poll, MayReturn
  <2> QED  BY <2>1, <2>2, <2>3, <2>4
<1> QED  BY <1>1, SpecIInv, PTL DEF Spec, ReturnsEvents

-----------------------------------------------------------------------------
(***************************************************************************)
(* The reader implements EventFifo.                                        *)
(***************************************************************************)

\* A function on 1 .. n is a sequence of length n.
LEMMA FunctionIsSeq ==
  ASSUME NEW E, NEW n \in Nat, NEW f \in [1 .. n -> E] PROVE f \in Seq(E) /\ Len(f) = n
  OBVIOUS

\* The events between curr and the head of a buffer, oldest first.
InBuffer(buf, curr, free) == [k \in 1 .. mMaxEvents - free |-> buf[Wrapped(curr + k - 1)]]

\* The events on their way: those between two places of the buffer, then those of the driver.
LEMMA WaitingFacts ==
  ASSUME NEW buf \in [0 .. mMaxEvents - 1 -> Events \cup {NoEvent}],
         NEW curr \in 0 .. mMaxEvents - 1, NEW free \in 0 .. mMaxEvents,
         NEW fd \in Seq(Events)
  PROVE  /\ InBuffer(buf, curr, free) \in Seq(Events \cup {NoEvent})
         /\ Len(InBuffer(buf, curr, free)) = mMaxEvents - free
         /\ InBuffer(buf, curr, free) \o fd \in Seq(Events \cup {NoEvent})
         /\ Len(InBuffer(buf, curr, free) \o fd) = mMaxEvents - free + Len(fd)
         /\ \A k \in 1 .. mMaxEvents - free + Len(fd) :
              (InBuffer(buf, curr, free) \o fd)[k] = IF k <= mMaxEvents - free THEN buf[Wrapped(curr + k - 1)]
                                 ELSE fd[k - (mMaxEvents - free)]
<1> DEFINE E == Events \cup {NoEvent}
           n == mMaxEvents - free
<1>1. n \in Nat
  OBVIOUS
<1>2. \A k \in 1 .. n : Wrapped(curr + k - 1) \in 0 .. mMaxEvents - 1
  BY DEF Wrapped
<1>3. InBuffer(buf, curr, free) \in [1 .. n -> E]
  BY <1>2 DEF InBuffer
<1>4. InBuffer(buf, curr, free) \in Seq(E) /\ Len(InBuffer(buf, curr, free)) = n
  <2> HIDE DEF E, n
  <2> QED  BY <1>1, <1>3, FunctionIsSeq
<1>5. fd \in Seq(E) /\ Len(fd) \in Nat
  BY SeqMonotonic, LenProperties
<1>6. /\ InBuffer(buf, curr, free) \o fd \in Seq(E) /\ Len(InBuffer(buf, curr, free) \o fd) = n + Len(fd)
      /\ \A k \in 1 .. n + Len(fd) :
           (InBuffer(buf, curr, free) \o fd)[k] = IF k <= n THEN InBuffer(buf, curr, free)[k] ELSE fd[k - n]
  BY <1>4, <1>5, ConcatProperties, SMTT(30)
<1>7. \A k \in 1 .. n : InBuffer(buf, curr, free)[k] = buf[Wrapped(curr + k - 1)]
  BY DEF InBuffer
<1> QED
  <2> HIDE DEF E
  <2>1. \A k \in 1 .. n + Len(fd) : k <= n => k \in 1 .. n
    BY <1>1, <1>5
  <2> QED  BY <1>4, <1>6, <1>7, <2>1 DEF E

\* The types of the reader, for the cases below.
LEMMA ReaderTypes ==
  ASSUME IInv
  PROVE  /\ mBuffer \in [0 .. mMaxEvents - 1 -> Events \cup {NoEvent}]
         /\ mCurr \in 0 .. mMaxEvents - 1 /\ mFreeEvents \in 0 .. mMaxEvents
         /\ lightfd \in Seq(Events) /\ Len(lightfd) \in Nat
  BY LenProperties DEF IInv, TypeOK

\* The sequence that stands for the fifo, element by element.
FifoOK ==
  /\ Buffered \o lightfd \in Seq(Events \cup {NoEvent})
  /\ Len(Buffered \o lightfd) = mMaxEvents - mFreeEvents + Len(lightfd)
  /\ \A k \in 1 .. mMaxEvents - mFreeEvents + Len(lightfd) :
       (Buffered \o lightfd)[k] =
         IF k <= mMaxEvents - mFreeEvents THEN mBuffer[Wrapped(mCurr + k - 1)]
         ELSE lightfd[k - (mMaxEvents - mFreeEvents)]

\* It is as long as buffer and driver together, in the order of the two.
LEMMA FifoFacts == IInv => FifoOK
<1> SUFFICES ASSUME IInv PROVE FifoOK
  OBVIOUS
<1>1. Buffered = InBuffer(mBuffer, mCurr, mFreeEvents)
  BY DEF Buffered, InBuffer
<1> DEFINE b == mBuffer
           c == mCurr
           f == mFreeEvents
           l == lightfd
<1>2. /\ b \in [0 .. mMaxEvents - 1 -> Events \cup {NoEvent}]
      /\ c \in 0 .. mMaxEvents - 1 /\ f \in 0 .. mMaxEvents /\ l \in Seq(Events)
  BY ReaderTypes
<1> HIDE DEF b, c, f, l
<1>3. /\ InBuffer(b, c, f) \o l \in Seq(Events \cup {NoEvent})
      /\ Len(InBuffer(b, c, f) \o l) = mMaxEvents - f + Len(l)
  BY <1>2, WaitingFacts
<1>4. \A k \in 1 .. mMaxEvents - f + Len(l) :
         (InBuffer(b, c, f) \o l)[k] = IF k <= mMaxEvents - f THEN b[Wrapped(c + k - 1)]
                                       ELSE l[k - (mMaxEvents - f)]
  BY <1>2, WaitingFacts, SMTT(30)
<1> QED  BY <1>1, <1>3, <1>4 DEF b, c, f, l, FifoOK

\* The same after a step.
LEMMA FifoFactsNext == IInv' => FifoOK'
  BY FifoFacts, PTL

\* An event of the driver goes to the end.
LEMMA LightArrivesIsArrive ==
  ASSUME IInv, IInv', LightArrives PROVE Fifo!Next
<1>1. arrived + 1 \in Events /\ lightfd' = Append(lightfd, arrived + 1) /\ event' = event
  BY DEF LightArrives, IInv, TypeOK, Events, poller
<1>2. Buffered' = Buffered
  BY DEF LightArrives, light, reader, Buffered, Wrapped
<1>3. Buffered \in Seq(Events \cup {NoEvent}) /\ lightfd \in Seq(Events \cup {NoEvent})
  <2>1. Buffered = InBuffer(mBuffer, mCurr, mFreeEvents)
    BY DEF Buffered, InBuffer
  <2> QED  BY <2>1, ReaderTypes, WaitingFacts, SeqMonotonic
<1>4. Buffered \o Append(lightfd, arrived + 1) = Append(Buffered \o lightfd, arrived + 1)
  <2> DEFINE S == Events \cup {NoEvent}
             e == arrived + 1
  <2>1. e \in S
    BY <1>1
  <2> HIDE DEF S, e
  <2>2. Append(lightfd, e) = lightfd \o <<e>> /\ <<e>> \in Seq(S)
    BY <1>3, <2>1, AppendIsConcat DEF S
  <2>3. Buffered \o lightfd \in Seq(S)
    BY <1>3, ConcatProperties DEF S
  <2>4. Append(Buffered \o lightfd, e) = (Buffered \o lightfd) \o <<e>>
    BY <2>1, <2>3, AppendIsConcat
  <2>5. (Buffered \o lightfd) \o <<e>> = Buffered \o (lightfd \o <<e>>)
    BY <1>3, <2>2, ConcatAssociative DEF S
  <2> QED  BY <2>2, <2>4, <2>5 DEF e
<1>5. Fifo!Arrive(arrived + 1)
  BY <1>1, <1>2, <1>4 DEF Fifo!Arrive
<1> QED  BY <1>1, <1>5 DEF Fifo!Next

\* fill() moves events from the driver to the buffer and changes nothing in their order: the
\* second part of readv() goes on where the first one ends.
LEMMA FillStutters ==
  ASSUME IInv, IInv', Fill PROVE UNCHANGED <<Buffered \o lightfd, event>>
<1> DEFINE S == Events \cup {NoEvent}
           w == Buffered \o lightfd
<1>1. PICK k \in 1 .. Min(Len(lightfd), mFreeEvents) : FillReader(k)
  BY DEF Fill
<1>2. mFreeEvents = mMaxEvents /\ mHead = mCurr /\ mCurr' = mCurr /\ event' = event
  BY <1>1 DEF Fill, Empty, IInv, TypeOK, ReaderOK, Wrapped, FillReader, poller
<1>3. Len(lightfd) \in Nat /\ k \in 1 .. Len(lightfd) /\ k \in 1 .. mMaxEvents
  BY <1>2, ReaderTypes DEF Min
<1>4. /\ w \in Seq(S) /\ Len(w) = Len(lightfd)
      /\ \A i \in 1 .. Len(lightfd) : w[i] = lightfd[i]
  <2>1. /\ w \in Seq(S) /\ Len(w) = mMaxEvents - mFreeEvents + Len(lightfd)
        /\ \A i \in 1 .. mMaxEvents - mFreeEvents + Len(lightfd) :
             w[i] = IF i <= mMaxEvents - mFreeEvents THEN mBuffer[Wrapped(mCurr + i - 1)]
                    ELSE lightfd[i - (mMaxEvents - mFreeEvents)]
    BY FifoFacts DEF FifoOK
  <2>2. mMaxEvents - mFreeEvents = 0
    BY <1>2
  <2> HIDE DEF w
  <2> QED  BY <1>3, <2>1, <2>2
<1>5. mFreeEvents' = mMaxEvents - k /\ lightfd' = SubSeq(lightfd, k + 1, Len(lightfd))
  BY <1>1, <1>2 DEF FillReader
<1>6. /\ Len(lightfd') = Len(lightfd) - k
      /\ \A i \in 1 .. Len(lightfd) - k : lightfd'[i] = lightfd[k + i]
  <2>1. \A i \in k + 1 .. Len(lightfd) : lightfd[i] \in Events
    BY <1>3, ReaderTypes, ElementOfSeq
  <2> QED  BY <1>3, <1>5, <2>1, SubSeqProperties
<1>7. /\ w' \in Seq(S) /\ Len(w') = Len(lightfd)
      /\ \A i \in 1 .. Len(lightfd) :
           w'[i] = IF i <= k THEN mBuffer'[Wrapped(mCurr + i - 1)] ELSE lightfd'[i - k]
  <2>1. /\ w' \in Seq(S) /\ Len(w') = mMaxEvents - mFreeEvents' + Len(lightfd')
        /\ \A i \in 1 .. mMaxEvents - mFreeEvents' + Len(lightfd') :
             w'[i] = IF i <= mMaxEvents - mFreeEvents' THEN mBuffer'[Wrapped(mCurr' + i - 1)]
                     ELSE lightfd'[i - (mMaxEvents - mFreeEvents')]
    BY FifoFactsNext DEF FifoOK, Wrapped
  <2>2. mMaxEvents - mFreeEvents' = k /\ k + Len(lightfd') = Len(lightfd)
    BY <1>3, <1>5, <1>6
  <2> QED  BY <1>2, <2>1, <2>2
<1>8. ASSUME NEW i \in 1 .. k PROVE mBuffer'[Wrapped(mCurr + i - 1)] = lightfd[i]
  <2>1. \A j \in 1 .. k : IovSlot(j) = Wrapped(mCurr + j - 1)
    BY <1>2, <1>3, ReaderTypes DEF IovSlot, numFirst, Min, Wrapped
  <2>2. \A j \in 1 .. k : Wrapped(mCurr + j - 1) = Wrapped(mCurr + i - 1) => j = i
    BY <1>3, ReaderTypes DEF Wrapped
  <2>3. Wrapped(mCurr + i - 1) \in DOMAIN mBuffer
    BY <1>3, ReaderTypes DEF Wrapped
  <2>4. (CHOOSE j \in 1 .. k : IovSlot(j) = Wrapped(mCurr + i - 1)) = i
    BY <2>1, <2>2
  <2> QED  BY <1>1, <2>1, <2>3, <2>4 DEF FillReader
<1>9. ASSUME NEW i \in 1 .. Len(lightfd) PROVE w'[i] = w[i]
  <2>1. CASE i <= k
    <3>1. i \in 1 .. k
      BY <1>3, <2>1
    <3> QED  BY <3>1, <2>1, <1>4, <1>7, <1>8
  <2>2. CASE ~(i <= k)
    <3>1. i - k \in 1 .. Len(lightfd) - k /\ k + (i - k) = i
      BY <1>3, <2>2
    <3> QED  BY <3>1, <2>2, <1>4, <1>6, <1>7
  <2> QED  BY <2>1, <2>2
<1>10. w' = w
  <2> HIDE DEF w, S
  <2> QED  BY <1>4, <1>7, <1>9, SeqEqual
<1> QED  BY <1>2, <1>10

\* next() gives the oldest event away.
LEMMA TakeIsTake ==
  ASSUME IInv, IInv', Take PROVE Fifo!Next
<1> DEFINE S == Events \cup {NoEvent}
           w == Buffered \o lightfd
           n == mMaxEvents - mFreeEvents
<1>1. /\ n \in 1 .. mMaxEvents /\ mMaxEvents - mFreeEvents' = n - 1
      /\ mCurr' = Wrapped(mCurr + 1) /\ mBuffer' = mBuffer /\ lightfd' = lightfd
      /\ event' = mBuffer[mCurr] /\ mCurr \in 0 .. mMaxEvents - 1
      /\ Len(lightfd) \in Nat
  BY ReaderTypes DEF Take, Empty, NextEvent, drivers
<1>2. /\ w \in Seq(S) /\ Len(w) = n + Len(lightfd)
      /\ \A i \in 1 .. n + Len(lightfd) :
           w[i] = IF i <= n THEN mBuffer[Wrapped(mCurr + i - 1)] ELSE lightfd[i - n]
  BY FifoFacts DEF FifoOK
<1>3. /\ w' \in Seq(S) /\ Len(w') = n - 1 + Len(lightfd)
      /\ \A i \in 1 .. n - 1 + Len(lightfd) :
           w'[i] = IF i <= n - 1 THEN mBuffer[Wrapped(Wrapped(mCurr + 1) + i - 1)]
                   ELSE lightfd[i - (n - 1)]
  <2>1. /\ w' \in Seq(S) /\ Len(w') = mMaxEvents - mFreeEvents' + Len(lightfd')
        /\ \A i \in 1 .. mMaxEvents - mFreeEvents' + Len(lightfd') :
             w'[i] = IF i <= mMaxEvents - mFreeEvents' THEN mBuffer'[Wrapped(mCurr' + i - 1)]
                     ELSE lightfd'[i - (mMaxEvents - mFreeEvents')]
    BY FifoFactsNext DEF FifoOK, Wrapped
  <2> HIDE DEF n
  <2> QED  BY <1>1, <2>1
<1>4. ASSUME NEW i \in 1 .. n - 1 + Len(lightfd) PROVE w'[i] = w[i + 1]
  <2>1. CASE i <= n - 1
    <3>1. Wrapped(Wrapped(mCurr + 1) + i - 1) = Wrapped(mCurr + (i + 1) - 1)
      BY <1>1, <2>1 DEF Wrapped
    <3>2. i + 1 \in 1 .. n + Len(lightfd) /\ i + 1 <= n
      BY <1>1, <2>1
    <3> HIDE DEF n
    <3> QED  BY <1>2, <1>3, <2>1, <3>1, <3>2
  <2>2. CASE ~(i <= n - 1)
    <3>1. /\ i + 1 \in 1 .. n + Len(lightfd) /\ ~(i + 1 <= n)
          /\ (i + 1) - n = i - (n - 1)
      BY <1>1, <2>2
    <3> HIDE DEF n
    <3> QED  BY <1>2, <1>3, <2>2, <3>1
  <2> QED  BY <2>1, <2>2
<1>5. w # <<>> /\ w[1] = mBuffer[mCurr]
  <2>1. 1 \in 1 .. n + Len(lightfd) /\ 1 <= n /\ Wrapped(mCurr + 1 - 1) = mCurr
    BY <1>1 DEF Wrapped
  <2>2. Len(w) # 0
    BY <1>1, <1>2
  <2> HIDE DEF w, n
  <2> QED  BY <1>2, <2>1, <2>2
<1>6. Head(w) = w[1] /\ Tail(w) \in Seq(S) /\ Len(Tail(w)) = n - 1 + Len(lightfd)
      /\ \A i \in 1 .. n - 1 + Len(lightfd) : Tail(w)[i] = w[i + 1]
  <2> HIDE DEF w, S, n
  <2>1. Head(w) = w[1] /\ Tail(w) \in Seq(S) /\ Len(Tail(w)) = Len(w) - 1
    BY <1>2, <1>5, HeadTailProperties
  <2>2. \A i \in 1 .. Len(Tail(w)) : Tail(w)[i] = w[i + 1]
    BY <1>2, <1>5, HeadTailProperties
  <2>3. Len(Tail(w)) = n - 1 + Len(lightfd)
    BY <1>1, <1>2, <2>1
  <2> QED  BY <2>1, <2>2, <2>3
<1>7. w' = Tail(w)
  <2> HIDE DEF w, S, n
  <2> QED  BY <1>3, <1>4, <1>6, SeqEqual
<1>8. Fifo!Take
  BY <1>1, <1>5, <1>6, <1>7 DEF Fifo!Take
<1> QED  BY <1>8 DEF Fifo!Next

\* No other step touches the events or the reader.
LEMMA OthersStutter ==
  ASSUME [Next]_vars, ~LightArrives, ~Fill, ~Take
  PROVE  UNCHANGED <<Buffered \o lightfd, event>>
<1>1. UNCHANGED <<reader, lightfd, event>>
  <2>1. CASE \E c \in Counts : PollEvents(c)
    BY <2>1 DEF PollEvents, drivers, light
  <2>2. CASE ScanMpl \/ ScanLight \/ ReadDone
    BY <2>2 DEF ScanMpl, ScanLight, ReadDone, drivers, light
  <2>3. CASE Poll \/ PollFails \/ ReadWake
    BY <2>3 DEF Poll, PollFails, ReadWake, drivers, light
  <2>4. CASE \E en \in BOOLEAN : ActivateLight(en)
    BY <2>4 DEF ActivateLight, drivers, poller
  <2>5. CASE \E m \in 0 .. MaxMotion : ActivateMotion(m)
    BY <2>5 DEF ActivateMotion, light, poller
  <2>6. CASE WakeUp \/ SampleArrives
    BY <2>6 DEF WakeUp, SampleArrives, light, poller
  <2>7. CASE UNCHANGED vars
    BY <2>7 DEF vars, drivers, light, poller
  <2> QED  BY <2>1, <2>2, <2>3, <2>4, <2>5, <2>6, <2>7 DEF Next, PollThread
<1> QED  BY <1>1 DEF reader, Buffered, Wrapped

\* The light sensor is given the driver's events, each once and in order, whatever the
\* lengths of the reads and of the caller's arrays, and whatever fails.
THEOREM SpecFifoSpec == Spec => FifoSpec
<1>1. Init => Fifo!Init
  <2> SUFFICES ASSUME Init PROVE Buffered \o lightfd = <<>> /\ event = NoEvent
    BY DEF Fifo!Init
  <2>1. Buffered = <<>> /\ lightfd = <<>> /\ event = NoEvent
    BY DEF Init, Buffered
  <2> QED  BY <2>1
<1>2. IInv /\ IInv' /\ [Next]_vars => [Fifo!Next]_<<Buffered \o lightfd, event>>
  BY LightArrivesIsArrive, FillStutters, TakeIsTake, OthersStutter
<1> QED  BY <1>1, <1>2, SpecIInv, PTL DEF Spec, FifoSpec, Fifo!Spec
=============================================================================
