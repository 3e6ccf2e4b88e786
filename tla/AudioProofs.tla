---------------------------- MODULE AudioProofs ----------------------------
(***************************************************************************)
(* Proofs about AudioHal for any number of threads, any routes, rates and  *)
(* buffer sizes: the locks cannot lead to a wait cycle, a PCM is used only *)
(* while it is open, open PCMs share one group of rates, and nothing       *)
(* points to a freed stream.                                               *)
(***************************************************************************)
EXTENDS AudioHal, TLAPS

USE ThreadsAssumption DEF threshold

-----------------------------------------------------------------------------
(***************************************************************************)
(* Records and functions.                                                  *)
(***************************************************************************)
\* Taking or releasing the lock of a stream changes nothing else of it.
LEMMA StreamLock ==
  ASSUME NEW f \in [Streams -> StreamState], NEW s \in Streams, NEW l \in Owners
  PROVE  [f EXCEPT ![s].lock = l] \in [Streams -> StreamState]
  BY DEF StreamState

\* A stream that is not allocated.
LEMMA AbsentFacts ==
  /\ Absent \in StreamState /\ Absent.lock = NoThread /\ Absent.pcm = "null"
  /\ Absent.alive = FALSE /\ Absent.standby = TRUE /\ Absent.resampler = FALSE
  BY DEF Absent, StreamState, Owners, Configs, Rate

\* A stream that was just opened.
LEMMA NewFacts ==
  ASSUME NEW s \in Streams, NEW r \in Nat
  PROVE  LET new == [Absent EXCEPT !.alive = TRUE, !.rate = r, !.config = s]
         IN  /\ new \in StreamState /\ new.lock = NoThread /\ new.pcm = "null" /\ new.config = s
             /\ new.alive /\ new.standby /\ new.resampler = FALSE
  BY AbsentFacts DEF StreamState, Configs, Streams

\* A thread between two calls.
LEMMA IdleFacts == Idle \in ThreadState /\ Idle.op = "none" /\ Idle.pc = "idle"
  BY DEF Idle, ThreadState, Streams

\* Taking or releasing the lock of a stream, and nothing else.
LEMMA LockFacts ==
  ASSUME IInv, NEW x \in Streams, NEW l \in Owners, stream' = [stream EXCEPT ![x].lock = l]
  PROVE  /\ stream' \in [Streams -> StreamState] /\ stream'[x].lock = l
         /\ \A y \in Streams \ {x} : stream'[y].lock = stream[y].lock
         /\ \A y \in Streams : /\ stream'[y].alive = stream[y].alive /\ stream'[y].pcm = stream[y].pcm
                               /\ stream'[y].config = stream[y].config /\ stream'[y].rate = stream[y].rate
                               /\ stream'[y].standby = stream[y].standby
                               /\ stream'[y].resampler = stream[y].resampler
<1>1. stream \in [Streams -> StreamState]
  BY DEF IInv, TypeOK
<1>2. stream' \in [Streams -> StreamState]
  BY <1>1, StreamLock
<1> QED  BY <1>1, <1>2 DEF StreamState

\* What do_out_standby() and do_in_standby() do to a stream.
LEMMA StandbyFacts ==
  ASSUME NEW r \in StreamState
  PROVE  LET q == do_standby(r)
         IN  /\ q \in StreamState
             /\ q.alive = r.alive /\ q.lock = r.lock /\ q.config = r.config /\ q.rate = r.rate
             /\ q.standby /\ q.pcm = (IF r.standby THEN r.pcm ELSE "null")
             /\ q.resampler = (r.standby /\ r.resampler)
  BY DEF do_standby, StreamState

\* Two streams are different.
LEMMA PeerFacts == \A s \in Streams : Peer(s) \in Streams /\ Peer(s) # s /\ Peer(Peer(s)) = s
                                      /\ Streams = {s, Peer(s)}
  BY DEF Peer, Streams

-----------------------------------------------------------------------------
(***************************************************************************)
(* The rates of the PCM configurations: the comparison in                  *)
(* start_output_stream() and start_input_stream() finds the same conflicts *)
(* from either side, and two rates without one belong to a common group.   *)
(***************************************************************************)
\* It does not matter which of the two streams is started last.
LEMMA ConflictSymmetric ==
  \A c, d \in Configs : Conflict(Rate[c], Rate[d]) <=> Conflict(Rate[d], Rate[c])
  BY DEF Conflict, Rate, Configs

\* Rates that do not conflict are multiples of 8000 or of 11025, both of them.
LEMMA OneGroup ==
  \A c, d \in Configs :
    ~Conflict(Rate[c], Rate[d]) => \E group \in {8000, 11025} : Rate[c] % group = 0 /\ Rate[d] % group = 0
  BY DEF Conflict, Rate, Configs

-----------------------------------------------------------------------------
(***************************************************************************)
(* The numbers of out_write().                                             *)
(***************************************************************************)
\* The conversion to int gives an int.
LEMMA ToIntType ==
  ASSUME NEW x \in Int
  PROVE  ToInt(x) \in Int /\ 2 * ToInt(x) < UIntMod
  BY SizesAssumption DEF ToInt

\* The write threshold of either buffer size is an int.
LEMMA ThresholdType ==
  ASSUME NEW type
  PROVE  Threshold(type) \in Nat /\ 2 * Threshold(type) < UIntMod
  BY SizesAssumption DEF Threshold

\* A quarter of a period is a number.
LEMMA QuarterType == Quarter \in Nat
  BY SizesAssumption DEF Quarter

\* The threshold stays an int, whatever kernel_frames is.
LEMMA NextThresholdType ==
  ASSUME NEW cur \in Int, NEW target \in Int, NEW kf \in Int,
         2 * cur < UIntMod, 2 * target < UIntMod
  PROVE  NextThreshold(cur, target, kf) \in Int /\ 2 * NextThreshold(cur, target, kf) < UIntMod
<1>1. ToInt(cur - Quarter) \in Int /\ 2 * ToInt(cur - Quarter) < UIntMod
  BY ToIntType, QuarterType
<1>2. ToInt(cur + Quarter) \in Int /\ 2 * ToInt(cur + Quarter) < UIntMod
  BY ToIntType, QuarterType
<1>3. (((kf % UIntMod) \div PeriodSize) + 1) * PeriodSize + Quarter \in Int
  BY SizesAssumption, QuarterType
<1>4. JustAbove(kf) \in Int /\ 2 * JustAbove(kf) < UIntMod
  BY <1>3, ToIntType DEF JustAbove
<1> QED  BY <1>1, <1>2, <1>4 DEF NextThreshold

\* AdaptThreshold() keeps the types of the variables of out_write().
LEMMA AdaptType ==
  ASSUME TypeOK, NEW type \in {"unknown", "short", "long"}, AdaptThreshold(type)
  PROVE  /\ buffer_type' \in {"unknown", "short", "long"} /\ unread' \in BOOLEAN
         /\ write_threshold' \in Nat /\ 2 * write_threshold' < UIntMod
         /\ cur_write_threshold' \in Int /\ 2 * cur_write_threshold' < UIntMod
<1> DEFINE target == IF type # buffer_type THEN Threshold(type) ELSE write_threshold
           reset  == type # buffer_type /\ buffer_type = "unknown"
           cur    == IF reset THEN target ELSE cur_write_threshold
<1>1. target \in Nat /\ 2 * target < UIntMod
  BY ThresholdType DEF TypeOK
<1>2. cur \in Int /\ 2 * cur < UIntMod
  BY <1>1 DEF TypeOK
<1>3. PICK kf \in KernelFrames \cup Garbage : cur_write_threshold' = NextThreshold(cur, target, kf)
  BY DEF AdaptThreshold
<1>4. kf \in Int
  BY SizesAssumption
<1>5. cur_write_threshold' \in Int /\ 2 * cur_write_threshold' < UIntMod
  <2> HIDE DEF cur, target
  <2> QED  BY <1>1, <1>2, <1>3, <1>4, NextThresholdType
<1>6. write_threshold' = target
  BY DEF AdaptThreshold
<1> HIDE DEF cur, target
<1>7. buffer_type' = type /\ unread' \in BOOLEAN
  BY DEF AdaptThreshold, TypeOK
<1> QED  BY <1>1, <1>5, <1>6, <1>7

-----------------------------------------------------------------------------
(***************************************************************************)
(* Every step keeps the inductive invariant: one lemma for each action.    *)
(***************************************************************************)
\* The state of the actors in a typed state.
LEMMA Typed ==
  ASSUME IInv, NEW t \in Threads
  PROVE  /\ TypeOK /\ thread[t] \in ThreadState /\ thread[t].s \in Streams
         /\ stream[thread[t].s] \in StreamState
         /\ Peer(thread[t].s) \in Streams /\ stream[Peer(thread[t].s)] \in StreamState
  BY PeerFacts DEF IInv, TypeOK, ThreadState

\* While the device lock is not theirs, threads are not between two locks.
LEMMA Outside ==
  ASSUME IInv, NEW u \in Threads, adev_lock # u
  PROVE  thread[u].pc \notin {"stream", "peer", "open"}
  BY DEF IInv, Locks

\* What putting a stream into standby does to the state.
LEMMA PutToStandby ==
  ASSUME IInv, NEW x \in Streams,
         stream' = [stream EXCEPT ![x] = do_standby(@)], active' = ClearedActive(x)
  PROVE  /\ stream' \in [Streams -> StreamState] /\ active' \in [Streams -> BOOLEAN]
         /\ stream'[x].standby /\ stream'[x].pcm # "open" /\ stream'[x].resampler = FALSE /\ ~active'[x]
         /\ stream'[x].alive = stream[x].alive /\ stream'[x].lock = stream[x].lock
         /\ stream'[x].config = stream[x].config
         /\ \A y \in Streams \ {x} : stream'[y] = stream[y] /\ active'[y] = active[y]
<1>1. stream \in [Streams -> StreamState] /\ active \in [Streams -> BOOLEAN]
  BY DEF IInv, TypeOK
<1>2. do_standby(stream[x]) \in StreamState
  BY <1>1, StandbyFacts
<1>3. stream'[x] = do_standby(stream[x]) /\ \A y \in Streams \ {x} : stream'[y] = stream[y]
  BY <1>1
<1>4. active'[x] = (active[x] /\ stream[x].standby) /\ \A y \in Streams \ {x} : active'[y] = active[y]
  BY <1>1 DEF ClearedActive
<1>5. stream' \in [Streams -> StreamState]
  BY <1>1, <1>2
<1>6. active' \in [Streams -> BOOLEAN]
  BY <1>1 DEF ClearedActive, StreamState
<1>7. (stream[x].pcm = "open" <=> ~stream[x].standby) /\ (active[x] <=> ~stream[x].standby)
      /\ (stream[x].standby => ~stream[x].resampler)
  BY <1>1 DEF IInv, StreamOK, StreamState
<1>8. stream[x] \in StreamState
  BY <1>1
<1> QED  BY <1>3, <1>4, <1>5, <1>6, <1>7, <1>8, StandbyFacts

\* The routes after a change, and the mixer with them.
LEMMA RoutedFacts ==
  ASSUME IInv, NEW t \in Threads, Routed(t)
  PROVE  /\ device' \in [Streams -> SUBSET Devices] /\ mixer' \in [Streams -> SUBSET Devices]
         /\ \A x \in Streams : mixer'[x] = device'[x] \ {"BIT_IN", "sco"}
         /\ device'[thread[t].s] = thread[t].arg
         /\ \A x \in Streams \ {thread[t].s} : device'[x] = device[x]
<1>1. thread[t].arg \in SUBSET Devices /\ thread[t].s \in Streams
  BY Typed DEF ThreadState
<1>2. device' \in [Streams -> SUBSET Devices]
  BY <1>1, Typed DEF Routed, TypeOK
<1>3. mixer' = [x \in Streams |-> device'[x] \ {"BIT_IN", "sco"}]
  BY DEF Routed, select_devices
<1>4. mixer' \in [Streams -> SUBSET Devices]
  BY <1>2, <1>3
<1> QED  BY <1>1, <1>2, <1>3, <1>4, Typed DEF Routed, TypeOK

\* The end of out_write() and in_read(): the lock of the stream is released.
LEMMA Release ==
  ASSUME IInv, NEW t \in Threads, thread[t].pc \in {"io", "exit"},
         stream' = [stream EXCEPT ![thread[t].s].lock = NoThread],
         thread' = [thread EXCEPT ![t] = Idle], UNCHANGED <<adev_lock, device, active, mixer>>,
         buffer_type' \in {"unknown", "short", "long"}, unread' \in BOOLEAN,
         write_threshold' \in Nat, 2 * write_threshold' < UIntMod,
         cur_write_threshold' \in Int, 2 * cur_write_threshold' < UIntMod
  PROVE  IInv'
<1> DEFINE s == thread[t].s
<1>a. s \in Streams /\ NoThread \in Owners /\ \A u \in Threads : thread[u].s \in Streams
  BY Typed DEF Owners
<1>b. /\ stream' \in [Streams -> StreamState] /\ stream'[s].lock = NoThread
      /\ \A y \in Streams \ {s} : stream'[y].lock = stream[y].lock
      /\ \A y \in Streams : /\ stream'[y].alive = stream[y].alive /\ stream'[y].pcm = stream[y].pcm
                            /\ stream'[y].config = stream[y].config /\ stream'[y].rate = stream[y].rate
                            /\ stream'[y].standby = stream[y].standby
                            /\ stream'[y].resampler = stream[y].resampler
  BY <1>a, LockFacts
<1>c. thread'[t].op = "none" /\ thread'[t].pc = "idle" /\ \A u \in Threads \ {t} : thread'[u] = thread[u]
  BY IdleFacts DEF IInv, TypeOK
<1>1. TypeOK'
  <2>1. thread' \in [Threads -> ThreadState]
    BY IdleFacts, Typed DEF TypeOK
  <2> QED  BY <2>1, <1>b, Typed DEF TypeOK
<1>2. Locks'
  BY <1>a, <1>b, <1>c DEF IInv, Locks
<1>3. Calls'
  BY <1>a, <1>b, <1>c DEF IInv, Calls
<1>4. (\A x \in Streams : StreamOK(x))'
  BY <1>b DEF IInv, StreamOK
<1>5. Starting'
  BY <1>a, <1>b, <1>c, PeerFacts DEF IInv, Starting, Agree, StartConfig
<1>6. InputRoute'
  BY <1>b DEF IInv, InputRoute, Streams
<1>7. Rates'
  BY <1>b DEF IInv, Rates, Agree, Streams
<1> QED  BY <1>1, <1>2, <1>3, <1>4, <1>5, <1>6, <1>7 DEF IInv

\* A call that ends without a lock, leaves the streams as they are and may change routes.
LEMMA Returned ==
  ASSUME IInv, NEW t \in Threads, Return(t), adev_lock = NoThread, thread[t].pc = "device",
         UNCHANGED <<adev_lock, active, stream, threshold>>,
         device' \in [Streams -> SUBSET Devices], mixer' \in [Streams -> SUBSET Devices],
         \A x \in Streams : stream[x].alive => mixer'[x] = device'[x] \ {"BIT_IN", "sco"},
         InputRoute'
  PROVE  IInv'
<1>a. thread' = [thread EXCEPT ![t] = Idle]
  BY DEF Return
<1>b. thread'[t].op = "none" /\ thread'[t].pc = "idle" /\ \A u \in Threads \ {t} : thread'[u] = thread[u]
  BY <1>a, IdleFacts DEF IInv, TypeOK
<1>c. \A u \in Threads : thread[u].pc \notin {"stream", "peer", "open"}
  BY Outside
<1>1. TypeOK'
  BY <1>a, IdleFacts, Typed DEF TypeOK
<1>2. Locks'
  BY <1>b, <1>c DEF IInv, Locks
<1>3. Calls'
  BY <1>b DEF IInv, Calls
<1>4. (\A x \in Streams : StreamOK(x))'
  BY DEF IInv, StreamOK
<1>5. Starting'
  BY <1>b, <1>c DEF IInv, Starting
<1>6. Rates'
  BY DEF IInv, Rates, Agree
<1> QED  BY <1>1, <1>2, <1>3, <1>4, <1>5, <1>6 DEF IInv

\* What a thread takes with it when it goes on to the samples.
LEMMA StartedFacts ==
  ASSUME IInv, NEW t \in Threads, NEW act, Started(t, act)
  PROVE  /\ thread' \in [Threads -> ThreadState]
         /\ thread'[t].pc = "io" /\ thread'[t].op = thread[t].op /\ thread'[t].s = thread[t].s
         /\ \A u \in Threads \ {t} : thread'[u] = thread[u]
<1> DEFINE btype(b) == IF thread[t].s = "out" /\ b /\ ~act["in"] THEN "long" ELSE "short"
           sco == thread[t].s = "out" /\ "sco" \in device["out"]
<1>1. PICK b \in BOOLEAN : thread' = [thread EXCEPT ![t].pc = "io", ![t].btype = btype(b), ![t].sco = sco]
  BY DEF Started
<1>2. btype(b) \in {"unknown", "short", "long"} /\ sco \in BOOLEAN
  OBVIOUS
<1> HIDE DEF btype, sco
<1>3. thread \in [Threads -> ThreadState]
  BY Typed DEF TypeOK
<1> DEFINE new == [thread[t] EXCEPT !.pc = "io", !.btype = btype(b), !.sco = sco]
<1>4. thread' = [thread EXCEPT ![t] = new]
  BY <1>1, <1>3
<1>5. new \in ThreadState /\ new.pc = "io" /\ new.op = thread[t].op /\ new.s = thread[t].s
  BY <1>2, <1>3, ZenonT(30) DEF ThreadState
<1> HIDE DEF new
<1> QED  BY <1>3, <1>4, <1>5

\* A call of the audio server enters the HAL.
LEMMA CallIInv ==
  ASSUME IInv, NEW t \in Threads, Call(t)
  PROVE  IInv'
<1>0. PICK s \in Streams, op \in {"transfer", "standby", "route", "close", "open"},
           arg \in SUBSET Devices :
        /\ Enter(t, op, s, arg)
        /\ IF op = "open" THEN ~stream[s].alive ELSE stream[s].alive
        /\ IF op \in {"open", "close"} THEN ~Busy(s) ELSE ~Closing(s)
  <2> USE RoutesAssumption
  <2>1. PICK s \in Streams :
          \/ stream[s].alive /\ ~Closing(s) /\ (\/ Enter(t, "transfer", s, {})
                                                \/ Enter(t, "standby", s, {})
                                                \/ \E d \in Routes[s] : Enter(t, "route", s, d))
          \/ stream[s].alive /\ ~Busy(s) /\ Enter(t, "close", s, {})
          \/ ~stream[s].alive /\ ~Busy(s) /\ \E d \in Routes[s] : Enter(t, "open", s, d)
    BY DEF Call
  <2>2. \A d \in Routes[s] : d \in SUBSET Devices
    OBVIOUS
  <2> QED  BY <2>1, <2>2
<1> DEFINE new == [Idle EXCEPT !.op = op, !.s = s, !.pc = "device", !.arg = arg]
<1>a. new \in ThreadState /\ new.op = op /\ new.s = s /\ new.pc = "device"
  BY DEF Idle, ThreadState, Streams
<1>b. thread' = [thread EXCEPT ![t] = new] /\ thread[t] = Idle
      /\ UNCHANGED <<adev_lock, device, active, mixer, stream, threshold>>
  BY <1>0 DEF Enter
<1> HIDE DEF new
<1>c. thread'[t] = new /\ \A u \in Threads \ {t} : thread'[u] = thread[u]
  BY <1>b DEF IInv, TypeOK
<1>d. thread[t].pc = "idle" /\ thread[t].op = "none"
  BY <1>b, IdleFacts
<1>1. TypeOK'
  BY <1>a, <1>b, Typed DEF TypeOK
<1>2. Locks'
  BY <1>a, <1>b, <1>c, <1>d DEF IInv, Locks
<1>3. Calls'
  BY <1>0, <1>a, <1>b, <1>c, <1>d DEF IInv, Calls, Busy, Closing
<1>4. (\A x \in Streams : StreamOK(x))'
  BY <1>b DEF IInv, StreamOK
<1>5. Starting'
  BY <1>a, <1>b, <1>c DEF IInv, Starting, Agree, StartConfig
<1>6. InputRoute'
  BY <1>b DEF IInv, InputRoute
<1>7. Rates'
  BY <1>b DEF IInv, Rates, Agree
<1> QED  BY <1>1, <1>2, <1>3, <1>4, <1>5, <1>6, <1>7 DEF IInv

\* adev_open_output_stream() and adev_open_input_stream().
LEMMA OpenIInv ==
  ASSUME IInv, NEW t \in Threads, Open(t)
  PROVE  IInv'
<1> DEFINE s == thread[t].s
<1>0. PICK r \in Nat :
        stream' = [stream EXCEPT ![s] = [Absent EXCEPT !.alive = TRUE, !.rate = r, !.config = s]]
  <2>1. InRates \subseteq Nat /\ Rate["out"] \in Nat
    BY RatesAssumption DEF Rate, Configs
  <2> QED  BY <2>1 DEF Open
<1> DEFINE new == [Absent EXCEPT !.alive = TRUE, !.rate = r, !.config = s]
<1>a. s \in Streams /\ thread[t] \in ThreadState
  BY Typed
<1>b. /\ new \in StreamState /\ new.lock = NoThread /\ new.pcm = "null" /\ new.config = s
      /\ new.alive /\ new.standby /\ new.resampler = FALSE
  BY <1>a, NewFacts
<1>c. stream' = [stream EXCEPT ![s] = new]
  BY <1>0
<1> HIDE DEF new
<1>d. stream'[s] = new /\ \A x \in Streams \ {s} : stream'[x] = stream[x]
  BY <1>a, <1>c DEF IInv, TypeOK
<1>e. thread' = [thread EXCEPT ![t] = Idle] /\ UNCHANGED <<adev_lock, active>>
      /\ adev_lock = NoThread /\ thread[t].op = "open" /\ thread[t].pc = "device"
  BY DEF Open, At, Return
<1>f. thread'[t] = Idle /\ \A u \in Threads \ {t} : thread'[u] = thread[u]
  BY <1>e DEF IInv, TypeOK
<1>g. PICK dev \in SUBSET Devices : device' = [device EXCEPT ![s] = dev]
  <2>1. thread[t].arg \in SUBSET Devices
    BY <1>a DEF ThreadState
  <2>2. "BIT_IN" \in Devices
    BY DEF Devices
  <2>3. device' = [device EXCEPT ![s] = thread[t].arg \cup (IF s = "in" THEN {"BIT_IN"} ELSE {})]
    BY DEF Open
  <2> QED  BY <2>1, <2>2, <2>3
<1>h. mixer' = [x \in Streams |-> device'[x] \ {"BIT_IN", "sco"}]
  BY DEF Open, select_devices
<1>i. ~stream[s].alive /\ \A u \in Threads \ {t} : thread[u].op # "none" => thread[u].s # s
  BY <1>e DEF IInv, Calls
<1>j. stream[s].standby /\ ~active[s]
  BY <1>a, <1>i, Typed DEF IInv, StreamOK, TypeOK
<1>k. \A u \in Threads : thread[u].s \in Streams
  BY Typed
<1>1. TypeOK'
  <2>1. stream' \in [Streams -> StreamState] /\ thread' \in [Threads -> ThreadState]
    BY <1>a, <1>b, <1>c, <1>e, IdleFacts, Typed DEF TypeOK
  <2>2. device' \in [Streams -> SUBSET Devices]
    BY <1>g, Typed DEF TypeOK
  <2>3. mixer' \in [Streams -> SUBSET Devices]
    BY <2>2, <1>h
  <2>4. /\ buffer_type' \in {"unknown", "short", "long"} /\ unread' \in BOOLEAN
        /\ write_threshold' \in Nat /\ 2 * write_threshold' < UIntMod
        /\ cur_write_threshold' \in Int /\ 2 * cur_write_threshold' < UIntMod
    <3>1. CASE s = "out"
      <4>1. buffer_type' = "unknown" /\ write_threshold' = 0 /\ cur_write_threshold' = 0 /\ unread' = FALSE
        BY <3>1 DEF Open
      <4>2. UIntMod \in Nat /\ 0 < UIntMod
        BY SizesAssumption
      <4>3. 2 * write_threshold' < UIntMod /\ 2 * cur_write_threshold' < UIntMod
            /\ write_threshold' \in Nat /\ cur_write_threshold' \in Int
        BY <4>1, <4>2
      <4> QED  BY <4>1, <4>3
    <3>2. CASE s # "out"
      BY <3>2, Typed DEF Open, TypeOK
    <3> QED  BY <3>1, <3>2
  <2> QED  BY <2>1, <2>2, <2>3, <2>4, <1>e, Typed DEF TypeOK
<1>2. Locks'
  BY <1>a, <1>b, <1>d, <1>e, <1>f, <1>i, IdleFacts DEF IInv, Locks, Calls, TypeOK, ThreadState
<1>3. Calls'
  BY <1>a, <1>b, <1>d, <1>e, <1>f, <1>i, <1>k, IdleFacts DEF IInv, Calls
<1>4. (\A x \in Streams : StreamOK(x))'
  <2> SUFFICES ASSUME NEW x \in Streams PROVE StreamOK(x)'
    OBVIOUS
  <2>1. (stream[x].alive => mixer[x] = device[x] \ {"BIT_IN", "sco"})'
    BY <1>h
  <2>2. CASE x = s
    BY <2>1, <2>2, <1>a, <1>b, <1>d, <1>e, <1>j DEF StreamOK, Streams
  <2>3. CASE x # s
    BY <2>1, <2>3, <1>d, <1>e DEF IInv, StreamOK
  <2> QED  BY <2>2, <2>3
<1>5. Starting'
  <2>1. \A u \in Threads : thread'[u].pc \notin {"peer", "open"}
    BY <1>e, <1>f, Outside, IdleFacts
  <2>2. \A u \in Threads : thread'[u].pc = "io" => ~stream'[thread'[u].s].standby
    BY <1>d, <1>f, <1>i, IdleFacts DEF IInv, Starting, Calls, TypeOK, ThreadState
  <2> QED  BY <2>1, <2>2 DEF Starting
<1>6. InputRoute'
  BY <1>a, <1>b, <1>d, <1>g DEF IInv, InputRoute, TypeOK, Streams
<1>7. Rates'
  BY <1>a, <1>b, <1>d DEF IInv, Rates, Agree, Streams
<1> QED  BY <1>1, <1>2, <1>3, <1>4, <1>5, <1>6, <1>7 DEF IInv

\* A thread takes the device lock.
LEMMA LockDeviceIInv ==
  ASSUME IInv, NEW t \in Threads, LockDevice(t)
  PROVE  IInv'
<1>a. /\ adev_lock = NoThread /\ adev_lock' = t
      /\ thread[t].pc = "device" /\ thread[t].op \in {"transfer", "standby", "close"}
      /\ thread' = [thread EXCEPT ![t].pc = "stream"]
      /\ UNCHANGED <<device, active, mixer, stream, threshold>>
  BY DEF LockDevice, At, Goto
<1>b. /\ thread' \in [Threads -> ThreadState] /\ thread'[t].pc = "stream"
      /\ thread'[t].op = thread[t].op /\ thread'[t].s = thread[t].s
      /\ \A u \in Threads \ {t} : thread'[u] = thread[u]
  <2>1. [thread[t] EXCEPT !.pc = "stream"] \in ThreadState
    BY Typed DEF ThreadState
  <2> QED  BY <1>a, <2>1, Typed DEF TypeOK, ThreadState
<1>c. \A u \in Threads : thread[u].pc \notin {"stream", "peer", "open"}
  BY <1>a, Outside
<1>1. TypeOK'
  BY <1>a, <1>b, Typed DEF TypeOK, Owners
<1>2. Locks'
  BY <1>a, <1>b, <1>c DEF IInv, Locks
<1>3. Calls'
  BY <1>a, <1>b DEF IInv, Calls
<1>4. (\A x \in Streams : StreamOK(x))'
  BY <1>a DEF IInv, StreamOK
<1>5. Starting'
  BY <1>a, <1>b, <1>c DEF IInv, Starting
<1>6. InputRoute'
  BY <1>a DEF IInv, InputRoute
<1>7. Rates'
  BY <1>a DEF IInv, Rates, Agree
<1> QED  BY <1>1, <1>2, <1>3, <1>4, <1>5, <1>6, <1>7 DEF IInv

\* out_set_parameters() and in_set_parameters() up to the lock of the stream.
LEMMA RouteIInv ==
  ASSUME IInv, NEW t \in Threads, Route(t)
  PROVE  IInv'
<1> DEFINE s == thread[t].s
<1>a. /\ s \in Streams /\ adev_lock = NoThread /\ thread[t].pc = "device" /\ thread[t].op = "route"
      /\ UNCHANGED <<active, stream, threshold>>
  BY Typed DEF Route, At
<1>b. \A u \in Threads : thread[u].pc \notin {"stream", "peer", "open"} /\ thread[u].s \in Streams
  BY <1>a, Outside, Typed
<1>c. CASE ~Changes(t) /\ Return(t) /\ UNCHANGED <<adev_lock, device, mixer>>
  BY <1>a, <1>b, <1>c, Returned DEF IInv, InputRoute, StreamOK, TypeOK
<1>d. CASE Changes(t) /\ ~ScoToggled(t) /\ Routed(t) /\ Return(t) /\ UNCHANGED adev_lock
  <2>1. /\ device' \in [Streams -> SUBSET Devices] /\ mixer' \in [Streams -> SUBSET Devices]
        /\ \A x \in Streams : mixer'[x] = device'[x] \ {"BIT_IN", "sco"}
        /\ device'[s] = thread[t].arg
        /\ \A x \in Streams \ {s} : device'[x] = device[x]
    BY <1>d, RoutedFacts
  <2>2. ("sco" \in device["in"])' <=> "sco" \in device["in"]
    BY <1>a, <1>d, <2>1 DEF ScoToggled, AllSco, Streams
  <2> QED  BY <1>a, <1>b, <1>d, <2>1, <2>2, Returned DEF IInv, InputRoute
<1>e. CASE /\ Changes(t) /\ ScoToggled(t) /\ adev_lock' = t /\ Goto(t, "stream")
           /\ UNCHANGED <<device, mixer>>
  <2>1. thread' = [thread EXCEPT ![t].pc = "stream"]
    BY <1>e DEF Goto
  <2>2. /\ thread'[t].pc = "stream" /\ thread'[t].op = "route" /\ thread'[t].s = s
        /\ \A u \in Threads \ {t} : thread'[u] = thread[u]
    BY <1>a, <2>1, Typed DEF TypeOK, ThreadState
  <2>3. thread' \in [Threads -> ThreadState]
    <3>1. [thread[t] EXCEPT !.pc = "stream"] \in ThreadState
      BY Typed DEF ThreadState
    <3> QED  BY <2>1, <3>1, Typed DEF TypeOK
  <2>4. TypeOK'
    BY <1>a, <1>e, <2>3, Typed DEF TypeOK, Owners
  <2>5. Locks' /\ Calls'
    BY <1>a, <1>b, <1>e, <2>2 DEF IInv, Locks, Calls
  <2>6. (\A x \in Streams : StreamOK(x))' /\ InputRoute' /\ Rates'
    BY <1>a, <1>e DEF IInv, StreamOK, InputRoute, Rates, Agree
  <2>7. Starting'
    BY <1>a, <1>b, <1>e, <2>2 DEF IInv, Starting
  <2> QED  BY <2>4, <2>5, <2>6, <2>7 DEF IInv
<1> QED  BY <1>c, <1>d, <1>e DEF Route

\* A route change that turns SCO on or off puts the stream into standby.
LEMMA RouteStandbyIInv ==
  ASSUME IInv, NEW t \in Threads, RouteStandby(t)
  PROVE  IInv'
<1> DEFINE s == thread[t].s
<1>a. s \in Streams /\ stream[s].lock = NoThread /\ thread[t].pc = "stream"
  BY Typed DEF RouteStandby, At
<1>b. /\ stream' = [stream EXCEPT ![s] = do_standby(@)] /\ active' = ClearedActive(s)
      /\ adev_lock' = NoThread /\ UNCHANGED threshold
  BY DEF RouteStandby
<1>c. adev_lock = t /\ \A u \in Threads \ {t} : thread[u].pc \notin {"stream", "peer", "open"}
  BY <1>a, Outside DEF IInv, Locks
<1>d. /\ stream' \in [Streams -> StreamState] /\ active' \in [Streams -> BOOLEAN]
      /\ stream'[s].standby /\ stream'[s].pcm # "open" /\ stream'[s].resampler = FALSE /\ ~active'[s]
      /\ stream'[s].alive = stream[s].alive /\ stream'[s].lock = stream[s].lock
      /\ stream'[s].config = stream[s].config
      /\ \A y \in Streams \ {s} : stream'[y] = stream[y] /\ active'[y] = active[y]
  BY <1>a, <1>b, PutToStandby
<1>e. thread' = [thread EXCEPT ![t] = Idle]
  BY DEF RouteStandby, Return
<1>f. thread'[t] = Idle /\ \A u \in Threads \ {t} : thread'[u] = thread[u]
  BY <1>e DEF IInv, TypeOK
<1>g. thread'[t].op = "none" /\ thread'[t].pc = "idle"
  BY <1>f, IdleFacts
<1>h. /\ device' \in [Streams -> SUBSET Devices] /\ mixer' \in [Streams -> SUBSET Devices]
      /\ \A x \in Streams : mixer'[x] = device'[x] \ {"BIT_IN", "sco"}
      /\ \A x \in Streams \ {s} : device'[x] = device[x]
  BY RoutedFacts DEF RouteStandby
<1>1. TypeOK'
  <2>1. thread' \in [Threads -> ThreadState]
    BY <1>e, IdleFacts, Typed DEF TypeOK
  <2> QED  BY <2>1, <1>b, <1>d, <1>h, Typed DEF TypeOK, Owners
<1>2. Locks'
  BY <1>a, <1>b, <1>c, <1>d, <1>f, <1>g DEF IInv, Locks
<1>3. Calls'
  BY <1>a, <1>d, <1>f, <1>g DEF IInv, Calls, TypeOK, ThreadState
<1>4. (\A x \in Streams : StreamOK(x))'
  <2> SUFFICES ASSUME NEW x \in Streams PROVE StreamOK(x)'
    OBVIOUS
  <2>1. CASE x = s
    BY <2>1, <1>a, <1>d, <1>h DEF IInv, StreamOK
  <2>2. CASE x # s
    BY <2>2, <1>d, <1>h DEF IInv, StreamOK
  <2> QED  BY <2>1, <2>2
<1>5. Starting'
  <2>1. \A u \in Threads : thread'[u].pc \notin {"peer", "open"}
    BY <1>c, <1>f, <1>g
  <2>2. \A u \in Threads : thread'[u].pc = "io" => ~stream'[thread'[u].s].standby
    BY <1>a, <1>d, <1>f, <1>g DEF IInv, Starting, Locks, TypeOK, ThreadState
  <2> QED  BY <2>1, <2>2 DEF Starting
<1>6. InputRoute'
  BY <1>a, <1>d, <1>h DEF IInv, InputRoute, Streams
<1>7. Rates'
  BY <1>a, <1>d DEF IInv, Rates, Agree, Streams
<1> QED  BY <1>1, <1>2, <1>3, <1>4, <1>5, <1>6, <1>7 DEF IInv

\* out_standby() and in_standby().
LEMMA StandbyIInv ==
  ASSUME IInv, NEW t \in Threads, Standby(t)
  PROVE  IInv'
<1> DEFINE s == thread[t].s
<1>a. s \in Streams /\ stream[s].lock = NoThread /\ thread[t].pc = "stream"
  BY Typed DEF Standby, At
<1>b. /\ stream' = [stream EXCEPT ![s] = do_standby(@)] /\ active' = ClearedActive(s)
      /\ adev_lock' = NoThread /\ UNCHANGED threshold
  BY DEF Standby
<1>c. adev_lock = t /\ \A u \in Threads \ {t} : thread[u].pc \notin {"stream", "peer", "open"}
  BY <1>a, Outside DEF IInv, Locks
<1>d. /\ stream' \in [Streams -> StreamState] /\ active' \in [Streams -> BOOLEAN]
      /\ stream'[s].standby /\ stream'[s].pcm # "open" /\ stream'[s].resampler = FALSE /\ ~active'[s]
      /\ stream'[s].alive = stream[s].alive /\ stream'[s].lock = stream[s].lock
      /\ stream'[s].config = stream[s].config
      /\ \A y \in Streams \ {s} : stream'[y] = stream[y] /\ active'[y] = active[y]
  BY <1>a, <1>b, PutToStandby
<1>e. /\ IF thread[t].op = "close" THEN thread' = [thread EXCEPT ![t].pc = "free"]
                                 ELSE thread' = [thread EXCEPT ![t] = Idle]
      /\ UNCHANGED <<device, mixer>>
  BY DEF Standby, Return, Goto
<1>f. \A u \in Threads \ {t} : thread'[u] = thread[u]
  BY <1>e DEF IInv, TypeOK
<1>g. IF thread[t].op = "close"
      THEN thread'[t].op = "close" /\ thread'[t].pc = "free" /\ thread'[t].s = s
      ELSE thread'[t].op = "none" /\ thread'[t].pc = "idle"
  BY <1>e, IdleFacts, Typed DEF TypeOK, ThreadState
<1>h. \A x \in Streams : stream[x].alive => mixer'[x] = device'[x] \ {"BIT_IN", "sco"}
  BY <1>e DEF IInv, StreamOK
<1>1. TypeOK'
  <2>1. thread' \in [Threads -> ThreadState]
    <3>1. [thread[t] EXCEPT !.pc = "free"] \in ThreadState
      BY Typed DEF ThreadState
    <3> QED  BY <3>1, <1>e, IdleFacts, Typed DEF TypeOK
  <2> QED  BY <2>1, <1>b, <1>d, <1>e, Typed DEF TypeOK, Owners
<1>2. Locks'
  BY <1>a, <1>b, <1>c, <1>d, <1>f, <1>g DEF IInv, Locks
<1>3. Calls'
  BY <1>a, <1>d, <1>f, <1>g DEF IInv, Calls, TypeOK, ThreadState
<1>4. (\A x \in Streams : StreamOK(x))'
  <2> SUFFICES ASSUME NEW x \in Streams PROVE StreamOK(x)'
    OBVIOUS
  <2>1. CASE x = s
    BY <2>1, <1>a, <1>d, <1>h DEF IInv, StreamOK
  <2>2. CASE x # s
    BY <2>2, <1>d, <1>h DEF IInv, StreamOK
  <2> QED  BY <2>1, <2>2
<1>5. Starting'
  <2>1. \A u \in Threads : thread'[u].pc \notin {"peer", "open"}
    BY <1>c, <1>f, <1>g
  <2>2. \A u \in Threads : thread'[u].pc = "io" => ~stream'[thread'[u].s].standby
    BY <1>a, <1>d, <1>f, <1>g DEF IInv, Starting, Locks, TypeOK, ThreadState
  <2> QED  BY <2>1, <2>2 DEF Starting
<1>6. InputRoute'
  BY <1>a, <1>d, <1>e DEF IInv, InputRoute, Streams
<1>7. Rates'
  BY <1>a, <1>d DEF IInv, Rates, Agree, Streams
<1> QED  BY <1>1, <1>2, <1>3, <1>4, <1>5, <1>6, <1>7 DEF IInv

\* A closed stream is freed.
LEMMA FreeIInv ==
  ASSUME IInv, NEW t \in Threads, Free(t)
  PROVE  IInv'
<1> DEFINE s == thread[t].s
<1>a. s \in Streams /\ thread[t].op = "close" /\ thread[t].pc = "free"
  BY Typed DEF Free, At
<1>b. stream' = [stream EXCEPT ![s] = Absent] /\ thread' = [thread EXCEPT ![t] = Idle]
      /\ UNCHANGED <<adev_lock, device, active, mixer, threshold>>
  BY DEF Free, Return
<1>c. stream'[s] = Absent /\ \A x \in Streams \ {s} : stream'[x] = stream[x]
  BY <1>a, <1>b DEF IInv, TypeOK
<1>d. thread'[t] = Idle /\ \A u \in Threads \ {t} : thread'[u] = thread[u]
  BY <1>b DEF IInv, TypeOK
<1>e. stream[s].standby /\ \A u \in Threads \ {t} : thread[u].op # "none" => thread[u].s # s
  BY <1>a DEF IInv, Calls
<1>f. ~active[s]
  BY <1>a, <1>e DEF IInv, StreamOK
<1>g. \A u \in Threads : thread[u].s \in Streams
  BY Typed
<1>h. stream'[s].alive = FALSE /\ stream'[s].standby = TRUE /\ stream'[s].resampler = FALSE
      /\ stream'[s].pcm = "null"
  BY <1>c, AbsentFacts
<1>1. TypeOK'
  BY <1>a, <1>b, IdleFacts, AbsentFacts, Typed DEF TypeOK
<1>2. Locks'
  BY <1>a, <1>b, <1>c, <1>d, <1>e, <1>g, IdleFacts, AbsentFacts DEF IInv, Locks, Calls
<1>3. Calls'
  BY <1>a, <1>c, <1>d, <1>e, <1>g, IdleFacts DEF IInv, Calls
<1>4. (\A x \in Streams : StreamOK(x))'
  <2> SUFFICES ASSUME NEW x \in Streams PROVE StreamOK(x)'
    OBVIOUS
  <2>1. CASE x = s
    BY <2>1, <1>b, <1>f, <1>h DEF StreamOK
  <2>2. CASE x # s
    BY <2>2, <1>b, <1>c DEF IInv, StreamOK
  <2> QED  BY <2>1, <2>2
<1>5. Starting'
  <2> SUFFICES ASSUME NEW u \in Threads, u # t, thread[u].pc \in {"peer", "open", "io"}
               PROVE  LET x == thread[u].s
                      IN  /\ thread[u].pc \in {"peer", "open"} =>
                               stream'[x].standby /\ stream'[x].config = StartConfig(x)
                          /\ thread[u].pc = "peer" => ~stream'[Peer(x)].standby
                          /\ thread[u].pc = "open" => stream'[Peer(x)].standby \/ Agree(x, Peer(x))'
                          /\ thread[u].pc = "io" => ~stream'[x].standby
    BY <1>b, <1>d, IdleFacts DEF Starting, StartConfig
  <2>1. thread[u].s # s /\ Peer(thread[u].s) = s
    BY <1>a, <1>e, <1>g, PeerFacts DEF IInv, Calls
  <2>2. thread[u].pc # "peer"
    BY <2>1, <1>e DEF IInv, Starting
  <2> QED  BY <2>1, <2>2, <1>a, <1>c, <1>g, AbsentFacts DEF IInv, Starting
<1>6. InputRoute'
  BY <1>a, <1>b, <1>c, AbsentFacts DEF IInv, InputRoute, Streams
<1>7. Rates'
  BY <1>a, <1>c, AbsentFacts DEF IInv, Rates, Agree, Streams
<1> QED  BY <1>1, <1>2, <1>3, <1>4, <1>5, <1>6, <1>7 DEF IInv

\* out_write() and in_read() on a stream that is not in standby.
LEMMA AlreadyStartedIInv ==
  ASSUME IInv, NEW t \in Threads, AlreadyStarted(t)
  PROVE  IInv'
<1> DEFINE s == thread[t].s
<1>a. /\ s \in Streams /\ t \in Owners /\ thread[t].pc = "stream" /\ thread[t].op = "transfer"
      /\ stream[s].lock = NoThread /\ ~stream[s].standby
      /\ stream' = [stream EXCEPT ![s].lock = t] /\ adev_lock' = NoThread
      /\ UNCHANGED <<device, active, mixer, threshold>>
  BY Typed DEF AlreadyStarted, At, Started, Owners
<1>b. /\ stream' \in [Streams -> StreamState] /\ stream'[s].lock = t
      /\ \A y \in Streams \ {s} : stream'[y].lock = stream[y].lock
      /\ \A y \in Streams : /\ stream'[y].alive = stream[y].alive /\ stream'[y].pcm = stream[y].pcm
                            /\ stream'[y].config = stream[y].config /\ stream'[y].rate = stream[y].rate
                            /\ stream'[y].standby = stream[y].standby
                            /\ stream'[y].resampler = stream[y].resampler
  BY <1>a, LockFacts
<1>c. Started(t, active)
  BY DEF AlreadyStarted
<1>d. /\ thread' \in [Threads -> ThreadState]
      /\ thread'[t].pc = "io" /\ thread'[t].op = "transfer" /\ thread'[t].s = s
      /\ \A u \in Threads \ {t} : thread'[u] = thread[u]
  BY <1>a, <1>c, StartedFacts
<1>e. adev_lock = t /\ \A u \in Threads \ {t} : thread[u].pc \notin {"stream", "peer", "open"}
  BY <1>a, Outside DEF IInv, Locks
<1>f. \A u \in Threads : thread[u].s \in Streams
  BY Typed
<1>1. TypeOK'
  BY <1>a, <1>b, <1>d, Typed DEF TypeOK, Owners
<1>2. Locks'
  BY <1>a, <1>b, <1>d, <1>e, <1>f DEF IInv, Locks
<1>3. Calls'
  BY <1>a, <1>b, <1>d, <1>f DEF IInv, Calls
<1>4. (\A x \in Streams : StreamOK(x))'
  BY <1>a, <1>b DEF IInv, StreamOK
<1>5. Starting'
  BY <1>a, <1>b, <1>d, <1>e, <1>f DEF IInv, Starting
<1>6. InputRoute'
  BY <1>a, <1>b DEF IInv, InputRoute, Streams
<1>7. Rates'
  BY <1>b DEF IInv, Rates, Agree, Streams
<1> QED  BY <1>1, <1>2, <1>3, <1>4, <1>5, <1>6, <1>7 DEF IInv

\* start_output_stream() and start_input_stream() up to the lock of the other stream.
LEMMA StartStreamIInv ==
  ASSUME IInv, NEW t \in Threads, StartStream(t)
  PROVE  IInv'
<1> DEFINE s   == thread[t].s
           p   == Peer(s)
           cfg == StartConfig(s)
           new == [stream[s] EXCEPT !.lock = t, !.config = cfg]
           pc  == IF active[p] THEN "peer" ELSE "open"
<1>a. /\ thread[t].pc = "stream" /\ thread[t].op = "transfer"
      /\ stream[s].lock = NoThread /\ stream[s].standby
      /\ thread' = [thread EXCEPT ![t].pc = pc]
      /\ buffer_type' \in {"unknown", buffer_type}
      /\ UNCHANGED <<adev_lock, device, active, mixer, write_threshold, cur_write_threshold, unread>>
  BY DEF StartStream, At, Goto
<1>b. stream' = [stream EXCEPT ![s] = new]
  BY Typed DEF StartStream, TypeOK
<1>c. /\ s \in Streams /\ adev_lock = t /\ \A u \in Threads : thread[u].s \in Streams
      /\ \A u \in Threads \ {t} : thread[u].pc \notin {"stream", "peer", "open"}
  BY <1>a, Outside, Typed DEF IInv, Locks
<1>d. cfg \in (IF s = "out" THEN {"out", "hdmi"} ELSE {"in", "sco"}) /\ cfg \in Configs
  BY DEF StartConfig, Configs
<1> HIDE DEF cfg
<1>e. /\ new \in StreamState /\ new.lock = t /\ new.config = cfg /\ new.alive = stream[s].alive
      /\ new.pcm = stream[s].pcm /\ new.standby = stream[s].standby
      /\ new.resampler = stream[s].resampler /\ new.rate = stream[s].rate
  BY <1>d, Typed DEF StreamState, Owners
<1> HIDE DEF new
<1>f. stream'[s] = new /\ \A x \in Streams \ {s} : stream'[x] = stream[x]
  BY <1>b, <1>c DEF IInv, TypeOK
<1>g. /\ thread' \in [Threads -> ThreadState] /\ thread'[t].pc = pc /\ thread'[t].op = "transfer"
      /\ thread'[t].s = s /\ \A u \in Threads \ {t} : thread'[u] = thread[u]
  <2>1. pc \in {"peer", "open"}
    OBVIOUS
  <2> HIDE DEF pc
  <2>2. [thread[t] EXCEPT !.pc = pc] \in ThreadState
    BY <2>1, Typed DEF ThreadState
  <2> QED  BY <1>a, <2>2, Typed DEF TypeOK, ThreadState
<1>h. p \in Streams /\ p # s /\ (active[p] <=> ~stream[p].standby)
  BY <1>c, PeerFacts DEF IInv, StreamOK
<1>i. /\ stream'[s].standby = TRUE /\ stream'[s].resampler = FALSE /\ stream'[s].pcm # "open"
      /\ ~active[s] /\ stream'[s].config = cfg /\ stream'[s].alive = stream[s].alive
  BY <1>a, <1>c, <1>e, <1>f, Typed, ZenonT(30) DEF IInv, StreamOK, StreamState
<1>1. TypeOK'
  BY <1>a, <1>b, <1>e, <1>g, Typed DEF TypeOK
<1>2. Locks'
  BY <1>a, <1>c, <1>e, <1>f, <1>g DEF IInv, Locks
<1>3. Calls'
  BY <1>a, <1>c, <1>e, <1>f, <1>g DEF IInv, Calls
<1>4. (\A x \in Streams : StreamOK(x))'
  <2> SUFFICES ASSUME NEW x \in Streams PROVE StreamOK(x)'
    OBVIOUS
  <2>1. CASE x = s
    BY <2>1, <1>a, <1>d, <1>i DEF IInv, StreamOK
  <2>2. CASE x # s
    BY <2>2, <1>a, <1>f DEF IInv, StreamOK
  <2> QED  BY <2>1, <2>2
<1>5. Starting'
  <2>1. cfg = StartConfig(s)'
    BY <1>a DEF cfg, StartConfig
  <2>2. \A u \in Threads \ {t} : thread[u].pc = "io" => thread[u].s # s
    BY <1>a, <1>c DEF IInv, Locks
  <2>3. \A u \in Threads \ {t} : thread'[u].pc \notin {"peer", "open"}
          /\ (thread'[u].pc = "io" => ~stream'[thread'[u].s].standby)
    BY <1>c, <1>f, <1>g, <2>2 DEF IInv, Starting
  <2>4. stream'[s].standby /\ stream'[s].config = StartConfig(s)' /\ stream'[p] = stream[p]
    BY <1>a, <1>e, <1>f, <1>h, <2>1
  <2> QED  BY <1>g, <1>h, <2>3, <2>4 DEF Starting
<1>6. InputRoute'
  BY <1>a, <1>c, <1>f, <1>i DEF IInv, InputRoute, Streams
<1>7. Rates'
  BY <1>a, <1>c, <1>f, <1>i DEF IInv, Rates, Agree, Streams
<1> QED  BY <1>1, <1>2, <1>3, <1>4, <1>5, <1>6, <1>7 DEF IInv

\* The other stream is put into standby when its rate is of the other group.
LEMMA CheckPeerIInv ==
  ASSUME IInv, NEW t \in Threads, CheckPeer(t)
  PROVE  IInv'
<1> DEFINE s == thread[t].s
           p == Peer(s)
           c == Conflict(Rate[stream[s].config], Rate[stream[p].config])
<1>a. /\ thread[t].pc = "peer" /\ thread[t].op = "transfer" /\ stream[p].lock = NoThread
      /\ stream' = (IF c THEN [stream EXCEPT ![p] = do_standby(@)] ELSE stream)
      /\ active' = (IF c THEN ClearedActive(p) ELSE active)
      /\ thread' = [thread EXCEPT ![t].pc = "open"]
      /\ UNCHANGED <<adev_lock, device, mixer, threshold>>
  BY DEF CheckPeer, At, Goto
<1>c. /\ s \in Streams /\ adev_lock = t /\ \A u \in Threads : thread[u].s \in Streams
      /\ \A u \in Threads \ {t} : thread[u].pc \notin {"stream", "peer", "open"}
  BY <1>a, Outside, Typed DEF IInv, Locks
<1>d. p \in Streams /\ p # s /\ \A x \in Streams : x # p => x = s
  BY <1>c, PeerFacts
<1>e. /\ thread' \in [Threads -> ThreadState] /\ thread'[t].pc = "open" /\ thread'[t].op = "transfer"
      /\ thread'[t].s = s /\ \A u \in Threads \ {t} : thread'[u] = thread[u]
  <2>1. [thread[t] EXCEPT !.pc = "open"] \in ThreadState
    BY Typed DEF ThreadState
  <2> QED  BY <1>a, <2>1, Typed DEF TypeOK, ThreadState
<1>f. \A u \in Threads : thread[u].pc = "io" => thread[u].s = s
  BY <1>a, <1>c, <1>d DEF IInv, Locks
<1>g. /\ stream' \in [Streams -> StreamState] /\ active' \in [Streams -> BOOLEAN]
      /\ c => /\ stream'[p].standby /\ stream'[p].pcm # "open" /\ stream'[p].resampler = FALSE
              /\ ~active'[p]
      /\ stream'[p].alive = stream[p].alive /\ stream'[p].lock = stream[p].lock
      /\ stream'[p].config = stream[p].config
      /\ stream'[s] = stream[s] /\ active'[s] = active[s]
      /\ ~c => stream' = stream /\ active' = active
  <2>1. CASE c
    <3>1. stream' = [stream EXCEPT ![p] = do_standby(@)] /\ active' = ClearedActive(p)
      BY <1>a, <2>1
    <3> HIDE DEF p, c
    <3> QED  BY <1>c, <1>d, <2>1, <3>1, PutToStandby, ZenonT(30)
  <2>2. CASE ~c
    BY <1>a, <1>c, <2>2, Typed DEF TypeOK
  <2> QED  BY <2>1, <2>2
<1> HIDE DEF c
<1>1. TypeOK'
  BY <1>a, <1>e, <1>g, Typed DEF TypeOK
<1>2. Locks'
  BY <1>a, <1>c, <1>d, <1>e, <1>g DEF IInv, Locks
<1>3. Calls'
  <2>1. \A x \in Streams : stream'[x].alive = stream[x].alive /\ (stream[x].standby => stream'[x].standby)
    BY <1>d, <1>g
  <2> QED  BY <1>a, <1>c, <1>e, <2>1 DEF IInv, Calls
<1>4. (\A x \in Streams : StreamOK(x))'
  <2> SUFFICES ASSUME NEW x \in Streams PROVE StreamOK(x)'
    OBVIOUS
  <2>1. CASE x = p /\ c
    BY <2>1, <1>a, <1>g DEF IInv, StreamOK
  <2>2. CASE x = s \/ ~c
    BY <2>2, <1>a, <1>g, SMTT(30) DEF IInv, StreamOK
  <2> QED  BY <1>d, <2>1, <2>2
<1>5. Starting'
  <2>1. \A u \in Threads \ {t} : thread'[u].pc \notin {"peer", "open"}
          /\ (thread'[u].pc = "io" => ~stream'[thread'[u].s].standby)
    BY <1>c, <1>e, <1>f, <1>g DEF IInv, Starting
  <2>2. stream'[s].standby /\ stream'[s].config = StartConfig(s)'
    BY <1>a, <1>g DEF IInv, Starting, StartConfig
  <2>3. stream'[p].standby \/ Agree(s, p)'
    BY <1>e, <1>g DEF c, Agree
  <2> QED  BY <1>e, <2>1, <2>2, <2>3 DEF Starting
<1>6. InputRoute'
  BY <1>a, <1>c, <1>d, <1>g DEF IInv, InputRoute, Streams
<1>7. Rates'
  BY <1>a, <1>c, <1>d, <1>g DEF IInv, Rates, Agree, Streams
<1> QED  BY <1>1, <1>2, <1>3, <1>4, <1>5, <1>6, <1>7 DEF IInv

\* pcm_open() succeeds.
LEMMA PcmOpenIInv ==
  ASSUME IInv, NEW t \in Threads, PcmOpen(t)
  PROVE  IInv'
<1> DEFINE s   == thread[t].s
           p   == Peer(s)
           res == stream[s].rate # Rate[stream[s].config]
           new == [stream[s] EXCEPT !.pcm = "open", !.standby = FALSE, !.resampler = res]
<1>a. /\ thread[t].pc = "open" /\ thread[t].op = "transfer" /\ adev_lock' = NoThread
      /\ active' = [active EXCEPT ![s] = TRUE] /\ UNCHANGED <<device, mixer, threshold>>
  BY DEF PcmOpen, At, Started
<1>b. stream' = [stream EXCEPT ![s] = new]
  BY Typed DEF PcmOpen, TypeOK
<1>c. /\ s \in Streams /\ adev_lock = t /\ \A u \in Threads : thread[u].s \in Streams
      /\ \A u \in Threads \ {t} : thread[u].pc \notin {"stream", "peer", "open"}
  BY <1>a, Outside, Typed DEF IInv, Locks
<1>d. p \in Streams /\ p # s /\ \A x \in Streams : x # p => x = s
  BY <1>c, PeerFacts
<1>e. res \in BOOLEAN
  OBVIOUS
<1> HIDE DEF res
<1>f. /\ new \in StreamState /\ new.pcm = "open" /\ new.standby = FALSE /\ new.resampler = res
      /\ new.lock = stream[s].lock /\ new.config = stream[s].config /\ new.alive = stream[s].alive
      /\ new.rate = stream[s].rate
  BY <1>e, Typed DEF StreamState
<1> HIDE DEF new
<1>g. /\ stream'[s] = new /\ active'[s] = TRUE
      /\ \A x \in Streams \ {s} : stream'[x] = stream[x] /\ active'[x] = active[x]
  BY <1>a, <1>b, <1>c DEF IInv, TypeOK
<1>h. /\ thread' \in [Threads -> ThreadState]
      /\ thread'[t].pc = "io" /\ thread'[t].op = "transfer" /\ thread'[t].s = s
      /\ \A u \in Threads \ {t} : thread'[u] = thread[u]
  BY <1>a, StartedFacts DEF PcmOpen
<1>i. stream[s].alive /\ stream[s].config = StartConfig(s) /\ (stream[p].standby \/ Agree(s, p))
  BY <1>a DEF IInv, Calls, Starting
<1>j. \A x \in Streams : stream'[x].lock = stream[x].lock /\ stream'[x].alive = stream[x].alive
                         /\ stream'[x].config = stream[x].config
  BY <1>f, <1>g
<1>1. TypeOK'
  BY <1>a, <1>b, <1>c, <1>f, <1>h, Typed DEF TypeOK, Owners
<1>2. Locks'
  BY <1>a, <1>c, <1>h, <1>j DEF IInv, Locks
<1>3. Calls'
  <2>1. \A u \in Threads : thread[u].pc = "free" => thread[u].s # s
    BY <1>a DEF IInv, Calls
  <2>2. \A u \in Threads : thread[u].pc = "free" => stream'[thread[u].s].standby
    BY <1>c, <1>g, <2>1 DEF IInv, Calls
  <2>3. thread[t].pc = "open" /\ thread[t].op = "transfer"
    BY <1>a
  <2> QED  BY <1>c, <1>h, <1>j, <2>2, <2>3 DEF IInv, Calls
<1>4. (\A x \in Streams : StreamOK(x))'
  <2> SUFFICES ASSUME NEW x \in Streams PROVE StreamOK(x)'
    OBVIOUS
  <2>1. CASE x = s
    BY <2>1, <1>a, <1>e, <1>f, <1>g, <1>i, ZenonT(30) DEF IInv, StreamOK, res
  <2>2. CASE x # s
    <3>1. stream'[x] = stream[x] /\ active'[x] = active[x] /\ UNCHANGED <<device, mixer>>
      BY <2>2, <1>a, <1>g
    <3> QED  BY <3>1 DEF IInv, StreamOK
  <2> QED  BY <2>1, <2>2
<1>5. Starting'
  BY <1>c, <1>d, <1>f, <1>g, <1>h DEF IInv, Starting
<1>6. InputRoute'
  BY <1>a, <1>c, <1>d, <1>f, <1>g, <1>i DEF IInv, InputRoute, Streams, StartConfig
<1>7. Rates'
  <2>1. stream[s].config \in Configs /\ stream[p].config \in Configs
    BY Typed DEF StreamState
  <2>2. stream[p].standby \/ (Agree(s, p) /\ Agree(p, s))
    BY <1>i, <2>1, ConflictSymmetric DEF Agree
  <2>3. stream'[p].standby \/ (Agree(s, p)' /\ Agree(p, s)')
    BY <1>d, <1>c, <1>g, <1>h, <1>j, <2>2 DEF Agree
  <2> QED  BY <1>c, <1>d, <1>h, <2>3 DEF Rates, Streams
<1> QED  BY <1>1, <1>2, <1>3, <1>4, <1>5, <1>6, <1>7 DEF IInv

\* pcm_open() fails.
LEMMA PcmOpenFailsIInv ==
  ASSUME IInv, NEW t \in Threads, PcmOpenFails(t)
  PROVE  IInv'
<1> DEFINE s   == thread[t].s
           new == [stream[s] EXCEPT !.pcm = "closed"]
<1>a. /\ thread[t].pc = "open" /\ thread[t].op = "transfer" /\ adev_lock' = NoThread
      /\ thread' = [thread EXCEPT ![t].pc = "exit"] /\ UNCHANGED <<device, active, mixer, threshold>>
  BY DEF PcmOpenFails, At, Goto
<1>b. stream' = [stream EXCEPT ![s] = new]
  BY Typed DEF PcmOpenFails, TypeOK
<1>c. /\ s \in Streams /\ adev_lock = t /\ \A u \in Threads : thread[u].s \in Streams
      /\ \A u \in Threads \ {t} : thread[u].pc \notin {"stream", "peer", "open"}
  BY <1>a, Outside, Typed DEF IInv, Locks
<1>d. /\ new \in StreamState /\ new.pcm = "closed" /\ new.standby = stream[s].standby
      /\ new.lock = stream[s].lock /\ new.config = stream[s].config /\ new.alive = stream[s].alive
      /\ new.rate = stream[s].rate /\ new.resampler = stream[s].resampler
  BY Typed DEF StreamState
<1> HIDE DEF new
<1>e. stream'[s] = new /\ \A x \in Streams \ {s} : stream'[x] = stream[x]
  BY <1>b, <1>c DEF IInv, TypeOK
<1>f. /\ thread' \in [Threads -> ThreadState] /\ thread'[t].pc = "exit" /\ thread'[t].op = "transfer"
      /\ thread'[t].s = s /\ \A u \in Threads \ {t} : thread'[u] = thread[u]
  <2>1. [thread[t] EXCEPT !.pc = "exit"] \in ThreadState
    BY Typed DEF ThreadState
  <2> QED  BY <1>a, <2>1, Typed DEF TypeOK, ThreadState
<1>g. stream[s].standby
  BY <1>a DEF IInv, Starting
<1>1. TypeOK'
  BY <1>a, <1>b, <1>d, <1>f, Typed DEF TypeOK, Owners
<1>2. Locks'
  BY <1>a, <1>c, <1>d, <1>e, <1>f DEF IInv, Locks
<1>3. Calls'
  BY <1>a, <1>c, <1>d, <1>e, <1>f DEF IInv, Calls
<1>4. (\A x \in Streams : StreamOK(x))'
  <2> SUFFICES ASSUME NEW x \in Streams PROVE StreamOK(x)'
    OBVIOUS
  <2>1. CASE x = s
    BY <2>1, <1>a, <1>d, <1>e, <1>g, Typed DEF IInv, StreamOK, StreamState
  <2>2. CASE x # s
    BY <2>2, <1>a, <1>e DEF IInv, StreamOK
  <2> QED  BY <2>1, <2>2
<1>5. Starting'
  BY <1>c, <1>d, <1>e, <1>f DEF IInv, Starting
<1>6. InputRoute'
  BY <1>a, <1>c, <1>d, <1>e DEF IInv, InputRoute, Streams
<1>7. Rates'
  BY <1>c, <1>d, <1>e DEF IInv, Rates, Agree, Streams
<1> QED  BY <1>1, <1>2, <1>3, <1>4, <1>5, <1>6, <1>7 DEF IInv

\* The rest of out_write() and in_read().
LEMMA TransferIInv ==
  ASSUME IInv, NEW t \in Threads, Transfer(t)
  PROVE  IInv'
<1>1. /\ thread[t].pc = "io" /\ UNCHANGED <<adev_lock, device, active, mixer>>
      /\ stream' = [stream EXCEPT ![thread[t].s].lock = NoThread]
      /\ thread' = [thread EXCEPT ![t] = Idle]
  BY DEF Transfer, At, Return
<1>2. AdaptThreshold(thread[t].btype) \/ UNCHANGED threshold
  BY DEF Transfer
<1>3. thread[t].btype \in {"unknown", "short", "long"}
  BY Typed DEF ThreadState
<1>4. /\ buffer_type' \in {"unknown", "short", "long"} /\ unread' \in BOOLEAN
      /\ write_threshold' \in Nat /\ 2 * write_threshold' < UIntMod
      /\ cur_write_threshold' \in Int /\ 2 * cur_write_threshold' < UIntMod
  BY <1>2, <1>3, AdaptType, Typed DEF TypeOK
<1> QED  BY <1>1, <1>4, Release

\* out_write() and in_read() after a failed start.
LEMMA ExitIInv ==
  ASSUME IInv, NEW t \in Threads, Exit(t)
  PROVE  IInv'
  BY Release, Typed DEF Exit, At, Return, TypeOK

\* adev_set_parameters() applies the routes to the mixer again.
LEMMA SetOrientationIInv ==
  ASSUME IInv, NEW t \in Threads, SetOrientation(t)
  PROVE  IInv'
<1>1. mixer' = [x \in Streams |-> device[x] \ {"BIT_IN", "sco"}]
      /\ UNCHANGED <<adev_lock, device, active, stream, threshold, thread>>
  BY DEF SetOrientation, select_devices
<1>2. TypeOK'
  BY <1>1 DEF IInv, TypeOK
<1>3. (\A s \in Streams : StreamOK(s))'
  BY <1>1 DEF IInv, StreamOK
<1>4. Locks' /\ Calls' /\ Starting' /\ InputRoute' /\ Rates'
  BY <1>1 DEF IInv, Locks, Calls, Starting, InputRoute, Rates, Agree, StartConfig
<1> QED  BY <1>2, <1>3, <1>4 DEF IInv

-----------------------------------------------------------------------------
(***************************************************************************)
(* The theorems.                                                           *)
(***************************************************************************)
\* The state after adev_open() satisfies the inductive invariant.
LEMMA InitIInv == Init => IInv
<1> SUFFICES ASSUME Init PROVE IInv
  OBVIOUS
<1>a. /\ adev_lock = NoThread /\ (\A s \in Streams : stream[s] = Absent /\ active[s] = FALSE)
      /\ (\A t \in Threads : thread[t] = Idle)
  BY DEF Init
<1>b. UIntMod \in Nat /\ 0 < UIntMod
  BY SizesAssumption
<1>1. TypeOK
  <2>1. stream \in [Streams -> StreamState] /\ thread \in [Threads -> ThreadState]
    BY AbsentFacts, IdleFacts DEF Init
  <2>2. device \in [Streams -> SUBSET Devices] /\ mixer \in [Streams -> SUBSET Devices]
        /\ active \in [Streams -> BOOLEAN]
    BY DEF Init, Devices
  <2>3. /\ write_threshold \in Nat /\ 2 * write_threshold < UIntMod
        /\ cur_write_threshold \in Int /\ 2 * cur_write_threshold < UIntMod
    BY <1>b DEF Init
  <2> QED  BY <2>1, <2>2, <2>3 DEF Init, TypeOK, Owners
<1>2. Locks
  BY <1>a, AbsentFacts, IdleFacts DEF Locks
<1>3. Calls
  BY <1>a, IdleFacts DEF Calls
<1>4. \A s \in Streams : StreamOK(s)
  <2>1. \A s \in Streams : /\ stream[s].alive = FALSE /\ stream[s].standby = TRUE
                           /\ stream[s].resampler = FALSE /\ stream[s].pcm = "null"
    BY <1>a, AbsentFacts
  <2> QED  BY <1>a, <2>1 DEF StreamOK
<1>5. Starting
  BY <1>a, IdleFacts DEF Starting
<1>6. InputRoute /\ Rates
  BY <1>a, AbsentFacts DEF InputRoute, Rates, Streams
<1> QED  BY <1>1, <1>2, <1>3, <1>4, <1>5, <1>6 DEF IInv

\* Every step of every thread keeps the inductive invariant.
LEMMA NextIInv == IInv /\ [Next]_vars => IInv'
<1> SUFFICES ASSUME IInv, [Next]_vars PROVE IInv'
  OBVIOUS
<1>1. CASE Next
  <2>1. PICK t \in Threads : Call(t) \/ Step(t)
    BY <1>1 DEF Next
  <2> QED  BY <2>1, CallIInv, OpenIInv, LockDeviceIInv, RouteIInv, RouteStandbyIInv, StandbyIInv,
              FreeIInv, AlreadyStartedIInv, StartStreamIInv, CheckPeerIInv, PcmOpenIInv,
              PcmOpenFailsIInv, TransferIInv, ExitIInv, SetOrientationIInv DEF Step
<1>2. CASE UNCHANGED vars
  BY <1>2 DEF vars, IInv, TypeOK, Locks, Calls, StreamOK, Starting, InputRoute, Rates, Agree,
              StartConfig
<1> QED  BY <1>1, <1>2

\* The inductive invariant: who holds which lock, which calls exclude each other, and in
\* which states a stream may be, at every step of every thread of the audio server.
THEOREM SpecIInv == Spec => []IInv
<1> QED  BY InitIInv, NextIInv, PTL DEF Spec

\* The types, the int of the write threshold among them.
THEOREM SpecTypeOK == Spec => []TypeOK
<1>1. IInv => TypeOK
  BY DEF IInv
<1> QED  BY <1>1, SpecIInv, PTL

\* The lock order of audio_hw.c: no set of threads, however many, waits in a circle for the
\* locks of the device and of the two streams.
THEOREM SpecNoWaitCycle == Spec => []NoWaitCycle
<1>1. ASSUME IInv, NEW T \in SUBSET Threads, T # {}
      PROVE  \E t \in T : WaitsFor(t) \notin T
  <2> SUFFICES ASSUME \A t \in T : WaitsFor(t) \in T PROVE FALSE
    BY <1>1
  <2>1. \A t \in T : t \in Threads /\ t # NoThread
    BY <1>1
  <2>2. \A t \in T : thread[t].s \in Streams /\ Peer(thread[t].s) \in Streams
                     /\ Peer(thread[t].s) # thread[t].s
    BY <1>1, Typed, PeerFacts
  <2>3. \A t \in T : \/ thread[t].pc = "device" /\ WaitsFor(t) = adev_lock
                     \/ thread[t].pc = "stream" /\ WaitsFor(t) = stream[thread[t].s].lock
                     \/ thread[t].pc = "peer" /\ WaitsFor(t) = stream[Peer(thread[t].s)].lock
    <3> TAKE t \in T
    <3>1. CASE thread[t].pc = "device"
      BY <3>1 DEF WaitsFor
    <3>2. CASE thread[t].pc = "stream"
      BY <3>2 DEF WaitsFor
    <3>3. CASE thread[t].pc = "peer"
      BY <3>3 DEF WaitsFor
    <3>4. CASE thread[t].pc \notin {"device", "stream", "peer"}
      <4>1. WaitsFor(t) = NoThread
        BY <3>4 DEF WaitsFor
      <4> QED  BY <2>1, <4>1
    <3> QED  BY <3>1, <3>2, <3>3, <3>4
  \* The thread waited for holds a lock; as it waits too, it is the holder of the device lock.
  <2>4. \A t \in T : thread[WaitsFor(t)].pc \in {"stream", "peer"}
    <3> TAKE t \in T
    <3>1. PICK u \in T : u = WaitsFor(t)
      OBVIOUS
    <3>2. u \in Threads /\ thread[u].pc \in {"device", "stream", "peer"}
      BY <2>1, <2>3
    <3>3. adev_lock = u \/ \E s \in Streams : stream[s].lock = u
      BY <2>2, <2>3, <3>1
    <3>4. thread[u].pc \in {"stream", "peer", "open", "io", "exit"}
      BY <1>1, <3>2, <3>3 DEF IInv, Locks
    <3> QED  BY <3>1, <3>2, <3>4
  <2>5. PICK h \in T : thread[h].pc \in {"stream", "peer"}
    BY <1>1, <2>4
  <2>6. adev_lock = h
    BY <1>1, <2>1, <2>5 DEF IInv, Locks
  \* Its turn to wait can only be for itself, and for the lock of a stream it does not hold.
  <2>7. WaitsFor(h) = h
    BY <1>1, <2>1, <2>4, <2>6 DEF IInv, Locks
  <2> QED  BY <1>1, <2>1, <2>2, <2>3, <2>5, <2>7 DEF IInv, Locks
<1>2. IInv => NoWaitCycle
  BY <1>1 DEF NoWaitCycle
<1> QED  BY <1>2, SpecIInv, PTL

\* A thread in out_write() or in_read() finds its PCM open and its resampler in place, whatever
\* other threads do with standby, routes and the other stream.
THEOREM SpecPcmReady == Spec => []PcmReady
<1>1. ASSUME IInv, NEW t \in Threads, thread[t].pc = "io"
      PROVE  LET st == stream[thread[t].s]
             IN  /\ st.alive /\ st.lock = t
                 /\ st.pcm = "open" /\ ~st.standby
                 /\ st.resampler = (st.rate # Rate[st.config])
  <2>1. thread[t].s \in Streams /\ ~stream[thread[t].s].standby
    BY <1>1, Typed DEF IInv, Starting
  <2> QED  BY <1>1, <2>1 DEF IInv, Locks, StreamOK
<1>2. IInv => PcmReady
  BY <1>1 DEF PcmReady
<1> QED  BY <1>2, SpecIInv, PTL

\* The two PCMs are never open with rates of different groups, whichever stream is started
\* last and whatever happens to the other one meanwhile.
THEOREM SpecOneRateGroup == Spec => []OneRateGroup
<1>1. ASSUME IInv, stream["out"].pcm = "open", stream["in"].pcm = "open"
      PROVE  \E group \in {8000, 11025} : \A s \in Streams : Rate[stream[s].config] % group = 0
  <2>1. Agree("out", "in")
    BY <1>1 DEF IInv, StreamOK, Rates, Streams
  <2>2. stream["out"].config \in Configs /\ stream["in"].config \in Configs
    BY <1>1 DEF IInv, TypeOK, StreamState, Streams
  <2>3. PICK group \in {8000, 11025} :
          Rate[stream["out"].config] % group = 0 /\ Rate[stream["in"].config] % group = 0
    BY <2>1, <2>2, OneGroup DEF Agree
  <2> QED  BY <2>3 DEF Streams
<1>2. IInv => OneRateGroup
  BY <1>1 DEF OneRateGroup
<1> QED  BY <1>2, SpecIInv, PTL

\* No pointer to a freed stream is left in the device or used by a thread.
THEOREM SpecNoDangling == Spec => []NoDangling
<1>1. ASSUME IInv PROVE NoDangling
  <2>1. \A s \in Streams : active[s] => stream[s].alive /\ ~stream[s].standby
    BY <1>1 DEF IInv, StreamOK
  <2>2. ASSUME NEW t \in Threads, thread[t].pc \in {"stream", "peer", "open", "io", "exit"}
        PROVE  stream[thread[t].s].alive
    <3>1. thread[t].op \in {"transfer", "standby", "route", "close"}
      BY <1>1, <2>2, Typed DEF IInv, Calls, ThreadState
    <3> QED  BY <1>1, <3>1 DEF IInv, Calls
  <2>3. ASSUME NEW t \in Threads, thread[t].pc = "peer"
        PROVE  stream[Peer(thread[t].s)].alive
    BY <1>1, <2>3, Typed DEF IInv, Starting, StreamOK
  <2> QED  BY <2>1, <2>2, <2>3 DEF NoDangling
<1> QED  BY <1>1, SpecIInv, PTL

\* Whenever no thread is between two locks, PCMs, active streams, routes and mixer agree.
THEOREM SpecSettled == Spec => []Settled
<1>1. IInv => Settled
  BY DEF IInv, StreamOK, InputRoute, Settled, Streams
<1> QED  BY <1>1, SpecIInv, PTL

-----------------------------------------------------------------------------
(***************************************************************************)
(* The range of the write threshold.                                       *)
(***************************************************************************)
\* What the proofs need to know of the sizes.
LEMMA Numbers ==
  /\ PeriodSize \in Nat /\ PeriodSize > 0 /\ ShortCount \in Nat /\ ShortCount >= 1
  /\ LongCount \in Nat /\ LongCount >= ShortCount /\ UIntMod \in Nat
  /\ 2 * (PeriodSize * (LongCount + 1)) < UIntMod
  BY SizesAssumption

\* Multiplication is monotonic.
LEMMA Products ==
  ASSUME NEW a \in Int, NEW b \in Int, a =< b, NEW c \in Nat
  PROVE  c * a =< c * b
  OBVIOUS

\* Division rounds down.
LEMMA DivFacts ==
  ASSUME NEW a \in Nat, NEW b \in Nat, b > 0
  PROVE  a \div b \in Nat /\ b * (a \div b) =< a
  OBVIOUS

\* A quarter of a period is at most a period.
LEMMA QuarterFacts == Quarter \in Nat /\ Quarter =< PeriodSize
  BY SizesAssumption DEF Quarter

\* Either target is at least a period and at most the long buffer.
LEMMA ThresholdFacts ==
  ASSUME NEW type
  PROVE  /\ Threshold(type) \in Int /\ PeriodSize =< Threshold(type)
         /\ Threshold(type) =< PeriodSize * LongCount
<1>1. PeriodSize * 1 =< PeriodSize * ShortCount
  BY Numbers, Products
<1>2. PeriodSize * ShortCount =< PeriodSize * LongCount
  BY Numbers, Products
<1> QED  BY <1>1, <1>2, Numbers DEF Threshold

\* The conversion to int keeps small numbers.
LEMMA ToIntSame ==
  ASSUME NEW x \in Nat, 2 * x < UIntMod
  PROVE  ToInt(x) = x
<1>1. x % UIntMod = x
  BY Numbers
<1> QED  BY <1>1 DEF ToInt

\* "just above current filling status" of a depleted buffer is still within the long buffer.
LEMMA JustAboveFacts ==
  ASSUME NEW kf \in Nat, NEW target \in Int, target =< PeriodSize * LongCount, Depleted(kf, target)
  PROVE  JustAbove(kf) \in PeriodSize .. PeriodSize * LongCount
<1> DEFINE q == kf \div PeriodSize
           x == (q + 1) * PeriodSize + Quarter
           top == PeriodSize * LongCount
<1>1. PeriodSize * ShortCount \in Nat /\ PeriodSize =< PeriodSize * ShortCount /\ top \in Nat
  <2>1. PeriodSize * 1 =< PeriodSize * ShortCount
    BY Numbers, Products
  <2> QED  BY <2>1, Numbers
<1>2. kf + PeriodSize * ShortCount < top
  BY <1>1 DEF Depleted
<1>3. q \in Nat /\ PeriodSize * q =< kf
  BY Numbers, DivFacts
<1>4. PeriodSize * (LongCount - ShortCount) = top - PeriodSize * ShortCount
  BY Numbers
<1> HIDE DEF q
<1>5. q + 1 =< LongCount - ShortCount
  <2> SUFFICES ASSUME LongCount - ShortCount =< q PROVE FALSE
    BY <1>3, Numbers
  <2>1. PeriodSize * (LongCount - ShortCount) =< PeriodSize * q
    BY <1>3, Numbers, Products
  <2>2. PeriodSize * q \in Int
    BY <1>3, Numbers
  <2> HIDE DEF top
  <2> QED  BY <1>1, <1>2, <1>3, <1>4, <2>1, <2>2
<1>6. PeriodSize * (q + 1) =< PeriodSize * (LongCount - ShortCount) /\ PeriodSize * 1 =< PeriodSize * (q + 1)
  BY <1>3, <1>5, Numbers, Products
<1>7. (q + 1) * PeriodSize = PeriodSize * (q + 1) /\ PeriodSize * (q + 1) \in Int
  BY <1>3, Numbers
<1>8. x \in Nat /\ PeriodSize =< x /\ x =< top
  <2> HIDE DEF top
  <2> QED  BY <1>1, <1>4, <1>6, <1>7, QuarterFacts, Numbers
<1>9. 2 * x < UIntMod
  <2>1. PeriodSize * (LongCount + 1) = top + PeriodSize
    BY Numbers
  <2> HIDE DEF top, x
  <2> QED  BY <2>1, <1>1, <1>8, Numbers
<1>10. kf % UIntMod = kf
  <2>1. kf < UIntMod
    <3>1. PeriodSize * (LongCount + 1) = top + PeriodSize
      BY Numbers
    <3> HIDE DEF top
    <3> QED  BY <3>1, <1>1, <1>2, Numbers
  <2> QED  BY <2>1, Numbers
<1>11. JustAbove(kf) = x
  BY <1>8, <1>9, <1>10, ToIntSame DEF JustAbove, q
<1> HIDE DEF x
<1> QED  BY <1>1, <1>8, <1>11, Numbers

\* A step of the threshold stays in range, unless it is taken from a kernel_frames that was
\* not read.
LEMMA NextInRange ==
  ASSUME NEW type, NEW cur \in PeriodSize .. PeriodSize * LongCount, NEW kf \in Int,
         kf \in Nat \/ cur # Threshold(type)
  PROVE  NextThreshold(cur, Threshold(type), kf) \in PeriodSize .. PeriodSize * LongCount
<1> DEFINE target == Threshold(type)
           top == PeriodSize * LongCount
<1>1. target \in Int /\ PeriodSize =< target /\ target =< top /\ top \in Nat
  BY ThresholdFacts, Numbers
<1>2. 2 * (top + PeriodSize) < UIntMod
  <2>1. PeriodSize * (LongCount + 1) = top + PeriodSize
    BY Numbers
  <2> QED  BY <2>1, Numbers
<1>3. cur \in Int /\ PeriodSize =< cur /\ cur =< top
  BY <1>1, Numbers
<1> HIDE DEF target, top
<1>4. ToInt(cur - Quarter) = cur - Quarter /\ ToInt(cur + Quarter) = cur + Quarter
  <2>1. cur - Quarter \in Nat /\ 2 * (cur - Quarter) < UIntMod
    BY <1>1, <1>2, <1>3, QuarterFacts, Numbers
  <2>2. cur + Quarter \in Nat /\ 2 * (cur + Quarter) < UIntMod
    BY <1>1, <1>2, <1>3, QuarterFacts, Numbers
  <2> QED  BY <2>1, <2>2, ToIntSame
<1>5. (cur = target /\ Depleted(kf, target)) => JustAbove(kf) \in PeriodSize .. top
  <2> SUFFICES ASSUME cur = target, Depleted(kf, target) PROVE JustAbove(kf) \in PeriodSize .. top
    OBVIOUS
  <2>1. kf \in Nat
    BY DEF target
  <2> QED  BY <1>1, <2>1, JustAboveFacts DEF top
<1>6. NextThreshold(cur, target, kf) \in PeriodSize .. top
  <2>1. CASE cur > target
    <3>1. NextThreshold(cur, target, kf) = IF cur - Quarter < target THEN target ELSE cur - Quarter
      BY <2>1, <1>1, <1>3, <1>4 DEF NextThreshold
    <3> QED  BY <3>1, <2>1, <1>1, <1>3, QuarterFacts, Numbers
  <2>2. CASE cur < target
    <3>1. NextThreshold(cur, target, kf) = IF cur + Quarter > target THEN target ELSE cur + Quarter
      BY <2>2, <1>1, <1>3, <1>4 DEF NextThreshold
    <3> QED  BY <3>1, <2>2, <1>1, <1>3, QuarterFacts, Numbers
  <2>3. CASE cur = target
    <3>1. NextThreshold(cur, target, kf) = IF Depleted(kf, target) THEN JustAbove(kf) ELSE cur
      BY <2>3, <1>1, <1>3 DEF NextThreshold
    <3> QED  BY <3>1, <2>3, <1>1, <1>3, <1>5, Numbers
  <2> QED  BY <2>1, <2>2, <2>3, <1>1, <1>3
<1> QED  BY <1>6 DEF target, top

\* AdaptThreshold() keeps the thresholds right.
LEMMA AdaptInRange ==
  ASSUME TypeOK, Thresholds, NEW type \in {"short", "long"}, AdaptThreshold(type)
  PROVE  buffer_type' = type /\ write_threshold' = Threshold(type)
         /\ (~unread' => cur_write_threshold' \in PeriodSize .. PeriodSize * LongCount)
<1> DEFINE target == IF type # buffer_type THEN Threshold(type) ELSE write_threshold
           reset  == type # buffer_type /\ buffer_type = "unknown"
           cur    == IF reset THEN target ELSE cur_write_threshold
<1>1. buffer_type' = type /\ write_threshold' = target
  BY DEF AdaptThreshold
<1>2. target = Threshold(type)
  BY DEF Thresholds
<1>3. PICK kf \in KernelFrames \cup Garbage :
        /\ cur_write_threshold' = NextThreshold(cur, target, kf)
        /\ ~unread' => reset \/ ~unread
        /\ kf \in KernelFrames \/ (~unread' => cur # target)
  BY DEF AdaptThreshold
<1>4. kf \in Int /\ (kf \in KernelFrames => kf \in Nat)
  BY SizesAssumption
<1>5. Threshold(type) \in PeriodSize .. PeriodSize * LongCount
  BY ThresholdFacts, Numbers
<1>6. ASSUME ~unread' PROVE cur \in PeriodSize .. PeriodSize * LongCount
  <2>1. CASE reset
    BY <2>1, <1>2, <1>5
  <2>2. CASE ~reset
    <3>1. ~unread /\ buffer_type # "unknown"
      BY <1>3, <1>6, <2>2
    <3> QED  BY <2>2, <3>1 DEF Thresholds, ThresholdInRange
  <2> QED  BY <2>1, <2>2
<1> HIDE DEF cur, target, reset
<1>7. ASSUME ~unread' PROVE cur_write_threshold' \in PeriodSize .. PeriodSize * LongCount
  BY <1>2, <1>3, <1>4, <1>6, <1>7, NextInRange
<1> QED  BY <1>1, <1>2, <1>7

\* Every step keeps the thresholds right.
LEMMA NextThresholds ==
  ASSUME IInv, Thresholds, [Next]_vars
  PROVE  Thresholds'
<1>1. CASE UNCHANGED vars
  BY <1>1 DEF vars, Thresholds, ThresholdInRange
<1>2. ASSUME NEW t \in Threads, Call(t) \/ Step(t) PROVE Thresholds'
  <2>a. thread \in [Threads -> ThreadState]
    BY DEF IInv, TypeOK
  \* The buffer type is chosen before the samples are written.
  <2>1. (\A u \in Threads : thread[u].pc = "io" => thread[u].btype \in {"short", "long"})'
    <3>1. \/ Return(t) \/ UNCHANGED thread
          \/ \E pc \in {"stream", "peer", "open", "exit", "free"} : Goto(t, pc)
          \/ \E act : Started(t, act)
          \/ \E op, s, arg : Enter(t, op, s, arg)
      <4>1. CASE Call(t)
        BY <4>1 DEF Call
      <4>2. CASE Open(t) \/ Free(t) \/ Transfer(t) \/ Exit(t) \/ RouteStandby(t) \/ SetOrientation(t)
        BY <4>2 DEF Open, Free, Transfer, Exit, RouteStandby, SetOrientation
      <4>3. CASE LockDevice(t) \/ Route(t) \/ Standby(t)
        BY <4>3 DEF LockDevice, Route, Standby
      <4>4. CASE StartStream(t) \/ CheckPeer(t) \/ PcmOpenFails(t)
        BY <4>4 DEF StartStream, CheckPeer, PcmOpenFails
      <4>5. CASE AlreadyStarted(t) \/ PcmOpen(t)
        BY <4>5 DEF AlreadyStarted, PcmOpen
      <4> QED  BY <1>2, <4>1, <4>2, <4>3, <4>4, <4>5 DEF Step
    <3>2. CASE Return(t)
      BY <3>2, <2>a, IdleFacts DEF Return, Thresholds
    <3>3. CASE UNCHANGED thread
      BY <3>3 DEF Thresholds
    <3>4. CASE \E pc \in {"stream", "peer", "open", "exit", "free"} : Goto(t, pc)
      BY <3>4, <2>a DEF Goto, Thresholds, ThreadState
    <3>5. ASSUME NEW act, Started(t, act)
          PROVE  (\A u \in Threads : thread[u].pc = "io" => thread[u].btype \in {"short", "long"})'
      <4>1. thread'[t].btype \in {"short", "long"} /\ \A u \in Threads \ {t} : thread'[u] = thread[u]
        BY <3>5, <2>a DEF Started, ThreadState
      <4> QED  BY <4>1 DEF Thresholds
    <3>6. ASSUME NEW op, NEW s, NEW arg, Enter(t, op, s, arg)
          PROVE  (\A u \in Threads : thread[u].pc = "io" => thread[u].btype \in {"short", "long"})'
      <4>1. thread'[t].pc = "device" /\ \A u \in Threads \ {t} : thread'[u] = thread[u]
        BY <3>6, <2>a DEF Enter, Idle
      <4> QED  BY <4>1 DEF Thresholds
    <3> QED  BY <3>1, <3>2, <3>3, <3>4, <3>5, <3>6
  <2>2. \/ UNCHANGED threshold
        \/ buffer_type' = "unknown"
        \/ thread[t].pc = "io" /\ AdaptThreshold(thread[t].btype)
    <3>1. CASE Call(t)
      BY <3>1 DEF Call, Enter
    <3>2. CASE Open(t) \/ Free(t) \/ Exit(t) \/ RouteStandby(t) \/ SetOrientation(t)
      BY <3>2 DEF Open, Free, Exit, RouteStandby, SetOrientation
    <3>3. CASE LockDevice(t) \/ Route(t) \/ Standby(t) \/ Transfer(t)
      BY <3>3 DEF LockDevice, Route, Standby, Transfer, At
    <3>4. CASE StartStream(t) \/ CheckPeer(t) \/ PcmOpenFails(t) \/ AlreadyStarted(t) \/ PcmOpen(t)
      BY <3>4 DEF StartStream, CheckPeer, PcmOpenFails, AlreadyStarted, PcmOpen
    <3> QED  BY <1>2, <3>1, <3>2, <3>3, <3>4 DEF Step
  <2>3. CASE UNCHANGED threshold
    BY <2>1, <2>3 DEF Thresholds, ThresholdInRange
  <2>4. CASE buffer_type' = "unknown"
    BY <2>1, <2>4 DEF Thresholds, ThresholdInRange
  <2>5. CASE thread[t].pc = "io" /\ AdaptThreshold(thread[t].btype)
    <3>1. thread[t].btype \in {"short", "long"} /\ TypeOK
      BY <2>5 DEF Thresholds, IInv
    <3>2. buffer_type' = thread[t].btype /\ write_threshold' = Threshold(thread[t].btype)
          /\ (~unread' => cur_write_threshold' \in PeriodSize .. PeriodSize * LongCount)
      BY <2>5, <3>1, AdaptInRange
    <3> QED  BY <2>1, <3>2 DEF Thresholds, ThresholdInRange
  <2> QED  BY <2>2, <2>3, <2>4, <2>5
<1> QED  BY <1>1, <1>2 DEF Next

\* The threshold of out_write() stays between one period and the long buffer for every size of
\* the periods and every filling the kernel reports, unless kernel_frames is used unread.
THEOREM SpecThresholdInRange == Spec => []ThresholdInRange
<1>1. Init => Thresholds
  BY IdleFacts DEF Init, Thresholds, ThresholdInRange
<1>2. IInv /\ Thresholds /\ [Next]_vars => Thresholds'
  BY NextThresholds
<1>3. Thresholds => ThresholdInRange
  BY DEF Thresholds
<1> QED  BY <1>1, <1>2, <1>3, SpecIInv, PTL DEF Spec
=============================================================================
