------------------------------ MODULE AudioHal ------------------------------
(***************************************************************************)
(* The primary audio HAL (Device/audio/audio_hw.c): one output and one     *)
(* input stream, used by several threads of the audio server under a       *)
(* device lock and a lock per stream.  Starting a stream may put the other *)
(* one into standby, because all open PCMs must use one group of rates.    *)
(*                                                                         *)
(* An action is what a thread does from one lock operation to the next.    *)
(* A device mask is a set of devices; BIT_IN is an element of it.  The     *)
(* samples themselves, and the resampler that turns them over, are left    *)
(* out; the write threshold of out_write() is kept.                        *)
(***************************************************************************)
EXTENDS Integers

CONSTANTS
  Threads,      \* the threads of the audio server
  NoThread,     \* the owner of a free lock
  Routes,       \* for each stream, the device masks it may be routed to
  InRates,      \* the sample rates an input stream may be opened with
  PeriodSize,   \* pcm_config_out.period_size
  ShortCount,   \* pcm_config_out.period_count
  LongCount,    \* pcm_config_out_lp.period_count
  KernelFrames, \* the filling of the kernel buffer that pcm_get_htimestamp() may report
  Garbage,      \* what the uninitialised kernel_frames may hold
  UIntMod       \* 2^32: unsigned int wraps here

Streams == {"out", "in"}
Devices == {"BIT_IN", "speaker", "headphone", "hdmi", "sco", "mic", "headset"}
Configs == {"out", "hdmi", "in", "sco"}
Peer(s) == IF s = "out" THEN "in" ELSE "out"

\* The rates of pcm_config_out, _hdmi, _in and _sco.
Rate == [c \in Configs |-> CASE c \in {"out", "in"} -> 44100 [] c = "hdmi" -> 48000 [] c = "sco" -> 8000]

ASSUME ThreadsAssumption == NoThread \notin Threads
ASSUME RoutesAssumption  == Routes \in [Streams -> SUBSET SUBSET (Devices \ {"BIT_IN"})]
ASSUME RatesAssumption   == InRates \subseteq Nat \ {0}
ASSUME SizesAssumption   ==
  /\ PeriodSize \in Nat \ {0} /\ PeriodSize % 4 = 0
  /\ ShortCount \in Nat \ {0} /\ LongCount \in Nat /\ LongCount >= ShortCount
  /\ UIntMod \in Nat \ {0}
  /\ \A n \in {ShortCount, LongCount} : 2 * (PeriodSize * (n + 1)) < UIntMod
  /\ KernelFrames \subseteq Nat /\ Garbage \subseteq Int

VARIABLES
  adev_lock,     \* owner of the lock of the device
  device,        \* out_device and in_device
  active,        \* active_out and active_in: TRUE if they point to the stream
  mixer,         \* the paths applied to the mixer
  stream,        \* the two streams
  buffer_type, write_threshold, cur_write_threshold,   \* of the output stream
  thread,        \* what each thread is doing
  unread         \* history: the threshold was computed from an unread kernel_frames

threshold == <<buffer_type, write_threshold, cur_write_threshold, unread>>
vars      == <<adev_lock, device, active, mixer, stream, threshold, thread>>

\* A thread between two calls, and a stream that is not allocated.
Idle   == [op |-> "none", s |-> "out", pc |-> "idle", arg |-> {}, btype |-> "unknown", sco |-> FALSE]
Absent == [alive |-> FALSE, lock |-> NoThread, pcm |-> "null", config |-> "out",
           standby |-> TRUE, resampler |-> FALSE, rate |-> Rate["out"]]

\* adev_open()
Init ==
  /\ adev_lock = NoThread
  /\ device = [s \in Streams |-> IF s = "out" THEN {"speaker"} ELSE {"mic"}]
  /\ active = [s \in Streams |-> FALSE]
  /\ mixer = [s \in Streams |-> {}]
  /\ stream = [s \in Streams |-> Absent]
  /\ buffer_type = "unknown" /\ write_threshold = 0 /\ cur_write_threshold = 0
  /\ thread = [t \in Threads |-> Idle]
  /\ unread = FALSE

-----------------------------------------------------------------------------
(***************************************************************************)
(* The audio server (external).  Any thread calls any function of a stream *)
(* that is open; a stream is closed only when no other call to it is going *)
(* on, and there is one stream of each kind at a time.                     *)
(***************************************************************************)
Busy(s) == \E t \in Threads : thread[t].op # "none" /\ thread[t].s = s

Enter(t, op, s, arg) ==
  /\ thread[t] = Idle
  /\ thread' = [thread EXCEPT ![t] = [Idle EXCEPT !.op = op, !.s = s, !.pc = "device", !.arg = arg]]
  /\ UNCHANGED <<adev_lock, device, active, mixer, stream, threshold>>

Closing(s) == \E t \in Threads : thread[t].op = "close" /\ thread[t].s = s

Call(t) ==
  \E s \in Streams :
    \/ /\ stream[s].alive /\ ~Closing(s)
       /\ \/ Enter(t, "transfer", s, {})                    \* out_write(), in_read()
          \/ Enter(t, "standby", s, {})                     \* out_standby(), in_standby()
          \/ \E d \in Routes[s] : Enter(t, "route", s, d)   \* *_set_parameters(routing=d)
    \/ stream[s].alive /\ ~Busy(s) /\ Enter(t, "close", s, {})
    \/ ~stream[s].alive /\ ~Busy(s) /\ \E d \in Routes[s] : Enter(t, "open", s, d)

-----------------------------------------------------------------------------
At(t, pc, ops) == thread[t].pc = pc /\ thread[t].op \in ops
Return(t)      == thread' = [thread EXCEPT ![t] = Idle]
Goto(t, pc)    == thread' = [thread EXCEPT ![t].pc = pc]

\* select_devices(): SCO devices have no path in dev_names.
select_devices(dev) == [s \in Streams |-> dev[s] \ {"BIT_IN", "sco"}]

\* do_out_standby(), do_in_standby()
do_standby(st) ==
  IF st.standby THEN st
  ELSE [st EXCEPT !.pcm = "null", !.resampler = FALSE, !.standby = TRUE]

KeptActive(s) == active                                             \* mutant: not cleared
ClearedActive(s) == [active EXCEPT ![s] = @ /\ stream[s].standby]

\* adev_open_output_stream(), adev_open_input_stream()
Open(t) ==
  LET s == thread[t].s
  IN  /\ At(t, "device", {"open"}) /\ adev_lock = NoThread
      /\ device' = [device EXCEPT ![s] = thread[t].arg \cup (IF s = "in" THEN {"BIT_IN"} ELSE {})]
      /\ mixer' = select_devices(device')
      /\ \E r \in IF s = "in" THEN InRates ELSE {Rate["out"]} :
           stream' = [stream EXCEPT ![s] = [Absent EXCEPT !.alive = TRUE, !.rate = r, !.config = s]]
      /\ IF s = "out"
         THEN /\ buffer_type' = "unknown" /\ write_threshold' = 0 /\ cur_write_threshold' = 0
              /\ unread' = FALSE
         ELSE UNCHANGED threshold
      /\ Return(t)
      /\ UNCHANGED <<adev_lock, active>>

\* Every other call that needs the stream takes the device lock first.
LockDevice(t) ==
  /\ At(t, "device", {"transfer", "standby", "close"}) /\ adev_lock = NoThread
  /\ adev_lock' = t
  /\ Goto(t, "stream")
  /\ UNCHANGED <<device, active, mixer, stream, threshold>>

\* adev_set_parameters() with a new orientation.  Which one it is has no effect.
SetOrientation(t) ==
  /\ thread[t] = Idle /\ adev_lock = NoThread
  /\ mixer' = select_devices(device)
  /\ UNCHANGED <<adev_lock, device, active, stream, threshold, thread>>

-----------------------------------------------------------------------------
(***************************************************************************)
(* out_set_parameters(), in_set_parameters(): AUDIO_DEVICE_IN_ALL_SCO has  *)
(* BIT_IN in it, the new mask never has.                                   *)
(***************************************************************************)
AllSco(s)  == IF s = "in" THEN {"BIT_IN", "sco"} ELSE {"sco"}
Changes(t) == thread[t].arg # device[thread[t].s] /\ thread[t].arg # {}

NeverToggled(t) == FALSE                                            \* mutant
ScoToggled(t) ==
  LET s == thread[t].s
  IN  thread[t].arg \cap AllSco(s) # device[s] \cap AllSco(s)

Routed(t) ==
  /\ device' = [device EXCEPT ![thread[t].s] = thread[t].arg]
  /\ mixer' = select_devices(device')

Route(t) ==
  /\ At(t, "device", {"route"}) /\ adev_lock = NoThread
  /\ \/ ~Changes(t) /\ Return(t) /\ UNCHANGED <<adev_lock, device, mixer>>
     \/ Changes(t) /\ ~ScoToggled(t) /\ Routed(t) /\ Return(t) /\ UNCHANGED adev_lock
     \/ Changes(t) /\ ScoToggled(t) /\ adev_lock' = t /\ Goto(t, "stream")
          /\ UNCHANGED <<device, mixer>>
  /\ UNCHANGED <<active, stream, threshold>>

\* do_*_standby() under both locks, then everything is unlocked.
RouteStandby(t) ==
  LET s == thread[t].s
  IN  /\ At(t, "stream", {"route"}) /\ stream[s].lock = NoThread
      /\ stream' = [stream EXCEPT ![s] = do_standby(@)]
      /\ active' = ClearedActive(s)
      /\ Routed(t)
      /\ adev_lock' = NoThread
      /\ Return(t)
      /\ UNCHANGED <<threshold>>

\* out_standby(), in_standby(), also as the first part of closing a stream.
Standby(t) ==
  LET s == thread[t].s
  IN  /\ At(t, "stream", {"standby", "close"}) /\ stream[s].lock = NoThread
      /\ stream' = [stream EXCEPT ![s] = do_standby(@)]
      /\ active' = ClearedActive(s)
      /\ adev_lock' = NoThread
      /\ IF thread[t].op = "close" THEN Goto(t, "free") ELSE Return(t)
      /\ UNCHANGED <<device, mixer, threshold>>

Free(t) ==
  /\ At(t, "free", {"close"})
  /\ stream' = [stream EXCEPT ![thread[t].s] = Absent]
  /\ Return(t)
  /\ UNCHANGED <<adev_lock, device, active, mixer, threshold>>

-----------------------------------------------------------------------------
(***************************************************************************)
(* out_write(), in_read().                                                 *)
(***************************************************************************)
\* The end of the part under the device lock: what out_write() reads before it unlocks.
\* adev_set_parameters() sets screen_off without a lock, so what is found in it is a choice.
Started(t, act) ==
  /\ \E screen_off \in BOOLEAN :
       thread' = [thread EXCEPT
         ![t].pc = "io",
         ![t].btype = IF thread[t].s = "out" /\ screen_off /\ ~act["in"] THEN "long" ELSE "short",
         ![t].sco = (thread[t].s = "out" /\ "sco" \in device["out"])]
  /\ adev_lock' = NoThread

AlreadyStarted(t) ==
  LET s == thread[t].s
  IN  /\ At(t, "stream", {"transfer"}) /\ stream[s].lock = NoThread
      /\ ~stream[s].standby
      /\ stream' = [stream EXCEPT ![s].lock = t]
      /\ Started(t, active)
      /\ UNCHANGED <<device, active, mixer, threshold>>

\* start_output_stream(), start_input_stream(): the configuration is chosen first.
StartConfig(s) == IF s = "out" THEN (IF "hdmi" \in device[s] THEN "hdmi" ELSE "out")
                  ELSE (IF "sco" \in device[s] THEN "sco" ELSE "in")

StartStream(t) ==
  LET s == thread[t].s
  IN  /\ At(t, "stream", {"transfer"}) /\ stream[s].lock = NoThread
      /\ stream[s].standby
      /\ stream' = [stream EXCEPT ![s].lock = t, ![s].config = StartConfig(s)]
      /\ buffer_type' = IF s = "out" /\ StartConfig(s) = "out" THEN "unknown" ELSE buffer_type
      /\ Goto(t, IF active[Peer(s)] THEN "peer" ELSE "open")
      /\ UNCHANGED <<adev_lock, device, active, mixer, write_threshold,
                     cur_write_threshold, unread>>

\* "All open PCMs can only use a single group of rates at once"
ConflictOneWay(a, b) == a % 8000 = 0 /\ b % 8000 # 0                \* mutant
Conflict(a, b) == (a % 8000 = 0 /\ b % 8000 # 0) \/ (a % 11025 = 0 /\ b % 11025 # 0)

\* Mutant: the lock of the other stream is not taken.
CheckPeerUnlocked(t) ==
  LET s == thread[t].s
      p == Peer(s)
      c == Conflict(Rate[stream[s].config], Rate[stream[p].config])
  IN  /\ At(t, "peer", {"transfer"})
      /\ stream' = IF c THEN [stream EXCEPT ![p] = do_standby(@)] ELSE stream
      /\ active' = IF c THEN ClearedActive(p) ELSE active
      /\ Goto(t, "open")
      /\ UNCHANGED <<adev_lock, device, mixer, threshold>>

CheckPeer(t) ==
  LET s == thread[t].s
      p == Peer(s)
      c == Conflict(Rate[stream[s].config], Rate[stream[p].config])
  IN  /\ At(t, "peer", {"transfer"}) /\ stream[p].lock = NoThread
      /\ stream' = IF c THEN [stream EXCEPT ![p] = do_standby(@)] ELSE stream
      /\ active' = IF c THEN ClearedActive(p) ELSE active
      /\ Goto(t, "open")
      /\ UNCHANGED <<adev_lock, device, mixer, threshold>>

\* pcm_open() succeeds, and with it create_resampler() and malloc(), whose results are not
\* looked at.
PcmOpen(t) ==
  LET s == thread[t].s
  IN  /\ At(t, "open", {"transfer"})
      /\ stream' = [stream EXCEPT ![s].pcm = "open", ![s].standby = FALSE,
                                  ![s].resampler = (stream[s].rate # Rate[stream[s].config])]
      /\ active' = [active EXCEPT ![s] = TRUE]
      /\ Started(t, active')
      /\ UNCHANGED <<device, mixer, threshold>>

\* pcm_open() fails: pcm is left pointing to a closed PCM, the stream stays in standby.
PcmOpenFailsLocked(t) ==                                            \* mutant: no unlock
  /\ At(t, "open", {"transfer"})
  /\ stream' = [stream EXCEPT ![thread[t].s].pcm = "closed"]
  /\ Goto(t, "exit")
  /\ UNCHANGED <<adev_lock, device, active, mixer, threshold>>

PcmOpenFails(t) ==
  /\ At(t, "open", {"transfer"})
  /\ stream' = [stream EXCEPT ![thread[t].s].pcm = "closed"]
  /\ adev_lock' = NoThread
  /\ Goto(t, "exit")
  /\ UNCHANGED <<device, active, mixer, threshold>>

-----------------------------------------------------------------------------
(***************************************************************************)
(* The write threshold of out_write().                                     *)
(***************************************************************************)
Quarter         == PeriodSize \div 4
Threshold(type) == PeriodSize * (IF type = "long" THEN LongCount ELSE ShortCount)

AsIs(x)  == x % UIntMod                                             \* mutant
ToInt(x) == LET u == x % UIntMod IN IF 2 * u < UIntMod THEN u ELSE u - UIntMod

\* "just above current filling status": kernel_frames / period_size is a division of size_t.
JustBelow(kf) == ToInt(((kf % UIntMod) \div PeriodSize) * PeriodSize + Quarter)   \* mutant
JustAbove(kf) == ToInt((((kf % UIntMod) \div PeriodSize) + 1) * PeriodSize + Quarter)

Depleted(kf, target) == kf < target /\ target - kf > PeriodSize * ShortCount

\* cur_write_threshold moves by a quarter of a period towards write_threshold.
NextThreshold(cur, target, kf) ==
  CASE cur > target -> IF ToInt(cur - Quarter) < target THEN target ELSE ToInt(cur - Quarter)
    [] cur < target -> IF ToInt(cur + Quarter) > target THEN target ELSE ToInt(cur + Quarter)
    [] cur = target /\ Depleted(kf, target)  -> JustAbove(kf)
    [] cur = target /\ ~Depleted(kf, target) -> cur

\* kernel_frames stays uninitialised when the first pcm_get_htimestamp() fails.
AdaptThreshold(type) ==
  LET changed == type # buffer_type
      target  == IF changed THEN Threshold(type) ELSE write_threshold
      reset   == changed /\ buffer_type = "unknown"
      cur     == IF reset THEN target ELSE cur_write_threshold
  IN  /\ buffer_type' = type
      /\ write_threshold' = target
      /\ \/ \E kf \in KernelFrames :
              /\ cur_write_threshold' = NextThreshold(cur, target, kf)
              /\ unread' = (unread /\ ~reset)
         \/ \E kf \in Garbage :
              /\ cur_write_threshold' = NextThreshold(cur, target, kf)
              /\ unread' = ((unread /\ ~reset) \/ cur = target)

\* Buffer size and threshold are adapted unless SCO is on; pcm_mmap_write() and pcm_read() may
\* fail, which changes nothing.
Transfer(t) ==
  LET s == thread[t].s
  IN  /\ At(t, "io", {"transfer"})
      /\ IF s = "out" /\ ~thread[t].sco THEN AdaptThreshold(thread[t].btype) ELSE UNCHANGED threshold
      /\ stream' = [stream EXCEPT ![s].lock = NoThread]
      /\ Return(t)
      /\ UNCHANGED <<adev_lock, device, active, mixer>>

Exit(t) ==
  /\ At(t, "exit", {"transfer"})
  /\ stream' = [stream EXCEPT ![thread[t].s].lock = NoThread]
  /\ Return(t)
  /\ UNCHANGED <<adev_lock, device, active, mixer, threshold>>

-----------------------------------------------------------------------------
Step(t) ==
  \/ Open(t) \/ LockDevice(t) \/ Route(t) \/ RouteStandby(t) \/ Standby(t) \/ Free(t)
  \/ AlreadyStarted(t) \/ StartStream(t) \/ CheckPeer(t) \/ PcmOpen(t) \/ PcmOpenFails(t)
  \/ Transfer(t) \/ Exit(t) \/ SetOrientation(t)

Next == \E t \in Threads : Call(t) \/ Step(t)

Spec == Init /\ [][Next]_vars

-----------------------------------------------------------------------------
(***************************************************************************)
(* Properties.                                                             *)
(***************************************************************************)
Owners == Threads \cup {NoThread}

StreamState == [alive : BOOLEAN, lock : Owners, pcm : {"null", "open", "closed"}, config : Configs,
                standby : BOOLEAN, resampler : BOOLEAN, rate : Nat]

ThreadState == [op : {"none", "transfer", "standby", "route", "close", "open"}, s : Streams,
                pc : {"idle", "device", "stream", "peer", "open", "io", "exit", "free"},
                arg : SUBSET Devices, btype : {"unknown", "short", "long"}, sco : BOOLEAN]

\* Every variable keeps its type; the threshold stays an int.
TypeOK ==
  /\ adev_lock \in Owners
  /\ device \in [Streams -> SUBSET Devices] /\ mixer \in [Streams -> SUBSET Devices]
  /\ unread \in BOOLEAN
  /\ active \in [Streams -> BOOLEAN]
  /\ stream \in [Streams -> StreamState] /\ thread \in [Threads -> ThreadState]
  /\ buffer_type \in {"unknown", "short", "long"}
  /\ write_threshold \in Nat /\ 2 * write_threshold < UIntMod
  /\ cur_write_threshold \in Int /\ 2 * cur_write_threshold < UIntMod

\* The thread that t waits for, or NoThread.
WaitsFor(t) ==
  CASE thread[t].pc = "device" -> adev_lock
    [] thread[t].pc = "stream" -> stream[thread[t].s].lock
    [] thread[t].pc = "peer"   -> stream[Peer(thread[t].s)].lock
    [] OTHER                   -> NoThread

\* "always take the audio_device mutex first": no set of threads waits for each other, and
\* no call ends with a lock taken.
NoWaitCycle ==
  \A T \in SUBSET Threads : T # {} => \E t \in T : WaitsFor(t) \notin T

\* A PCM is read or written only while it is open and with the resampler its rate needs,
\* although another thread may put the stream into standby between any two calls.
PcmReady ==
  \A t \in Threads : thread[t].pc = "io" =>
    LET st == stream[thread[t].s]
    IN  /\ st.alive /\ st.lock = t
        /\ st.pcm = "open" /\ ~st.standby
        /\ st.resampler = (st.rate # Rate[st.config])

\* "All open PCMs can only use a single group of rates at once", at every moment, also in
\* the middle of a start.
OneRateGroup ==
  (stream["out"].pcm = "open" /\ stream["in"].pcm = "open") =>
    \E group \in {8000, 11025} : \A s \in Streams : Rate[stream[s].config] % group = 0

\* Nothing points to a freed stream: active_out and active_in only to a stream that is
\* allocated and not in standby, and no thread holds or awaits the lock of a freed one.
NoDangling ==
  /\ \A s \in Streams : active[s] => stream[s].alive /\ ~stream[s].standby
  /\ \A t \in Threads :
       /\ thread[t].pc \in {"stream", "peer", "open", "io", "exit"} => stream[thread[t].s].alive
       /\ thread[t].pc = "peer" => stream[Peer(thread[t].s)].alive

\* Whenever the device lock is free: an open stream is the active one, the input PCM is the
\* SCO one exactly when the input is routed to SCO, and the mixer has the paths of the routed
\* devices.
Settled ==
  adev_lock = NoThread =>
    /\ \A s \in Streams : stream[s].pcm = "open" <=> active[s]
    /\ stream["in"].pcm = "open" => (stream["in"].config = "sco" <=> "sco" \in device["in"])
    /\ \A s \in Streams : stream[s].alive => mixer[s] = device[s] \ {"BIT_IN", "sco"}

\* Once computed, and unless kernel_frames was used without having been read, the threshold of
\* out_write() lies between one period and the long buffer.
ThresholdInRange ==
  (buffer_type # "unknown" /\ ~unread) =>
    cur_write_threshold \in PeriodSize .. PeriodSize * LongCount

-----------------------------------------------------------------------------
(***************************************************************************)
(* The inductive invariant behind the properties above.                    *)
(***************************************************************************)
\* Who holds which lock follows from where each thread is.
Locks ==
  \A t \in Threads :
    /\ adev_lock = t <=> thread[t].pc \in {"stream", "peer", "open"}
    /\ \A s \in Streams :
         stream[s].lock = t <=> thread[t].s = s /\ thread[t].pc \in {"peer", "open", "io", "exit"}

\* Calls go to allocated streams, and opening or closing a stream excludes other calls to it.
Calls ==
  \A t \in Threads :
    /\ thread[t].op = "none" <=> thread[t].pc = "idle"
    /\ thread[t].pc \in {"peer", "open", "io", "exit"} => thread[t].op = "transfer"
    /\ thread[t].pc = "free" => thread[t].op = "close" /\ stream[thread[t].s].standby
    /\ thread[t].op = "open" => ~stream[thread[t].s].alive /\ thread[t].pc = "device"
    /\ thread[t].op \in {"transfer", "standby", "route", "close"} => stream[thread[t].s].alive
    /\ thread[t].op \in {"open", "close"} =>
         \A u \in Threads \ {t} : thread[u].op # "none" => thread[u].s # thread[t].s

\* The parts of a stream agree with each other.
StreamOK(s) ==
  /\ stream[s].pcm = "open" <=> ~stream[s].standby
  /\ active[s] <=> ~stream[s].standby
  /\ ~stream[s].standby => stream[s].alive
  /\ stream[s].resampler = (~stream[s].standby /\ stream[s].rate # Rate[stream[s].config])
  /\ stream[s].alive => stream[s].config \in IF s = "out" THEN {"out", "hdmi"} ELSE {"in", "sco"}
  /\ stream[s].alive => mixer[s] = device[s] \ {"BIT_IN", "sco"}

\* A stream that is being started is in standby, has the configuration of its route and, once
\* the other stream has been looked at, agrees with it.
Agree(s, p) == ~Conflict(Rate[stream[s].config], Rate[stream[p].config])

Starting ==
  \A t \in Threads :
    LET s == thread[t].s
    IN  /\ thread[t].pc \in {"peer", "open"} => stream[s].standby /\ stream[s].config = StartConfig(s)
        /\ thread[t].pc = "peer" => ~stream[Peer(s)].standby
        /\ thread[t].pc = "open" => stream[Peer(s)].standby \/ Agree(s, Peer(s))
        /\ thread[t].pc = "io" => ~stream[s].standby

InputRoute == ~stream["in"].standby => (stream["in"].config = "sco" <=> "sco" \in device["in"])

Rates == (~stream["out"].standby /\ ~stream["in"].standby) => Agree("out", "in") /\ Agree("in", "out")

\* The thresholds of out_write(): the target is that of the buffer type, and the current one has
\* a range as long as kernel_frames was read before it was used.
Thresholds ==
  /\ buffer_type # "unknown" => write_threshold = Threshold(buffer_type)
  /\ ThresholdInRange
  /\ \A t \in Threads : thread[t].pc = "io" => thread[t].btype \in {"short", "long"}

IInv ==
  /\ TypeOK /\ Locks /\ Calls /\ (\A s \in Streams : StreamOK(s))
  /\ Starting /\ InputRoute /\ Rates
=============================================================================
