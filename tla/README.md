# Verification of the Kindle Fire HD 7 boot loader and device code

The repository holds the U-Boot boot loader of the Kindle Fire HD 7 ("bowser",
OMAP4) under `CustomUboot/`, the Android device tree with its hardware
abstraction layers under `Device/`, and a large amount of unchanged third-party
code. This directory models the parts that are this device's own: what the boot
loader writes to the eMMC, when, and what is left when a cable is pulled, power
is cut or the storage fails; how the threads of the audio server share the
streams of the audio HAL; and how the sensors HAL turns the calls of the
framework into settings of the chips and brings their events back.

## 1. Inventory

| Component | Source | State | Operations | Interacts with |
|---|---|---|---|---|
| Sparse image expander | `CustomUboot/cpu/omap4/sparse.c` | the static `state`: chunks left, offset in the chunk, target sector, the last chunk header, a partly filled sector | `do_unsparse_start`, `do_unsparse_process` | called by `write_to_ptn_emmc`; writes the eMMC |
| Fastboot command layer | `CustomUboot/common/cmd_fastboot.c` | `download_size`, `download_bytes`, the transfer buffer, `multiflash_ptn`, `multiflash_offset`, `mmcwrite_is_sparsed`, the partition list | `rx_handler`: download, data, flash, mmcwrite, multiflash, erase, mmcerase, oem, reboot, continue, boot | host over USB; sparse expander; partition table; idme |
| Device variables (idme) | `CustomUboot/common/cmd_idme.c` | two copies on the eMMC, in a hardware boot partition and in the user area | `idme_update_vars_ex`, `idme_select_boot_image`, `do_idme` | running system (through the user copy); fastboot; `do_booti` |
| Partition table | `CustomUboot/board/bowser/mmc.c` | GPT on the eMMC, the table being built, two static sector buffers, fastboot's list | `load_ptbl`, `do_format`, `add_ptn`, `import_efi_partition` | fastboot (`oem format`, the list), `board_late_init`, the eMMC driver |
| eMMC driver | `CustomUboot/cpu/omap4/mmc.c`, `common/cmd_mmc.c` | the addressed hardware partition | read, write, erase, `mmc_sw_part` | all of the above |
| Boot flow and menu | `CustomUboot/common/main.c`, `cmd_bootm.c` | the selected entry, the nesting of calls | autoboot, menu, `do_booti`, `do_fastboot` | idme, fastboot |
| Fastboot USB layer | `CustomUboot/drivers/fastboot.c` | endpoint and fifo state | `fastboot_poll`, `fastboot_rx`, `fastboot_tx_status` | `rx_handler` |
| Charging while off | `CustomUboot/drivers/battery_loop.c` | the charging loop | `battery_loop` | its only call is commented out |
| Audio HAL | `Device/audio/audio_hw.c` | open streams, standby, routing, the write threshold, a device lock and a lock per stream | open, close, write, read, standby, set_parameters | threads of the audio server; the two streams with each other |
| HDMI audio HAL | `Device/audio/hdmi_audio_hw.c` | one stream, one lock | open, write, standby | audio server |
| Sensors HAL | `Device/libsensors/` | a circular buffer of light events, `revents` kept from call to call, enabled sensors | activate, setDelay, poll | two drivers, a wake pipe, two threads of the framework |
| Motion sensors | `Device/libsensors_iio/MPLSensor.cpp` | enabled sensors, a delay each, the sysfs files of one chip | enable, setDelay, reading | the framework, the chip's driver, mllite |
| mllite | `Device/libsensors_iio/software/` | calibration and fusion | numerical | third-party, called by the motion sensors |
| Power, lights HAL | `Device/power/`, `Device/liblights/` | sysfs files | hints, brightness | one lock each |
| Release tools | `Device/releasetools/` | none | script generators | build machine only |
| Board set-up, rest of U-Boot | `CustomUboot/` | - | - | unchanged or register writes |

What is hard here, and what correctness means for each part:

* **Sparse expander.** Resuming: a section may end inside a chunk header or
  inside a sector, and static variables survive from one image to the next.
  Correct: every sector of every raw chunk is written once the image has been
  accepted, nothing else is, no sector is put together from the wrong bytes, a
  good image is not refused, and the loop ends.
* **Fastboot.** A host that disappears between any two packets and comes back
  with something else; flags and offsets kept over commands; a storage that
  fails half-way; 32-bit sums; sparse images, whose expanded size is checked
  nowhere. Correct: success means the image is in the partition, and nothing
  outside the named partition changes unless the image itself says so.
* **idme.** Power cuts between two blocks of either copy, a signature that lies
  across two blocks, storage faults that leave the eMMC addressing the wrong
  hardware partition, a host editing one copy in between. Correct: no requested
  update is lost, none is applied twice, no identity variable (serial number,
  MAC address, ...) changes unasked, and a boot carries an update over.
* **Partition table.** Layout arithmetic in 32 bits, a table torn by a power
  cut, a driver that hides its failures, mutual recursion of `load_ptbl` and
  `do_format`. Correct: fastboot's list is that of the table on the storage, its
  partitions lie apart and inside the storage, a format yields the built-in
  layout, a boot leaves a table alone that is there, and it ends if the storage
  does not fail for ever.
* **Boot flow.** `do_booti` and `do_fastboot` call each other; `continue`
  answers twice.
* **Audio.** Two kinds of lock taken in a fixed order by several threads, a
  stream forced into standby by the start of the other one while it is written,
  values read under a lock and used after it, signed and unsigned arithmetic on
  a buffer level that may not have been read. Correct: no wait cycle, a PCM is
  used only while it is open, open PCMs share a group of rates, nothing points
  to a freed stream, and the write threshold stays within the buffer.
* **Sensors.** Wrap-around of the event buffer, events that `poll` no longer sees
  because they were read already, one sensor filling the array every time, wake-ups
  with nothing to return. Correct: the reader is a queue, no event is stranded,
  no call returns empty-handed, no sensor starves.
* **Motion sensors.** Eight sensors share three parts of a chip; a call writes only
  what it takes to have changed, and most delays are ignored in favour of
  another sensor's. Correct: the chip is what the enabled sensors need, it is
  switched only while its stream stands still, the stream then runs, and the data
  comes as often as was asked for.

`PROJECT.json` lists each of these dangers at its line (`hazards`) with the
properties that watch it, and every component with its status.

## 2. Modules

| Module | Models | Run by |
|---|---|---|
| `Sparse` | the sparse expander and a host that cuts and restarts images | `MCSparse` |
| `SparseProofs` | theorems about `Sparse` | TLAPS |
| `Fastboot` | `rx_handler` and a fastboot host | `MCFastboot` |
| `FastbootProofs` | theorems about `Fastboot` | TLAPS |
| `AudioHal` | the audio HAL and the threads that call it | `MCAudioHal` |
| `AudioProofs` | theorems about `AudioHal` | TLAPS |
| `Idme` | the device variables from power-on to the kernel, with `load_ptbl`, `do_booti` and `do_idme` around them | `MCIdme` |
| `IdmeProofs` | theorems about `Idme` | TLAPS |
| `PartTable` | the partition table: loading, formatting, the built-in layout | `MCPartTable` |
| `PartProofs` | theorems about `PartTable` | TLAPS |
| `EventFifo` | what the reader of the light sensor promises: a queue | as a property of `MCSensorsHal` |
| `SensorsHal` | the poll loop, the light sensor with its circular reader, the wake pipe; implements `EventFifo` | `MCSensorsHal` |
| `SensorsProofs` | theorems about `SensorsHal`, the refinement included | TLAPS |
| `MplSensor` | the motion sensors and the files of their chip | `MCMplSensor` |
| `MplProofs` | theorems about `MplSensor` | TLAPS |

Definitions named in a comment as *mutant* or *slip* are deliberately wrong
variants of the definition that follows them. They are not used by any
specification; `PROJECT.json` (`mutants`) says which property finds each.

### Sparse

A byte of an image is named by its offset in the file, so the content of a
sector is the offset of its first byte, or `Torn` when its 512 bytes are not
consecutive bytes of the file. An image carries its layout with it (`hdrAt`,
`outAt`: where chunk k starts in the file and in the expanded image), which
keeps the format itself free of recursion and the theorems free of induction.
The variables `remaining_chunks` to `data` are the static `state`. One action is
one step of the loop of `_unsparse`: `Section` is the call of
`do_unsparse_process`; `ReadHeader` and `BadHeader` are `_unsparse_read_header`;
`HeaderCut`, `RawChunk`, `DontCare` and `BadChunk` are the ways through
`_unsparse_process_chunk`; `LoopExit` is the end of the loop. `Start` is
`do_unsparse_start`, with any image and at any point between two sections: what
an abandoned image left in `data` and `last_header` stays. The result of the
storage write is ignored by the code, so a write may leave any prefix of its
sectors; `lost` remembers that it did. `short` remembers that a section before
the last was shorter than a sector. Sizes are computed modulo `ULongMod`, as the
code's 32-bit products are.

### Fastboot

The device's variables are the statics of `cmd_fastboot.c` under their own
names. `RxData`, `Download`, `Flash`, `Mmcwrite`, `Multiflash`, `Erase` and
`Format` are the branches of `rx_handler`; `WriteToPtnEmmc` is
`write_to_ptn_emmc` with its sparse and raw branches. The host is the fastboot
tool (external): it downloads, waits for each answer, sends the command, and may
be unplugged before any step (`Unplug`) or find the device restarted
(`Restart`). `fastboot_tx_status` waits for the host to take the answer, so one
answer is pending at most. After an unplug in a download the next packet is data
to the device whatever the host meant by it (`Swallowed`), because nothing calls
`reset_handler`. A byte is a pair of image and position, so that a byte in the
wrong place is told apart from the right one. The sparse expander appears as
the stream of bytes it is given (`unsparse`) and as the sectors it writes
(`Unsparse`): any sectors the chunks of the image are for (`RawSectors`), at most
as many as the download fills, and any sectors at all when the stream is not the
beginning of a sparse image, because data is then taken for headers. Which bytes
go to which sector is the business of `Sparse`; here a byte so written is `Chunk`.
Nothing in the code compares these sectors with the partition: `sparse.c:88` says
"todo: ensure image will fit", and `rx_handler` looks at the downloaded size only.
`lost`, `fresh` and `aligned` are history, read by properties only. The two tables
(`GPT`, `BuiltIn`) are given in this module and `PartTable` says where they come
from; `oem format` may leave the first entries of the new table followed by those
of the old one, and a read that fails ends the list (`FirstEntries`, `Listed`).

### Idme

`boot` and `user` are the two copies; each is written block by block
(`PutBlock`), and `PowerCut` may come between any two blocks. `sigA` and `sigB`
are the two parts of the signature, which lies across blocks 0 and 1. `pc`
follows `board_late_init` (`UpdateRead`, `UpdateWriteBoot`, `UpdateWriteUser`,
`LoadPtbl`), `do_booti` (`SelectRead` to `SelectBootmode`, `Window`, `Load`) and
the idme commands of a fastboot host (`OemSet`, `OemCount`, `OemMagic`,
`OemClean`). `EnterFastboot` is the start of `do_fastboot`, which reads the boot
mode from the boot copy. `access` is the hardware partition the eMMC addresses: an operation on the boot copy
switches there and back, and a failing switch back leaves it there. `OsUpdate`
is the running system (external): it puts values, a bitmap and the signature in
the user copy; how it does so is taken from what `idme_update_vars_ex` expects
to find, and is one step. `requested`, `sevens`, `faults` and the three counters
are history and bounds.

### AudioHal

An action is what one thread does from one lock operation to the next; `thread`
says for each thread which call it is in and where. Output and input stream go
through the same actions, since `start_output_stream` and `start_input_stream`,
`out_set_parameters` and `in_set_parameters`, `out_standby` and `in_standby` are
written alike; what differs is told apart by the stream (`StartConfig`,
`AllSco`, `AdaptThreshold`). A call takes the device lock (`LockDevice`), then
the lock of its stream. `Standby` is the whole of `out_standby` from there;
`Free` is the `free` after it in a close. `Route` is `*_set_parameters`, which
goes on to `RouteStandby` if SCO is turned on or off. `out_write` and `in_read`
are `AlreadyStarted` or `StartStream`, `CheckPeer` (the lock of the other
stream, and its standby when the rates conflict) and `PcmOpen` or
`PcmOpenFails`, then `Transfer` or `Exit`. A device mask is a set; `BIT_IN` is an
element of it because `in_device` has that bit after an open and loses it with
the first route change. `screen_off` is written without a lock, so what a thread
finds in it is a free choice. `kernel_frames` is any value of `Garbage` when it
was not read; `unread` is history and remembers that a threshold came from it.
The audio server (external) calls any function of an open stream from any
thread, closes a stream only when no other call to it is going on, and has one
stream of each kind.

### PartTable

`load_ptbl` and `do_format` call each other, each as its last act, so `pc` alone
follows the recursion: `LoadPtbl` (the header), `ReadSector`, `Import` (one
entry: `import_efi_partition` and `fastboot_flash_add_ptn`), `Format`
(`mmc_init`, `start_ptbl`), `AddPtn` (one partition), `WriteTable`. `PowerOn` is
`board_late_init`, `OemFormat` the host's command. An entry is a name with its
first and last sector, or `None`; the 128 entries of the real table and the
built-in `partitions` are used as they are. A layout carries with it where each
partition starts (`at`) and in which entry it goes (`slot`), so that no sum has
to be computed by recursion; `AddPtn` computes with `next` and the first free
entry, as the code does, and the proofs show that the two agree. The static
buffers `data` and `buf` keep what an earlier load left in them, which matters
because of the driver: `mmc_init` returns 0 whatever happened, and with
`dev = FALSE` reads and writes do nothing and return success. `blind` remembers
that the list was loaded in that state, `origin` whose entries the storage holds
(`mixed`: a format over another system's table was cut off), `asked` that a host
has asked for a format since power-on. A write may be refused, may end after any
number of sectors and be reported as done, and power may go in the middle of it.
Commands may fail as often as they will; `failed` says of a step that one did.
The table's CRCs are not modelled: nothing reads them.

### SensorsHal and EventFifo

The poll thread is `PollEvents` (the call), then for the two sensors in turn
`ScanMpl` or `ScanLight`, with `Fill`, `Take` and `ReadDone` for
`IioSensorBase::readEvents` over the circular reader, then `Poll`, `PollFails` and
`ReadWake`, and back, until the array is full or there is an event and nothing
more is ready. The reader's variables are those of the code, and `FillReader`
places what one `readv` returns, of any length, in the two parts of the free
space (`IovSlot`). `revents` keeps its bits from one call to the next, which is
how events left in the reader are found again. A second thread calls `activate`:
`ActivateLight` or `ActivateMotion`, then `WakeUp` with a step of the poll thread
possible in between. The drivers (external) put light events, some of other
channels, and motion samples into queues of bounded length. The descriptor of the
motion sensors is an iio buffer opened without blocking; a sample gives any
number of events up to that of the enabled sensors. `EventFifo` is the abstract
queue; `Fifo` maps it to the reader's buffer followed by the driver's queue.

### MplSensor

One action is one group of sysfs writes, and `pc` is the place in
`enableSensors` or `update_delay`: `Enable`, `PowerOn`, `StopMaster`,
`EnableOneSensor`, `EnableQuaternion` (with the low power quaternion and the DMP)
and `StartMaster`; `SetDelay`, `UpdateStop`, `SetRates`, `UpdateStart`. `hw` is
the set of files that hold 1; `sampling` and `dmpRate` are the files of the
rates. Which writes are checked and which are not follows the code; a failing
one sets `failed`. Rates are in Hz as `write_attribute_sensor` rounds them, and
a division by a delay of 0 gives whatever the conversion of an infinite float
to `long` may give, which is undefined. The framework (external) makes one call at
a time, and calls `setDelay` right after it has enabled a sensor (`due`). The chip's driver
(external) stores what is written.

## 3. Runs

| Run | Result | What it shows |
|---|---|---|
| `sparse` | pass | seven images (good ones, and one for each reason to refuse) in every sequence of cuts of 11, 500, 530 bytes or the rest, restarted at any point |
| `fastboot` | pass | any two host operations with raw and sparse images, each cut off at any packet, on a failing storage |
| `fastboot_unplug` | violation | after a disconnect in a download, an erase is swallowed as data and answered with OKAY |
| `idme` | pass | two updates, a host command, two power cuts and one storage fault, in any order |
| `idme_table` | violation | one failing switch back makes `load_ptbl` replace a good partition table |
| `audio` | pass | two threads in any calls to an output and an input stream, with failing PCMs and routes to speaker, HDMI, SCO and microphone |
| `parttable` | pass | the built-in layout on three sizes of storage, blank or with the table of another system, with failing commands, a power cut and a format at any step |
| `parttable_init` | violation | one `mmc_init` that fails at power-on goes unnoticed, and the boot formats a storage whose table is good |
| `sensors` | pass | calls of `pollEvents` with arrays of one and two events, three calls of `activate`, a failing system call |
| `mpl` | pass | any sequence of `enable` and `setDelay` over five sensors, with one failing write |
| `mpl_master` | violation | disabling a sensor while a fusion sensor stays enabled leaves the data stream off |
| `mpl_rate` | violation | without a fusion sensor the delay of a gyroscope that is not enabled, perhaps 0, is used |

The violations are disagreements between the code and its own comments or
documents, quoted in `PROJECT.json` (`findings`).

Reading the code for the models also showed, without a run of its own: an error
in the data phase of a write is answered with OKAY (`lost` in `Fastboot` and
`Sparse`); a chunk that expands to 4 GiB or more moves what follows it in a
sparse image; multiflash compares partitions by their slot in `ptable`, which an
`oem format` may give to another partition; `oem idme <var> <value>` answers FAIL
when it has succeeded. The properties named below exclude these cases explicitly.

### Properties of the passing runs

* `sparse`: `TypeOK` (the partial sector never exceeds a sector);
  `WrittenRight` (only sectors of raw chunks are written, untorn, in their
  place); `Complete` (an accepted image is on the storage as a whole, if the
  storage wrote what it was given); `OnlyShortFails` (a good image is refused
  only if a section before its last was shorter than a sector); `SectionEnds`
  (every call ends).
* `fastboot`: `TypeOK` (a download stays within the buffer and its announced
  size); `FlashDone`, `MultiflashDone`, `SparseDone`, `EraseDone` (what the host
  was told is what the storage holds, whatever an earlier, interrupted operation
  left behind); `Confined` (no step writes outside the named partition, as long
  as no partition that has or had its slot is so long that a 32-bit sum wraps:
  `TooSmallToWrap`). `Confined` does not say that a sparse image fits, because
  the code does not see to it: an image with a chunk for a sector outside the
  partition does write there. It takes as given that all chunks are for sectors
  of the partition (`ChunksFit`) and says that they then stay inside, that is,
  that no left-over flag, offset or stream makes the expander take data for
  headers; for a multiflash this holds if it starts fresh and is below 2^32
  bytes, since from a left-over offset it goes on with the expander of the image
  before. `mmcwrite` checks no size in the code, so `Confined` does not speak of
  it.
* `idme`: `TypeOK`; `NoLostUpdate` (at every moment a requested value is in the
  signed user copy or in the boot copy); `SevenOnce` (bootmode 7 selects
  recovery once); `Mirrored` (after selection the copies agree and no
  signature is left); `IdentityKept` (also under up to two storage faults);
  `UpdateArrives`.

* `audio`: `TypeOK` (the thresholds stay within `int`); `NoWaitCycle` ("always
  take the audio_device mutex first", and no call ends with a lock taken);
  `PcmReady` (a thread that transfers samples has the lock, an open PCM and the
  resampler its rate needs, although others may send the stream to standby);
  `OneRateGroup` (also in the middle of a start); `NoDangling`; `Settled` (with
  the device lock free, PCMs, active streams, routes and mixer agree, and the
  input is the SCO one exactly when it is routed there); `ThresholdInRange`.
* `parttable`: `TypeOK` (the list never exceeds `MAX_PTN`); `ListTrue` (every
  partition fastboot lists is one of the table on the storage, after refused,
  lost and cut-off formats and reads that stopped half-way); `Disjoint` (listed
  partitions lie apart, behind the table and in the storage); `Whole` (after an
  undisturbed format and load the list is the built-in layout); `OnlyWhenAsked`
  (an action property: a boot replaces no table that is there, save after an
  `mmc_init` that failed); `BootEnds` (the mutual recursion comes to an end if the
  failures do, however many there were: with an `mmc_init` that keeps failing,
  whose zeroed reads look like a storage without a table, or with writes that get
  lost every time, `load_ptbl` and `do_format` call each other without end).
* `sensors`: `TypeOK` (no more events than the caller has room for);
  `NoneStranded` (events waiting in the reader keep `revents` set);
  `ReturnsEvents` (no return without an event or an error); `FifoSpec` (the reader
  implements `EventFifo`); `LightServed` (motion sensors that fill every array do
  not starve the light sensor).
* `mpl`: `TypeOK` (no delay below 5 ms once set); `HwMatches` (between calls the
  chip is what the enabled sensors need); `ChangedWhileStopped` (whichever write
  failed, the chip's layout changes only in a stopped stream); `FusionServed`
  (with a fusion sensor the data comes as often as every enabled sensor asked
  for).

### Bounds

* `sparse`: 11 bytes cut a chunk header (12 bytes) short, 500 and 530 cut sectors
  on either side of 512 and fall on every kind of boundary in images of two to
  four chunks; the rest of the file ends every image. The images themselves are
  finite, so nothing else is bounded. `ULongMod` is 65536, which no product
  reaches.
* `fastboot`: sectors of two bytes, a buffer of two sectors and a partition of
  three, so that an image needs a multiflash, may end inside a sector, and may
  fill the buffer exactly; `ULongMod` is 8, so that the size checks of the larger
  partition wrap and those of the smaller one do not. Two raw images and two
  sparse ones, one whose chunk fits every partition and one with a chunk beyond
  the smaller one. `MaxOps = 2`: an operation that leaves something behind and one
  that meets it. About 1.9 million states.
* `idme`: one variable next to each part of the signature, and bootmode and
  postmode in a block of their own. `MaxRequests = 2` because a second update
  meets what the first left; `MaxCrashes = 2`: a cut, and a cut while recovering
  from it; `MaxCommands = 1`, `MaxFaults = 1`.

* `audio`: two threads, enough for every pair of calls; a third waits at one of
  the same three locks, and the theorems are for any number. Periods of 4 frames
  and buffers of one and two periods, so that every branch of the threshold's
  adaptation is taken; four buffer levels on either side of a period; one
  negative level for the unread one; `UIntMod` is 64.
* `parttable`: the real layout, 32 sectors of 4 entries and `MAX_PTN` 16. The
  sizes are one in which the last partitions do not fit, one that ends where
  `userdata` starts, and one with room for it. `UIntMod` is 2^30, above every
  sector number here, because TLC's integers have 32 bits. Failures are not bounded;
  `MaxCuts = 1`, `MaxFormats = 1`.
* `sensors`: a reader of three slots with four events, so that it wraps and is
  read in pieces; arrays of one and two, so that either sensor alone fills one;
  a pipe of one byte, so that it can be full.
* `mpl`: the two gyroscopes that share a part of the chip, the accelerometer, and
  two fusion sensors that share everything; a delay below the least one and one
  above; one failing write. Nothing bounds the number of calls.

### Fairness

`Sparse!FairSpec` assumes weak fairness of `Unsparse`, the body of a running
call, and `Idme!FairSpec` and `PartTable!FairSpec` of `Bootloader`, the steps the
boot loader takes by itself. All are straight-line code and loops on one
processor with no other thread, so a step that can be taken is taken.
`SensorsHal!FairSpec` assumes weak fairness of `PollThread`: the framework's
thread does nothing but call `pollEvents` again, and a `poll` with a descriptor
that is ready returns. Nothing is assumed of the drivers or of the thread that
calls `activate`. `MplSensor` states no liveness. `AudioHal` states no liveness: a
mutex does not promise fairness between its waiters. Nothing is assumed of the host, of
the system or of power. `Fastboot` states no liveness: every step waits for a
host. `fastboot`, `parttable` and `sensors` run without a deadlock check, as a
host may have nothing more to ask for and a driver nothing more to report.
`BootEnds` has its own assumption on the storage, `<>[]~failed`, in its statement.

## 4. Proofs

`SparseProofs` proves, for every set of images that satisfies `ImageLayout`,
every set of cuts, every partition start and every word size:

| Theorem | Statement |
|---|---|
| `SpecIInv` | `Spec => []IInv` |
| `SpecTypeOK` | `Spec => []TypeOK` |
| `SpecWrittenRight` | `Spec => []WrittenRight` |
| `SpecComplete` | `Spec => []Complete` |
| `SpecOnlyShortFails` | `Spec => []OnlyShortFails` |

None of the three safety properties is inductive: they say nothing about a
section that ended half-way. `IInv` adds where the static state stands in the
image:

* `Position`: `chunk_offset` bytes of chunk `cur_chunk`, and all chunks before
  it, have been consumed; the saved header bytes are those of that chunk;
* `Placement`: `sector` is the target of the next whole sector, and the bytes
  kept in `data` are the file bytes just before the current position;
* `Progress`: every raw sector before the current position has been written;
* `ShortSection`: a section that starts inside a sector and cannot complete it
  was a short one;
* `Fresh`, before the file header has been read.

The argument goes through the actions of `Unsparse` one by one. `HeaderCopy` and
`HeaderUnique` show that after the copy of the missing header bytes the header
in hand is that of `cur_chunk` and of no other chunk; `RawStart` and the lemmas
after it compute the sectors written by `RawChunk` from `Position` and
`Placement`. The constants' assumptions are the ones named in `Sparse`
(`ImagesAssumption`, `SectionAssumption`, `PtnAssumption`, `ULongAssumption`).
`WrittenRight`, `Complete` and `OnlyShortFails` speak of images none of whose
chunks expands to 4 GiB: the code's product wraps there.

`AudioProofs` proves, for any number of threads, any routes, input rates, period
sizes and counts, all seven properties of the run `audio`: `SpecTypeOK`,
`SpecNoWaitCycle`, `SpecPcmReady`, `SpecOneRateGroup`, `SpecNoDangling`,
`SpecSettled` and `SpecThresholdInRange`, from `SpecIInv`. The inductive
invariant (end of `AudioHal`) says

* `Locks`: which locks a thread holds follows from where it is, and only from
  that;
* `Calls`: a call goes to an allocated stream, and opening or closing one
  excludes every other call to it;
* `StreamOK`: PCM, active pointer, standby flag and resampler of a stream agree;
* `Starting`: a stream between `StartStream` and `PcmOpen` is in standby and, once
  the other stream has been looked at, does not conflict with it; this stays
  true because both belong to the holder of the device lock;
* `InputRoute`, `Rates`: the route and the rates of open PCMs.

A wait cycle would contain the holder of the device lock, which waits only for
the lock of a stream whose holder is not waiting: it transfers samples, or is the
same thread. `ConflictSymmetric` shows by calculation that the comparison of
rates finds the same conflicts from either side, which `OneRateGroup` needs
because only the stream that starts makes it. `SpecThresholdInRange` adds the
invariant `Thresholds` and rests on `JustAboveFacts`, the arithmetic of "just
above current filling status" in a depleted buffer. The assumptions are
`ThreadsAssumption`, `RoutesAssumption`, `RatesAssumption` and
`SizesAssumption` (periods divisible by 4, buffers far below 2^31 frames).

`PartProofs` proves, for every layout that satisfies `LayoutOK`, every geometry of
the table, every storage size below `UIntMod`, every set of foreign tables and
any number of failures, power cuts and formats, `SpecTypeOK`, `SpecListTrue`,
`SpecDisjoint`, `SpecWhole` and `SpecOnlyWhenAsked`. The invariant says

* `DiskOK`: the entries lie in the storage; unless two systems are mixed they are
  a good table, and those the boot loader wrote are those of `Final`, the
  built-in layout;
* `TableBuilt`: while `do_format` adds partitions, its table is `Filled(n)` and
  `next` is where the layout has partition n; it was asked for, or there was no
  table, or the storage was not initialised;
* `LoadOK`, `ListOK`, `ListProgress`: the list holds entries that have been read,
  of a complete table all of them.

The sums of the layout are an induction over its partitions. The library's
induction theorems cannot be used, so `LayoutMonotone` and `SlotsTaken` take the
least partition that breaks the claim (`LeastElement`, from the well-foundedness
of the natural numbers). `FreeSlotIs` shows that the first free entry is the one of
the layout, `AddNumbers` that the 32-bit sums are the layout's places,
`WriteDisk` that any number of sectors of the new table leaves a table of which
`DiskOK` holds, and `ImportProgress` that the loop misses no entry although it
starts at the header and leaves out the last sector. TLC checks on the built-in
`partitions` that `LayoutOK` holds of them.

`SensorsProofs` proves, for a reader, queues and arrays of any size and any number
of calls and failures, `SpecTypeOK`, `SpecNoneStranded`, `SpecReturnsEvents` and
the refinement `SpecFifoSpec`. The invariant adds to the properties that the
events lie between `mCurr` and `mHead` (`ReaderOK`) and that `poll` is reached only
with room in the array and an empty reader (`PollOK`). The refinement rests on
lemmas about positions in a ring: what one `readv` adds at the end of the
buffered events it takes from the front of the driver's queue.

`MplProofs` proves, for any subset of the sensors, any delays and any number of
failing writes, all four properties of `mpl`. `HwMatches` says nothing about the
middle of a call; the invariant says for every place which parts may still be
wrong and that the call is going to write them (`ChipsOK`, `PlacesOK`), that
the quaternion and power agree (`QuaternionOK`, `PowerOK`), and that the DMP's rate
serves every sensor whose delay is set (`RateOK`).

`IdmeProofs` proves, for any variables in any blocks and any number of updates,
commands, power cuts and faults, `TypeCorrect`, `UpdatesSurvive`
(`NoLostUpdate`), `RecoveryOnce` (`SevenOnce`), `CopiesAgree` (`Mirrored`),
`OnlyAskedFor` (`IdentityKept`) and `TableKeptWithoutFaults`, the counterpart of
the finding of run `idme_table`: as long as no access to the storage has failed,
`load_ptbl` replaces no table that is there. The first four properties speak
about what both copies hold together; the invariant (`Invariance`) says what
holds in the middle of each of the six places where a copy is being written:

* `Marks`: the boot copy and both buffers never carry a whole signature, and while
  the boot loader carries an update over, its second buffer is the user copy;
* `Counted`: how many faults it takes for the signature of the user copy to
  survive the write of block 0, and of block 1, at each place;
* `Asked`: up to two faults, a signed user copy holds what was asked for, and what
  is carried over is that or what the boot copy has already;
* `Magics`, `Progress`: without faults, the eMMC addresses the user area, the user
  copy is valid only if the boot copy is, and the blocks written so far agree;
* `Sevens`: once recovery was selected, no bootmode 7 is left in the boot copy, in a
  signed update or in the buffer.

`FastbootProofs` proves, for every set of images, tables, buffer, sector, packet
and word size and any number of sessions, all six properties of run `fastboot`:
`TypeCorrect`, `WritesConfined` (`Confined`), `FlashedIsThere` (`FlashDone`),
`MultiflashedIsThere` (`MultiflashDone`), `SparseIsFed` (`SparseDone`) and
`ErasedIsGone` (`EraseDone`). The invariant has two parts. `Transfer` is enough
for `TypeOK` and for `Confined` of raw images and erases:

* `Loading`: after DATA, host and device agree on how many bytes are missing,
  and the transfer buffer holds the bytes sent since the download command;
* `InOnePiece`, `CutsAligned`: what a download of a flash and a cut of a
  multiflash begin with;
* `Leftover`: the left-over `multiflash_offset` lies within a partition of one of
  the two tables that has `multiflash_ptn` as its slot.

`Results` and `CutByCut` add what a command has done when its OKAY is on the way
and, for a multiflash, that the image is there up to the current cut and that the
device will put the next one right behind it (`Cut`). `WriteConfined` and
`WriteContents` are about the sectors one `mmc_write` covers; `SizeCheckExact` says
when the wrapping sum in the size check is the sum; `Joined` puts the pieces given
to the sparse expander together. `WritesConfined` needs `CutByCut` as well: a
sparse image stays where its chunks are for because each cut reaches the expander
behind the one before (`MultiflashFed`, `StreamBegins`, `SparseConfined`). That
every entry of a list or of a half-written table is one of the two tables, in its
slot (`IsTable`), is part of `TypeOK`. The assumptions are `ImagesAssumption`,
`TablesAssumption` (partitions of whole sectors within the storage, which
`PartProofs` shows of the lists fastboot gets, save for mixed tables) and
`SizesAssumption`; TLC evaluates all three on the run's instance.

Two properties had to be corrected for their proofs, because instances outside
the runs' bounds violate what they said before. `IdentityKept` had no bound on the
faults; with three (an update not read at boot, both blocks of the signature lost when
the user copy is written again) a later boot carries over values nobody asked
for. `Confined` looked only at the partition named; but the left-over offset may
come from a longer partition that had the slot before `oem format`, and the sum
that the size check compares wraps already when offset and download together
reach 2^32 exactly.

`Confined` is what these proofs say about sparse images too; that an image fits the
partition is a hypothesis, not a result.

Only model-checked: the liveness properties `SectionEnds`, `UpdateArrives`,
`LightServed` and `BootEnds`: fairness is out of the proof system's reach. Every
other property of a passing run is a theorem.

## 5. Not modelled

`mmc_compare` and `idme_check_update` are compiled out. The NAND branches of
`cmd_fastboot.c` cannot run: `storage_medium` is `EMMC` on this board. `getvar`
and the printing commands change no state. Register access, USB enumeration,
display and clock set-up are hardware I/O without a state to reason about. The
release tools run on a build machine. Of the audio HAL, the samples and the
resampler's buffers are left out, and `create_resampler` and `malloc` are taken
to succeed: the code does not look at their results. The rest of U-Boot is unchanged
third-party code, and so is mllite. Of the sensors, left out are the values of
events, a read that ends inside an event (`fill` would lose what it read; the iio
driver hands over whole ones), the light sensor's `setDelay`, closing the device (the destructor of the
poll context deletes the motion sensors twice), and a `poll` that fails after
events were copied, whose events are lost to the caller with the error. What
`MPLSensor::readEvents` makes of a packet while `enable` changes the mask is not
ordered by any lock and is not modelled. Of idme,
left out are `camcal` and `mfg`, which lie across several blocks (`idme_update_var`
clears the whole variable in a buffer of one block, line 1050), and the ROM start
from USB that bootmode 5 asks for; an `mmc_init` that fails in `board_late_init` is
in `PartTable`. `OsUpdate` writes the user copy in one step: the program that
does it is not in the repository, so a system that loses power in the middle of
its own write is not covered.

## 6. Plan

In this order:

1. `BootFlow`: autoboot, menu, `do_booti` and `do_fastboot` calling each other,
   the countdown loop, `continue` answering twice; composed with the way in and
   out of fastboot that `Idme` has now. Properties: at most one kernel start, a
   host that is gone does not keep the device in fastboot for ever.
2. `FastbootUsb`, charging, the power HAL and the HDMI audio HAL.
3. Theorems that join the modules: that what `Fastboot` feeds to the sparse
   expander is what `Sparse` assumes of its sections, and that the lists
   `PartTable` produces satisfy `TablesAssumption` of `Fastboot`.
