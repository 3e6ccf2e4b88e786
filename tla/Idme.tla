-------------------------------- MODULE Idme --------------------------------
(***************************************************************************)
(* The identity and boot-mode variables of the device                      *)
(* (CustomUboot/common/cmd_idme.c) from power-on to the start of the       *)
(* kernel, with power cuts between any two block writes and with storage   *)
(* faults.                                                                 *)
(*                                                                         *)
(* The variables live twice on the eMMC: the boot copy in a hardware boot  *)
(* partition, and a user copy that the running system can write.  To       *)
(* change a variable, the system (external) puts the new value in the user *)
(* copy with a signature and a bitmap; the bootloader carries it over on   *)
(* the next boot.  A copy is written block by block.  The signature lies   *)
(* across blocks 0 and 1: sigA, sigB are its two parts.                    *)
(***************************************************************************)
EXTENDS Integers

CONSTANTS
  Vars,        \* the variables: "bootmode", "postmode" and others
  BlockOf,     \* the block of a copy in which a variable lies
  Blocks,      \* the number of blocks of a copy
  Updates,     \* what the system or a host may ask for: functions from some variables to values
  Faults,      \* a subset of {"read", "write", "switch"}: what the storage may fail at
  MaxRequests, \* bound: updates requested by the system
  MaxCommands, \* bound: idme commands of a fastboot host
  MaxCrashes,  \* bound: power cuts
  MaxFaults    \* bound: storage faults

Default(v) == CASE v = "bootmode" -> "2" [] v = "postmode" -> "zero" [] OTHER -> "default"
Values     == (UNION { {f[v] : v \in DOMAIN f} : f \in Updates })
                \cup {"zero", "1", "2", "default", "factory"}

ASSUME VarsAssumption  ==
  /\ {"bootmode", "postmode"} \subseteq Vars
  /\ Blocks \in Nat /\ Blocks > 1
  /\ BlockOf \in [Vars -> 0 .. Blocks - 1]
  /\ \A f \in Updates : DOMAIN f \subseteq Vars
ASSUME FaultsAssumption == Faults \subseteq {"read", "write", "switch"}
ASSUME BoundsAssumption == MaxRequests \in Nat /\ MaxCommands \in Nat
                              /\ MaxCrashes \in Nat /\ MaxFaults \in Nat

Copy  == [magic : BOOLEAN, sigA : BOOLEAN, sigB : BOOLEAN, bitmap : SUBSET Vars,
          val : [Vars -> Values]]
Blank == [magic |-> FALSE, sigA |-> FALSE, sigB |-> FALSE, bitmap |-> {},
          val |-> [v \in Vars |-> "zero"]]

VARIABLES
  boot, user,    \* the two copies
  gpt,           \* the partition table in the user area: "none", "custom" or "builtin"
  access,        \* the hardware partition the eMMC addresses: "boot" or "user"
  pc,            \* where the bootloader is
  blk,           \* the block to write next
  buffer,        \* the copy being written, or the boot copy as read
  ubuffer,       \* the user copy to be written back
  ptn,           \* the image selected
  reply,         \* the answer to the last idme command of a fastboot host
  ret,           \* where fastboot goes on when its host lets go
  \* history
  requested,     \* the last value asked for by the system for each variable, or "none"
  sevens,        \* boots with bootmode '7' since someone set bootmode
  faults,        \* how often the storage has failed
  requests, commands, crashes

copies  == <<boot, user>>
memory  == <<blk, buffer, ubuffer, ptn, reply, ret>>
history == <<requested, sevens, faults, requests, commands, crashes>>
vars    == <<copies, gpt, access, pc, memory, history>>

Signed(c) == c.sigA /\ c.sigB

\* The last value asked for v is still to be carried over, or has been.
Waiting(v)  == user.magic /\ Signed(user) /\ v \in user.bitmap /\ user.val[v] = requested[v]
Arrived(v) == boot.val[v] = requested[v]

\* Copy dst with block b taken from src.
PutBlock(dst, src, b) ==
  [magic  |-> IF b = 0 THEN src.magic ELSE dst.magic,
   sigA   |-> IF b = 0 THEN src.sigA ELSE dst.sigA,
   sigB   |-> IF b = 1 THEN src.sigB ELSE dst.sigB,
   bitmap |-> IF b = 1 THEN src.bitmap ELSE dst.bitmap,
   val    |-> [v \in Vars |-> IF b = BlockOf[v] THEN src.val[v] ELSE dst.val[v]]]

\* A device from the factory, or one with an empty storage.
Factory == [Blank EXCEPT !.magic = TRUE,
                         !.val = [v \in Vars |-> IF v = "bootmode" THEN "1" ELSE "factory"]]

Init ==
  /\ \/ boot = Factory /\ gpt = "custom"
     \/ boot = Blank /\ gpt = "none"
  /\ user = Blank
  /\ access = "user" /\ pc = "off"
  /\ blk = 0 /\ buffer = Blank /\ ubuffer = Blank /\ ptn = "boot" /\ reply = "none"
  /\ ret = "select"
  /\ requested = [v \in Vars |-> "none"] /\ sevens = 0 /\ faults = 0
  /\ requests = 0 /\ commands = 0 /\ crashes = 0

-----------------------------------------------------------------------------
(***************************************************************************)
(* Steps of the storage.  An operation on the boot copy switches to the    *)
(* boot partition and back; when the switch back fails the eMMC goes on    *)
(* addressing the boot partition and the operation reports failure.        *)
(***************************************************************************)
Fails(f) == f \in Faults /\ faults < MaxFaults /\ faults' = faults + 1

\* The end of an operation on the boot copy: control goes to okpc, or to errpc on an error.
SwitchBack(okpc, errpc) ==
  \/ access' = "user" /\ UNCHANGED faults /\ pc' = okpc
  \/ Fails("switch") /\ access' = "boot" /\ pc' = errpc

\* The same after an error within the operation.
SwitchAfterError == access' \in {"user"} \cup {"boot" : f \in Faults \cap {"switch"}}

\* An operation on the boot copy that does not get as far as writing.
NoBootWrite(errpc) ==
  /\ \/ Fails("read") /\ SwitchAfterError
     \/ Fails("switch") /\ UNCHANGED access            \* it stays where it was
  /\ pc' = errpc
  /\ UNCHANGED boot

\* The end of the loop of idme_write(); LastBlockLate is one block too late.
LastBlockLate == blk = Blocks
LastBlock     == blk = Blocks - 1

\* idme_write(c, BOOT_PARTITION), one block: written, refused, or lost without notice.
\* The switch back comes after the last block or after the refused one.
WriteBootBlock(c, nextpc, errpc) ==
  LET last == LastBlock
  IN  \/ /\ \/ boot' = PutBlock(boot, c, blk) /\ UNCHANGED faults
            \/ Fails("write") /\ UNCHANGED boot
         /\ ~last
         /\ blk' = blk + 1 /\ UNCHANGED <<pc, access>>
      \/ /\ last /\ blk' = 0
         /\ boot' = PutBlock(boot, c, blk)
         /\ SwitchBack(nextpc, errpc)
      \/ /\ Fails("write") /\ UNCHANGED boot
         /\ blk' = 0
         /\ SwitchAfterError
         /\ pc' \in IF last /\ access' = "user" THEN {nextpc, errpc} ELSE {errpc}
      \/ /\ blk = 0 /\ Fails("switch")
         /\ pc' = errpc /\ UNCHANGED <<boot, blk, access>>

\* idme_write(c, USER_PARTITION), one block; it misses the user copy while the eMMC still
\* addresses the boot partition.
WriteUserBlock(c, nextpc, errpc) ==
  LET last == LastBlock
  IN  /\ UNCHANGED access
      /\ \/ /\ \/ /\ user' = IF access = "user" THEN PutBlock(user, c, blk) ELSE user
                  /\ UNCHANGED faults
               \/ Fails("write") /\ UNCHANGED user
            /\ blk' = IF last THEN 0 ELSE blk + 1
            /\ pc' = IF last THEN nextpc ELSE pc
         \/ Fails("write") /\ UNCHANGED user /\ blk' = 0 /\ pc' = errpc

-----------------------------------------------------------------------------
(***************************************************************************)
(* board_late_init(): idme_update_vars_ex(), then load_ptbl().  What comes *)
(* of an mmc_init() that fails before them is in module PartTable.         *)
(***************************************************************************)
PowerOn ==
  /\ pc = "off"
  /\ pc' = "late_init"
  /\ UNCHANGED <<copies, gpt, access, memory, history>>

\* Both copies are read; bitmap variables are copied over and the signature is cleared.
CarriedAll     == [boot EXCEPT !.val = user.val]     \* slip: the bitmap is not looked at
CarriedNothing == boot                               \* slip: the copy goes the wrong way
Carried == [boot EXCEPT !.val = [v \in Vars |-> IF v \in user.bitmap THEN user.val[v] ELSE @[v]]]
Cleared == [user EXCEPT !.sigA = FALSE, !.sigB = FALSE, !.bitmap = {}]

\* The boot copy is written first, then the user copy.
WriteOrderSwapped(p) == CASE p = "late_init" -> "wuser" [] p = "wuser" -> "wboot" [] p = "wboot" -> "ptable"
WriteOrder(p)        == CASE p = "late_init" -> "wboot" [] p = "wboot" -> "wuser" [] p = "wuser" -> "ptable"

UpdateRead ==
  /\ pc = "late_init"
  /\ \/ NoBootWrite("ptable") /\ UNCHANGED <<buffer, ubuffer>>
     \/ /\ SwitchBack(IF user.magic /\ Signed(user) THEN WriteOrder(pc) ELSE "ptable", "ptable")
        /\ buffer' = IF pc' # "ptable" THEN Carried ELSE buffer
        /\ ubuffer' = IF pc' # "ptable" THEN Cleared ELSE ubuffer
        /\ UNCHANGED boot
  /\ UNCHANGED <<user, gpt, blk, ptn, reply, ret, requested, sevens, requests, commands, crashes>>

UpdateWriteBoot ==
  /\ pc = "wboot"
  /\ WriteBootBlock(buffer, WriteOrder(pc), "ptable")
  /\ UNCHANGED <<user, gpt, buffer, ubuffer, ptn, reply, ret,
                 requested, sevens, requests, commands, crashes>>

UpdateWriteUser ==
  /\ pc = "wuser"
  /\ WriteUserBlock(ubuffer, WriteOrder(pc), "ptable")
  /\ UNCHANGED <<boot, gpt, buffer, ubuffer, ptn, reply, ret,
                 requested, sevens, requests, commands, crashes>>

\* load_ptbl(): without "EFI PART" in sector 1 do_format() writes a new table; its mmc_init()
\* resets the card, which addresses the user area again.  Sector 1 of the boot partition
\* holds variables.
TableFound == access = "user" /\ gpt # "none"

LoadPtbl ==
  /\ pc = "ptable"
  /\ \/ TableFound /\ UNCHANGED <<gpt, access, faults>>
     \/ ~TableFound /\ gpt' = "builtin" /\ access' = "user" /\ UNCHANGED faults
     \/ ~TableFound /\ Fails("write") /\ access' = "user" /\ UNCHANGED gpt
     \/ Fails("read") /\ UNCHANGED <<gpt, access>>
  /\ pc' \in {"select", "fastboot"}            \* fastboot_preboot()
  /\ ret' = "select"
  /\ buffer' = Blank /\ ubuffer' = Blank
  /\ UNCHANGED <<copies, blk, ptn, reply, requested, sevens, requests, commands, crashes>>

-----------------------------------------------------------------------------
(***************************************************************************)
(* do_booti(): idme_select_boot_image().                                   *)
(***************************************************************************)
DefaultVars == [Blank EXCEPT !.magic = TRUE, !.val = [v \in Vars |-> Default(v)]]

SelectRead ==
  /\ pc = "select"
  /\ ptn' = "boot"
  /\ \/ NoBootWrite("chosen") /\ UNCHANGED buffer
     \/ /\ SwitchBack(IF boot.magic THEN "mirror" ELSE "wdefault", "chosen")
        /\ buffer' = CASE pc' = "chosen" -> buffer
                       [] pc' = "mirror" -> boot
                       [] OTHER          -> DefaultVars
        /\ UNCHANGED boot
  /\ UNCHANGED <<user, gpt, blk, ubuffer, reply, ret,
                 requested, sevens, requests, commands, crashes>>

\* The results of the two writes are not looked at.
SelectWriteDefault ==
  /\ pc = "wdefault"
  /\ WriteBootBlock(buffer, "mirror", "mirror")
  /\ UNCHANGED <<user, gpt, buffer, ubuffer, ptn, reply, ret,
                 requested, sevens, requests, commands, crashes>>

SelectMirrorOnce ==                                  \* slip: only when there is no user copy
  /\ pc = "mirror"
  /\ \/ ~user.magic /\ WriteUserBlock(buffer, "postmode", "postmode")
     \/ user.magic /\ pc' = "postmode" /\ blk' = 0 /\ UNCHANGED <<user, access, faults>>
  /\ UNCHANGED <<boot, gpt, buffer, ubuffer, ptn, reply, ret,
                 requested, sevens, requests, commands, crashes>>

SelectMirror ==
  /\ pc = "mirror"
  /\ WriteUserBlock(buffer, "postmode", "postmode")
  /\ UNCHANGED <<boot, gpt, buffer, ubuffer, ptn, reply, ret,
                 requested, sevens, requests, commands, crashes>>

\* idme_update_var(v, x): the block of v is read, changed and written.
UpdateVar(v, x, okpc, errpc) ==
  \/ NoBootWrite(errpc)
  \/ boot' = [boot EXCEPT !.val[v] = x] /\ SwitchBack(okpc, errpc)
  \/ /\ Fails("write") /\ UNCHANGED boot
     /\ SwitchAfterError /\ pc' \in IF access' = "user" THEN {okpc, errpc} ELSE {errpc}

SelectPostmode ==
  /\ pc = "postmode"
  /\ UpdateVar("postmode", "1", "bootmode", "bootmode")
  /\ UNCHANGED <<user, gpt, memory, requested, sevens, requests, commands, crashes>>

\* Bootmode '7' selects recovery once.
Consume7Not == pc' = "chosen" /\ UNCHANGED <<boot, access, faults>>     \* slip: it stays
Consume7    == UpdateVar("bootmode", "1", "chosen", "chosen")

\* The switch on bootmode, then the volume key.
Image(mode) == CASE mode \in {"2", "6"} -> "dkernel" [] mode \in {"3", "7"} -> "recovery"
                 [] OTHER -> "boot"

SelectBootmode ==
  LET mode == buffer.val["bootmode"]
  IN  /\ pc = "bootmode"
      /\ \/ /\ mode = "7"
            /\ Consume7
            /\ sevens' = sevens + 1
         \/ /\ mode # "7"
            /\ pc' = "chosen"
            /\ UNCHANGED <<boot, access, faults, sevens>>
      /\ ptn' \in {Image(mode), "recovery"}          \* idme_select_bootmode_by_key()
      /\ buffer' = Blank
      /\ UNCHANGED <<user, gpt, blk, ubuffer, reply, ret, requested, requests, commands, crashes>>

\* do_fastboot() begins with getbootmode(), which reads the boot copy; the result counts
\* for mode 5 only, a ROM start from USB.
EnterFastboot(back) ==
  /\ pc' = "fastboot" /\ ret' = back
  /\ \/ access' = "user" /\ UNCHANGED faults
     \/ Fails("read") /\ SwitchAfterError
     \/ Fails("switch") /\ access' \in {"boot", "user"}

\* With a USB cable attached there is a one-second fastboot window first.
Window ==
  /\ pc = "chosen"
  /\ \/ pc' = "load" /\ UNCHANGED <<access, ret, faults>>
     \/ EnterFastboot("load")
  /\ UNCHANGED <<copies, gpt, blk, buffer, ubuffer, ptn, reply,
                 requested, sevens, requests, commands, crashes>>

\* The image is loaded, after an mmc_init(), and started; without a partition or a good image
\* the device stays in fastboot.
Load ==
  /\ pc = "load"
  /\ \/ pc' = "os" /\ access' = "user" /\ UNCHANGED <<ret, faults>>
     \/ EnterFastboot("shell")
  /\ UNCHANGED <<copies, gpt, blk, buffer, ubuffer, ptn, reply,
                 requested, sevens, requests, commands, crashes>>

-----------------------------------------------------------------------------
(***************************************************************************)
(* fastboot oem idme ...: do_idme().  The answer is FAIL when do_idme()    *)
(* returns anything but 0, and idme_update_var() returns 1 on success.     *)
(***************************************************************************)
\* A host's command settles what the system asked for, unless that is still to come.
Forget(V) == requested' = [v \in Vars |-> IF v \in V /\ ~Waiting(v) THEN "none" ELSE requested[v]]

OemUpdate(v, x, answer) ==
  /\ pc = "fastboot" /\ commands < MaxCommands
  /\ UpdateVar(v, x, "fastboot", "fastboot")
  /\ reply' = answer
  /\ Forget({v}) /\ sevens' = IF v = "bootmode" THEN 0 ELSE sevens
  /\ commands' = commands + 1
  /\ UNCHANGED <<user, gpt, blk, buffer, ubuffer, ptn, ret, requests, crashes>>

\* idme <variable> [<value>].  camcal and mfg, which lie across blocks, are left out: for
\* them idme_update_var() does not stay in the buffer of its one block.
OemSet(v, x) == OemUpdate(v, x, "FAIL")

\* idme count: idme_boot_count() always returns 0.
OemCount == OemUpdate("postmode", "1", "OKAY")

\* idme magic: idme_write_magic_size() leaves nothing but the magic in block 0.
OemMagic ==
  /\ pc = "fastboot" /\ commands < MaxCommands
  /\ \/ /\ boot' = PutBlock(boot, [Blank EXCEPT !.magic = TRUE], 0)
        /\ SwitchBack("fastboot", "fastboot")
        /\ reply' = IF access' = "user" THEN "OKAY" ELSE "FAIL"
     \/ /\ Fails("write") /\ UNCHANGED <<boot, pc>>
        /\ SwitchAfterError
        /\ reply' \in IF access' = "user" THEN {"OKAY", "FAIL"} ELSE {"FAIL"}
     \/ NoBootWrite("fastboot") /\ reply' = "FAIL"
  /\ Forget({ v \in Vars : BlockOf[v] = 0 })
  /\ commands' = commands + 1
  /\ UNCHANGED <<user, gpt, blk, buffer, ubuffer, ptn, ret, sevens, requests, crashes>>

\* idme clean: both copies are zeroed, the user copy first; the result is always 0.
OemClean ==
  /\ pc = "fastboot" /\ commands < MaxCommands
  /\ pc' = "cleanuser" /\ blk' = 0
  /\ Forget(Vars)
  /\ commands' = commands + 1
  /\ UNCHANGED <<copies, gpt, access, buffer, ubuffer, ptn, reply, ret, sevens, faults,
                 requests, crashes>>

CleanUser ==
  /\ pc = "cleanuser"
  /\ WriteUserBlock(Blank, "cleanboot", "cleanboot")
  /\ UNCHANGED <<boot, gpt, buffer, ubuffer, ptn, reply, ret,
                 requested, sevens, requests, commands, crashes>>

CleanBoot ==
  /\ pc = "cleanboot"
  /\ WriteBootBlock(Blank, "fastboot", "fastboot")
  /\ reply' = IF pc' = "fastboot" THEN "OKAY" ELSE reply
  /\ UNCHANGED <<user, gpt, buffer, ubuffer, ptn, ret,
                 requested, sevens, requests, commands, crashes>>

\* The host lets go, or sends `continue', which runs do_booti() from the start.
LeaveFastboot ==
  /\ pc = "fastboot"
  /\ \/ pc' = ret /\ UNCHANGED ret
     \/ pc' = "select" /\ ret' = "shell"
  /\ reply' = "none"
  /\ UNCHANGED <<copies, gpt, access, blk, buffer, ubuffer, ptn, history>>

-----------------------------------------------------------------------------
(***************************************************************************)
(* The running system (external) and power.                                *)
(***************************************************************************)
OsUpdate(f) ==
  /\ pc = "os" /\ requests < MaxRequests
  /\ user.magic
  /\ user' = [user EXCEPT !.sigA = TRUE, !.sigB = TRUE, !.bitmap = DOMAIN f,
                          !.val = [v \in Vars |-> IF v \in DOMAIN f THEN f[v] ELSE @[v]]]
  /\ requested' = [v \in Vars |-> IF v \in DOMAIN f THEN f[v] ELSE "none"]
  /\ sevens' = IF "bootmode" \in DOMAIN f THEN 0 ELSE sevens
  /\ requests' = requests + 1
  /\ UNCHANGED <<boot, gpt, access, pc, memory, faults, commands, crashes>>

Off ==
  /\ pc' = "off" /\ access' = "user"
  /\ blk' = 0 /\ buffer' = Blank /\ ubuffer' = Blank /\ ptn' = "boot" /\ reply' = "none"
  /\ ret' = "select"
  /\ UNCHANGED <<copies, gpt, requested, sevens, faults, requests, commands>>

Shutdown == pc \in {"os", "fastboot", "shell"} /\ Off /\ UNCHANGED crashes

PowerCut == pc \notin {"off", "os", "fastboot", "shell"} /\ crashes < MaxCrashes
              /\ Off /\ crashes' = crashes + 1

Bootloader ==
  \/ UpdateRead \/ UpdateWriteBoot \/ UpdateWriteUser \/ LoadPtbl
  \/ SelectRead \/ SelectWriteDefault \/ SelectMirror \/ SelectPostmode \/ SelectBootmode
  \/ Window \/ Load \/ CleanUser \/ CleanBoot

Next ==
  \/ PowerOn \/ Bootloader
  \/ \E f \in Updates : \E v \in DOMAIN f : OemSet(v, f[v]) \/ OemSet(v, "zero")
  \/ OemCount \/ OemMagic \/ OemClean \/ LeaveFastboot
  \/ \E f \in Updates : OsUpdate(f)
  \/ Shutdown \/ PowerCut

Spec     == Init /\ [][Next]_vars
FairSpec == Spec /\ WF_vars(Bootloader)

-----------------------------------------------------------------------------
(***************************************************************************)
(* Properties.                                                             *)
(***************************************************************************)

\* Both copies and both buffers are copies; every other variable keeps its type.
TypeOK ==
  /\ {boot, user, buffer, ubuffer} \subseteq Copy
  /\ gpt \in {"none", "custom", "builtin"} /\ access \in {"boot", "user"}
  /\ pc \in {"off", "late_init", "wboot", "wuser", "ptable", "fastboot", "cleanuser", "cleanboot",
             "select", "wdefault", "mirror", "postmode", "bootmode", "chosen", "load", "os", "shell"}
  /\ blk \in 0 .. Blocks - 1
  /\ ptn \in {"boot", "dkernel", "recovery"} /\ reply \in {"none", "OKAY", "FAIL"}
  /\ ret \in {"select", "load", "shell"}
  /\ requested \in [Vars -> Values \cup {"none"}] /\ sevens \in Nat /\ faults \in Nat

\* A value the system asked for is never lost to a power cut: it is in the signed user copy
\* or in the boot copy (postmode and bootmode are then changed by the bootloader itself).
NoLostUpdate ==
  faults = 0 =>
    \A v \in Vars \ {"bootmode", "postmode"} :
      requested[v] # "none" => Waiting(v) \/ Arrived(v)

\* No power cut and no storage fault makes the bootloader change an identity variable of a
\* valid boot copy, except to the value that was asked for.  Three faults together could: an
\* update not read at boot, then both blocks with the signature lost when the user copy is
\* written again, leave other values under the old signature.
IdentityKept ==
  [][faults < 3 =>
       \A v \in Vars \ {"bootmode", "postmode"} :
         boot'.val[v] # boot.val[v] =>
           \/ boot'.val[v] = requested[v]
           \/ pc \in {"fastboot", "cleanboot", "wdefault"}]_vars

\* "Select recovery but next time, enter android": one request for bootmode '7' selects
\* recovery at most once, over any number of power cuts.
SevenOnce == faults = 0 => sevens <= 1

\* When an image has been chosen the user copy agrees with the boot copy on every identity
\* variable and is unsigned: nothing is left to be carried over twice.
Mirrored ==
  (pc = "chosen" /\ faults = 0) =>
    /\ boot.magic /\ user.magic /\ ~Signed(user)
    /\ \A v \in Vars \ {"bootmode", "postmode"} : user.val[v] = boot.val[v]

\* A boot that finds a signed update carries it over, unless power or storage fails.
UpdateArrives ==
  \A v \in Vars \ {"bootmode", "postmode"} :
    (pc = "late_init" /\ requested[v] # "none")
      ~> (Arrived(v) \/ requested[v] = "none" \/ pc = "off" \/ faults > 0)

\* load_ptbl() says "efi partition table not found" before it formats: a table that is there
\* is not replaced.
TableKept == [][gpt' # gpt => gpt = "none"]_vars
=============================================================================
