----------------------------- MODULE IdmeProofs -----------------------------
(***************************************************************************)
(* Proofs about module Idme: the type invariant, and, from an inductive    *)
(* invariant in five parts, that no update is lost to a power cut, that    *)
(* bootmode '7' acts once, that a chosen image finds the two copies in     *)
(* agreement, and that only what was asked for reaches the boot copy.      *)
(***************************************************************************)
EXTENDS Idme, TLAPS

-----------------------------------------------------------------------------
(***************************************************************************)
(* The inductive invariant.                                                *)
(***************************************************************************)
Id == Vars \ {"bootmode", "postmode"}

Unsigned(c)  == ~c.sigA /\ ~c.sigB
NothingAsked == \A v \in Id : requested[v] = "none"

\* A copy is written block by block only at these places.
Writing == {"wboot", "wuser", "wdefault", "mirror", "cleanuser", "cleanboot"}

\* Only the system signs a copy, and it signs the user copy; a block written by the
\* bootloader takes a part of the signature away.
Marks ==
  /\ Unsigned(boot) /\ Unsigned(buffer) /\ Unsigned(ubuffer)
  /\ Signed(user) => user.magic
  /\ pc \notin Writing => blk = 0
  /\ pc \in {"wboot", "wuser"} => ubuffer.val = user.val /\ ubuffer.magic = user.magic
  /\ pc = "wuser" => access = "user"

\* How many faults it takes to leave the user copy signed where it should not be.
Counted ==
  Signed(user) =>
    /\ pc \notin {"off", "late_init", "wboot", "wuser", "os"} => faults >= 1
    /\ pc = "wuser" /\ blk >= 1 => faults >= 1
    /\ pc \in {"mirror", "cleanuser"} /\ access = "user" =>
         (blk >= 1 => faults >= 2) /\ (blk >= 2 => faults >= 3)

\* A signed user copy holds what was asked for, and that is all that is carried over.
Asked ==
  faults < 3 =>
    /\ Signed(user) => \A v \in Id \cap user.bitmap : user.val[v] = requested[v]
    /\ pc = "wboot" => \A v \in Id : buffer.val[v] \in {boot.val[v], requested[v]}

\* Without faults: the magic of the two copies, and where nothing is left to be asked for.
Magics ==
  faults = 0 =>
    /\ access = "user"
    /\ user.magic => boot.magic
    /\ ~boot.magic \/ pc \in {"cleanuser", "cleanboot", "wdefault"} => NothingAsked
    /\ pc = "cleanboot" \/ (pc = "cleanuser" /\ blk >= 1) => ~user.magic
    /\ pc = "wboot" => buffer.magic
    /\ pc = "wdefault" => buffer = DefaultVars /\ (blk >= 1 => boot.magic)
    /\ pc \in {"mirror", "postmode", "bootmode"} => buffer.magic /\ boot.magic

\* Without faults: what the blocks written so far hold.
Progress ==
  faults = 0 =>
    /\ \A v \in Id : requested[v] # "none" => Waiting(v) \/ Arrived(v)
    /\ pc = "wboot" => \A v \in Id : requested[v] # "none" => buffer.val[v] = requested[v]
    /\ pc = "wuser" => \A v \in Id : requested[v] # "none" => Arrived(v)
    /\ pc \in {"wboot", "wdefault"} => \A v \in Vars : BlockOf[v] < blk => boot.val[v] = buffer.val[v]
    /\ pc \in {"mirror", "postmode", "bootmode"} =>
         \A v \in Vars \ {"postmode"} : boot.val[v] = buffer.val[v]
    /\ pc = "mirror" => /\ \A v \in Vars : BlockOf[v] < blk => user.val[v] = buffer.val[v]
                        /\ blk >= 1 => user.magic
    /\ pc \in {"postmode", "bootmode", "chosen"} =>
         /\ boot.magic /\ user.magic
         /\ \A v \in Id : user.val[v] = boot.val[v]

\* Without faults: once recovery was selected there is no '7' left anywhere.
Sevens ==
  faults = 0 =>
    /\ sevens <= 1
    /\ sevens = 1 =>
         /\ boot.val["bootmode"] # "7"
         /\ Signed(user) /\ "bootmode" \in user.bitmap => user.val["bootmode"] # "7"
         /\ pc = "wboot" => buffer.val["bootmode"] # "7"

IInv == TypeOK /\ Marks /\ Counted /\ Asked /\ Magics /\ Progress /\ Sevens

-----------------------------------------------------------------------------
(***************************************************************************)
(* Copies and blocks.                                                      *)
(***************************************************************************)

\* Copy p is dst with block b taken from src, field by field.
Took(p, dst, src, b) ==
  /\ p \in Copy
  /\ p.magic = IF b = 0 THEN src.magic ELSE dst.magic
  /\ p.sigA = IF b = 0 THEN src.sigA ELSE dst.sigA
  /\ p.sigB = IF b = 1 THEN src.sigB ELSE dst.sigB
  /\ p.bitmap = IF b = 1 THEN src.bitmap ELSE dst.bitmap
  /\ \A v \in Vars : p.val[v] = IF b = BlockOf[v] THEN src.val[v] ELSE dst.val[v]

\* PutBlock builds that copy.
LEMMA PutBlockFields ==
  ASSUME NEW dst \in Copy, NEW src \in Copy, NEW b \in 0 .. Blocks - 1
  PROVE  Took(PutBlock(dst, src, b), dst, src, b)
  BY DEF PutBlock, Copy, Took

\* The constants of the program and what may be asked for are values.
LEMMA ValuesMembers ==
  /\ {"zero", "1", "2", "default", "factory"} \subseteq Values
  /\ \A f \in Updates : \A v \in DOMAIN f : f[v] \in Values
<1> DEFINE U == UNION { {f[v] : v \in DOMAIN f} : f \in Updates }
<1>1. Values = U \cup {"zero", "1", "2", "default", "factory"}
  BY DEF Values
<1>2. \A f \in Updates : \A v \in DOMAIN f : f[v] \in U
  OBVIOUS
<1> HIDE DEF U
<1> QED
  BY <1>1, <1>2

\* The copies the program starts from.
LEMMA ConstantCopies ==
  /\ Blank \in Copy /\ Unsigned(Blank) /\ ~Blank.magic
  /\ Blank.bitmap = {} /\ \A v \in Vars : Blank.val[v] = "zero"
  /\ Factory \in Copy /\ Unsigned(Factory) /\ Factory.magic
  /\ \A v \in Id : Factory.val[v] = "factory"
  /\ Factory.val["bootmode"] = "1"
  /\ DefaultVars \in Copy /\ Unsigned(DefaultVars) /\ DefaultVars.magic
  /\ DefaultVars.val["bootmode"] = "2"
<1>0. {"zero", "1", "2", "default", "factory"} \subseteq Values
  BY ValuesMembers
<1>1. "bootmode" \in Vars
  BY VarsAssumption
<1>2. /\ Blank \in Copy /\ Unsigned(Blank) /\ ~Blank.magic
      /\ Blank.bitmap = {} /\ \A v \in Vars : Blank.val[v] = "zero"
  BY <1>0 DEF Blank, Copy, Unsigned
<1>3. /\ Factory \in Copy /\ Unsigned(Factory) /\ Factory.magic
      /\ \A v \in Id : Factory.val[v] = "factory"
      /\ Factory.val["bootmode"] = "1"
  BY <1>0, <1>1 DEF Blank, Factory, Copy, Unsigned, Id
<1>4. \A v \in Vars : Default(v) \in Values
  BY <1>0 DEF Default
<1>5. DefaultVars \in Copy /\ Unsigned(DefaultVars) /\ DefaultVars.magic
  BY <1>0, <1>4 DEF Blank, DefaultVars, Copy, Unsigned
<1>6. DefaultVars.val["bootmode"] = "2"
  BY <1>1 DEF Blank, DefaultVars, Default
<1> QED
  BY <1>2, <1>3, <1>5, <1>6

\* What is carried over from the user copy, and the user copy that is written back.
LEMMA CarriedFields ==
  ASSUME boot \in Copy, user \in Copy
  PROVE  /\ Carried \in Copy
         /\ Carried.magic = boot.magic /\ Carried.sigA = boot.sigA /\ Carried.sigB = boot.sigB
         /\ \A v \in Vars : Carried.val[v] = IF v \in user.bitmap THEN user.val[v] ELSE boot.val[v]
         /\ Cleared \in Copy /\ Unsigned(Cleared)
         /\ Cleared.magic = user.magic /\ Cleared.val = user.val
  BY DEF Carried, Cleared, Copy, Unsigned

-----------------------------------------------------------------------------
(***************************************************************************)
(* What a step of the storage does, whatever fails.                        *)
(***************************************************************************)

\* A fault is counted; no step forgets one.
LEMMA FailsCounts ==
  ASSUME faults \in Nat, NEW f, Fails(f)
  PROVE  faults' = faults + 1 /\ faults' \in Nat /\ faults' # 0
  BY DEF Fails

\* The switch back to the user partition.
LEMMA SwitchBackEffect ==
  ASSUME TypeOK, NEW okpc, NEW errpc, SwitchBack(okpc, errpc)
  PROVE  /\ access' \in {"boot", "user"} /\ faults' \in {faults, faults + 1}
         /\ \/ faults' = faults /\ pc' = okpc /\ access' = "user"
            \/ faults' = faults + 1 /\ pc' = errpc
  BY DEF SwitchBack, Fails, TypeOK

\* An operation that does not write has met a fault.
LEMMA NoBootWriteEffect ==
  ASSUME TypeOK, NEW errpc, NoBootWrite(errpc)
  PROVE  /\ access' \in {"boot", "user"} /\ faults' = faults + 1
         /\ pc' = errpc /\ boot' = boot
  BY DEF NoBootWrite, SwitchAfterError, Fails, TypeOK

\* One block of the boot copy: it is written or not; without a fault it is written and the
\* loop goes on; the loop is left for nextpc only after the last block, else with a fault.
LEMMA WriteBootEffect ==
  ASSUME TypeOK, NEW c \in Copy, NEW nextpc, NEW errpc, WriteBootBlock(c, nextpc, errpc)
  PROVE  /\ access' \in {"boot", "user"}
         /\ faults' \in {faults, faults + 1}
         /\ boot' \in {boot, PutBlock(boot, c, blk)}
         /\ \/ /\ pc' = pc /\ access' = access
               /\ blk < Blocks - 1 /\ blk' = blk + 1
            \/ /\ pc' = nextpc /\ blk = Blocks - 1 /\ access' = "user" /\ blk' = 0
            \/ /\ pc' = errpc /\ blk' = 0 /\ faults' = faults + 1
         /\ faults' = faults => boot' = PutBlock(boot, c, blk)
<1> USE DEF TypeOK
<1>1. CASE /\ \/ boot' = PutBlock(boot, c, blk) /\ UNCHANGED faults
              \/ Fails("write") /\ UNCHANGED boot
           /\ ~LastBlock
           /\ blk' = blk + 1 /\ UNCHANGED <<pc, access>>
  BY <1>1, VarsAssumption DEF Fails, LastBlock
<1>2. CASE /\ LastBlock /\ blk' = 0
           /\ boot' = PutBlock(boot, c, blk)
           /\ SwitchBack(nextpc, errpc)
  BY <1>2, SwitchBackEffect DEF LastBlock
<1>3. CASE /\ Fails("write") /\ UNCHANGED boot
           /\ blk' = 0
           /\ SwitchAfterError
           /\ pc' \in IF LastBlock /\ access' = "user" THEN {nextpc, errpc} ELSE {errpc}
  BY <1>3 DEF Fails, SwitchAfterError, LastBlock
<1>4. CASE /\ blk = 0 /\ Fails("switch")
           /\ pc' = errpc /\ UNCHANGED <<boot, blk, access>>
  BY <1>4 DEF Fails
<1> QED
  BY <1>1, <1>2, <1>3, <1>4 DEF WriteBootBlock

\* One block of the user copy, which is missed while the boot partition is addressed.
LEMMA WriteUserEffect ==
  ASSUME TypeOK, NEW c \in Copy, NEW nextpc, NEW errpc, WriteUserBlock(c, nextpc, errpc)
  PROVE  /\ access' = access
         /\ faults' \in {faults, faults + 1}
         /\ user' \in {user, PutBlock(user, c, blk)}
         /\ \/ /\ pc' = pc /\ blk < Blocks - 1 /\ blk' = blk + 1
            \/ /\ pc' = nextpc /\ blk = Blocks - 1 /\ blk' = 0
            \/ /\ pc' = errpc /\ blk' = 0 /\ faults' = faults + 1
         /\ faults' = faults /\ access = "user" => user' = PutBlock(user, c, blk)
         /\ access # "user" => user' = user
  BY VarsAssumption DEF WriteUserBlock, Fails, LastBlock, TypeOK

\* One variable of the boot copy is changed, or nothing is and there was a fault.
LEMMA UpdateVarEffect ==
  ASSUME TypeOK, NEW v \in Vars, NEW x \in Values, NEW okpc, NEW errpc,
         UpdateVar(v, x, okpc, errpc)
  PROVE  /\ access' \in {"boot", "user"}
         /\ faults' \in {faults, faults + 1}
         /\ pc' \in {okpc, errpc}
         /\ boot' \in Copy
         /\ boot'.magic = boot.magic /\ boot'.sigA = boot.sigA /\ boot'.sigB = boot.sigB
         /\ \A w \in Vars \ {v} : boot'.val[w] = boot.val[w]
         /\ faults' = faults => access' = "user" /\ pc' = okpc /\ boot'.val[v] = x
<1>1. CASE NoBootWrite(errpc)
  BY <1>1, NoBootWriteEffect DEF TypeOK
<1>2. CASE boot' = [boot EXCEPT !.val[v] = x] /\ SwitchBack(okpc, errpc)
  <2>1. boot \in Copy
    BY DEF TypeOK
  <2>2. /\ boot' \in Copy
        /\ boot'.magic = boot.magic /\ boot'.sigA = boot.sigA /\ boot'.sigB = boot.sigB
        /\ boot'.val[v] = x
        /\ \A w \in Vars \ {v} : boot'.val[w] = boot.val[w]
    BY <1>2, <2>1 DEF Copy
  <2> QED
    BY <1>2, <2>2, SwitchBackEffect DEF TypeOK
<1>3. CASE /\ Fails("write") /\ UNCHANGED boot
           /\ SwitchAfterError /\ pc' \in IF access' = "user" THEN {okpc, errpc} ELSE {errpc}
  BY <1>3 DEF Fails, SwitchAfterError, TypeOK
<1> QED
  BY <1>1, <1>2, <1>3 DEF UpdateVar

-----------------------------------------------------------------------------
(***************************************************************************)
(* Steps that leave both copies alone.                                     *)
(***************************************************************************)

\* Power-on, the window before loading, loading, and leaving fastboot move the program on.
LEMMA MoveInv ==
  ASSUME IInv, PowerOn \/ Window \/ Load \/ LeaveFastboot
  PROVE  IInv'
<1> USE DEF IInv, PowerOn, Window, Load, LeaveFastboot, EnterFastboot, SwitchAfterError, Fails, copies, memory, history
<1>1. TypeOK'
  BY DEF TypeOK
<1>2. Marks'
  BY DEF Marks, TypeOK, Writing, Signed, Unsigned
<1>3. Counted'
  BY DEF Counted, TypeOK, Signed
<1>4. Asked'
  BY DEF Asked, TypeOK, Signed
<1>5. Magics'
  BY DEF Magics, TypeOK, NothingAsked
<1>6. Progress'
  BY DEF Progress, TypeOK, Waiting, Arrived, Signed
<1>7. Sevens'
  BY DEF Sevens, Signed, TypeOK
<1> QED
  BY <1>1, <1>2, <1>3, <1>4, <1>5, <1>6, <1>7

\* Switching off, or losing power anywhere, keeps the copies and what was asked for.
LEMMA OffInv ==
  ASSUME IInv, Off
  PROVE  IInv'
<1> USE DEF IInv, Off, copies
<1>1. TypeOK'
  BY ConstantCopies, VarsAssumption DEF TypeOK
<1>2. Marks'
  BY ConstantCopies DEF Marks, TypeOK, Writing, Signed
<1>3. Counted'
  BY DEF Counted, TypeOK, Signed
<1>4. Asked'
  BY DEF Asked, TypeOK, Signed
<1>5. Magics'
  BY DEF Magics, TypeOK, NothingAsked
<1>6. Progress'
  BY DEF Progress, TypeOK, Waiting, Arrived, Signed
<1>7. Sevens'
  BY DEF Sevens, Signed, TypeOK
<1> QED
  BY <1>1, <1>2, <1>3, <1>4, <1>5, <1>6, <1>7

\* load_ptbl() concerns the partition table only.
LEMMA LoadPtblInv ==
  ASSUME IInv, LoadPtbl
  PROVE  IInv'
<1> USE DEF IInv, LoadPtbl, copies, Fails, TableFound
<1>1. TypeOK'
  BY ConstantCopies DEF TypeOK
<1>2. Marks'
  BY ConstantCopies DEF Marks, TypeOK, Writing, Signed
<1>3. Counted'
  BY DEF Counted, TypeOK, Signed
<1>4. Asked'
  BY DEF Asked, TypeOK, Signed
<1>5. Magics'
  BY DEF Magics, TypeOK, NothingAsked
<1>6. Progress'
  BY DEF Progress, TypeOK, Waiting, Arrived, Signed
<1>7. Sevens'
  BY DEF Sevens, Signed, TypeOK
<1> QED
  BY <1>1, <1>2, <1>3, <1>4, <1>5, <1>6, <1>7

-----------------------------------------------------------------------------
(***************************************************************************)
(* idme_update_vars_ex().                                                  *)
(***************************************************************************)

\* Reading both copies: what will be written is what was asked for and what is there.
LEMMA UpdateReadInv ==
  ASSUME IInv, UpdateRead
  PROVE  IInv'
<1> USE DEF IInv
<1>a. /\ access' \in {"boot", "user"} /\ faults' \in {faults, faults + 1} /\ faults \in Nat
      /\ pc = "late_init" /\ blk = 0
      /\ boot' = boot
      /\ UNCHANGED <<user, gpt, blk, ptn, reply, ret, requested, sevens>>
      /\ \/ /\ pc' = "ptable" /\ UNCHANGED <<buffer, ubuffer>>
            /\ faults' = faults => ~(user.magic /\ Signed(user))
         \/ /\ pc' = "wboot" /\ buffer' = Carried /\ ubuffer' = Cleared
            /\ user.magic /\ Signed(user)
      /\ faults' = faults => access' = "user"
  BY NoBootWriteEffect, SwitchBackEffect DEF UpdateRead, WriteOrder, Marks, Writing, TypeOK
<1>b. boot \in Copy /\ user \in Copy
  BY DEF TypeOK
<1>c. /\ Carried \in Copy
      /\ Carried.magic = boot.magic /\ Carried.sigA = boot.sigA /\ Carried.sigB = boot.sigB
      /\ \A v \in Vars : Carried.val[v] = IF v \in user.bitmap THEN user.val[v] ELSE boot.val[v]
      /\ Cleared \in Copy /\ Unsigned(Cleared)
      /\ Cleared.magic = user.magic /\ Cleared.val = user.val
  BY <1>b, CarriedFields
<1>1. TypeOK'
  BY <1>a, <1>c DEF TypeOK
<1>2. Marks'
  BY <1>a, <1>c DEF Marks, TypeOK, Writing, Signed, Unsigned
<1>3. Counted'
  BY <1>a DEF Counted, Marks, Signed
<1>4. Asked'
  BY <1>a, <1>c DEF Asked, Signed, Id
<1>5. Magics'
  BY <1>a, <1>c DEF Magics, NothingAsked
<1>6. Progress'
  BY <1>a, <1>c, VarsAssumption DEF Progress, Asked, Waiting, Arrived, Signed, Id
<1>7. Sevens'
  BY <1>a, <1>c, VarsAssumption DEF Sevens, Signed
<1> QED
  BY <1>1, <1>2, <1>3, <1>4, <1>5, <1>6, <1>7

\* A block of the boot copy is written with what is carried over.
LEMMA UpdateWriteBootInv ==
  ASSUME IInv, UpdateWriteBoot
  PROVE  IInv'
<1> USE DEF IInv
<1>a. /\ pc = "wboot"
      /\ access' \in {"boot", "user"}
      /\ faults' \in {faults, faults + 1} /\ faults \in Nat
      /\ boot' \in {boot, PutBlock(boot, buffer, blk)}
      /\ \/ /\ pc' = pc /\ access' = access
            /\ blk < Blocks - 1 /\ blk' = blk + 1
         \/ /\ pc' = "wuser" /\ blk = Blocks - 1 /\ access' = "user" /\ blk' = 0
         \/ /\ pc' = "ptable" /\ blk' = 0 /\ faults' = faults + 1
      /\ faults' = faults => boot' = PutBlock(boot, buffer, blk)
      /\ UNCHANGED <<user, gpt, buffer, ubuffer, ptn, reply, ret, requested, sevens>>
  BY WriteBootEffect DEF UpdateWriteBoot, WriteOrder, TypeOK
<1>b. /\ boot \in Copy /\ buffer \in Copy /\ user \in Copy /\ blk \in 0 .. Blocks - 1
      /\ Blocks \in Nat /\ Blocks > 1 /\ BlockOf \in [Vars -> 0 .. Blocks - 1]
      /\ "bootmode" \in Vars /\ "postmode" \in Vars
  BY VarsAssumption DEF TypeOK
<1> DEFINE P == PutBlock(boot, buffer, blk)
<1>c. Took(P, boot, buffer, blk)
  BY <1>b, PutBlockFields DEF P
<1> HIDE DEF P
<1>d. boot' \in {boot, P} /\ (faults' = faults => boot' = P)
  BY <1>a DEF P
<1>1. TypeOK'
  BY <1>a, <1>b, <1>c, <1>d DEF Took, TypeOK
<1>2. Marks'
  BY <1>a, <1>b, <1>c, <1>d DEF Took, Marks, Writing, Signed, Unsigned
<1>3. Counted'
  BY <1>a, <1>b DEF Counted, Signed
<1>4. Asked'
  BY <1>a, <1>b, <1>c, <1>d DEF Took, Asked, Signed, Id
<1>5. Magics'
  BY <1>a, <1>b, <1>c, <1>d DEF Took, Magics, NothingAsked
<1>6. Progress'
  BY <1>a, <1>b, <1>c, <1>d DEF Took, Progress, Asked, Waiting, Arrived, Signed, Id
<1>7. Sevens'
  BY <1>a, <1>b, <1>c, <1>d DEF Took, Sevens, Signed
<1> QED
  BY <1>1, <1>2, <1>3, <1>4, <1>5, <1>6, <1>7

\* A block of the user copy is written with its values as they are and no signature.
LEMMA UpdateWriteUserInv ==
  ASSUME IInv, UpdateWriteUser
  PROVE  IInv'
<1> USE DEF IInv
<1>a. /\ pc = "wuser" /\ access = "user" /\ access' = access
      /\ faults' \in {faults, faults + 1} /\ faults \in Nat
      /\ user' \in {user, PutBlock(user, ubuffer, blk)}
      /\ \/ /\ pc' = pc /\ blk < Blocks - 1 /\ blk' = blk + 1
         \/ /\ pc' = "ptable" /\ blk = Blocks - 1 /\ blk' = 0
         \/ /\ pc' = "ptable" /\ blk' = 0 /\ faults' = faults + 1
      /\ faults' = faults => user' = PutBlock(user, ubuffer, blk)
      /\ UNCHANGED <<boot, gpt, buffer, ubuffer, ptn, reply, ret, requested, sevens>>
  BY WriteUserEffect DEF UpdateWriteUser, WriteOrder, TypeOK, Marks
<1>b. /\ boot \in Copy /\ ubuffer \in Copy /\ user \in Copy /\ blk \in 0 .. Blocks - 1
      /\ Blocks \in Nat /\ Blocks > 1 /\ BlockOf \in [Vars -> 0 .. Blocks - 1]
      /\ "bootmode" \in Vars /\ "postmode" \in Vars
  BY VarsAssumption DEF TypeOK
<1> DEFINE P == PutBlock(user, ubuffer, blk)
<1>c. Took(P, user, ubuffer, blk)
  BY <1>b, PutBlockFields DEF P
<1> HIDE DEF P
<1>d. user' \in {user, P} /\ (faults' = faults => user' = P)
  BY <1>a DEF P
<1>e. ubuffer.val = user.val /\ ubuffer.magic = user.magic /\ Unsigned(ubuffer)
  BY <1>a DEF Marks
<1>f. P.val = user.val /\ P.magic = user.magic
  BY <1>b, <1>c, <1>e DEF Took, Copy
<1>g. user'.val = user.val /\ user'.magic = user.magic
  BY <1>d, <1>f
<1>h. Signed(user') => Signed(user) /\ user'.bitmap = user.bitmap
  BY <1>b, <1>c, <1>d, <1>e DEF Took, Signed, Unsigned
<1>i. Signed(user') /\ faults' = faults => blk # 0
  BY <1>b, <1>c, <1>d, <1>e DEF Took, Signed, Unsigned
<1>1. TypeOK'
  BY <1>a, <1>b, <1>c, <1>d DEF Took, TypeOK
<1>2. Marks'
  BY <1>a, <1>e, <1>g, <1>h DEF Marks, Writing
<1>3. Counted'
  BY <1>a, <1>b, <1>h, <1>i DEF Counted
<1>4. Asked'
  BY <1>a, <1>g, <1>h DEF Asked
<1>5. Magics'
  BY <1>a, <1>g DEF Magics, NothingAsked
<1>6. Progress'
  BY <1>a DEF Progress, Arrived
<1>7. Sevens'
  BY <1>a, <1>g, <1>h DEF Sevens
<1> QED
  BY <1>1, <1>2, <1>3, <1>4, <1>5, <1>6, <1>7

-----------------------------------------------------------------------------
(***************************************************************************)
(* idme_select_boot_image().                                               *)
(***************************************************************************)

\* Reading the boot copy: it is the buffer, or the defaults are.
LEMMA SelectReadInv ==
  ASSUME IInv, SelectRead
  PROVE  IInv'
<1> USE DEF IInv
<1>a. /\ access' \in {"boot", "user"} /\ faults' \in {faults, faults + 1} /\ faults \in Nat
      /\ pc = "select" /\ blk = 0 /\ ptn' = "boot"
      /\ boot' = boot
      /\ UNCHANGED <<user, gpt, blk, ubuffer, reply, ret, requested, sevens>>
      /\ \/ pc' = "chosen" /\ buffer' = buffer /\ faults' = faults + 1
         \/ pc' = "mirror" /\ buffer' = boot /\ boot.magic
         \/ pc' = "wdefault" /\ buffer' = DefaultVars /\ ~boot.magic
      /\ faults' = faults => access' = "user"
  BY NoBootWriteEffect, SwitchBackEffect DEF SelectRead, Marks, Writing, TypeOK
<1>b. /\ boot \in Copy /\ DefaultVars \in Copy /\ Unsigned(DefaultVars)
      /\ BlockOf \in [Vars -> 0 .. Blocks - 1]
  BY ConstantCopies, VarsAssumption DEF TypeOK
<1>1. TypeOK'
  BY <1>a, <1>b DEF TypeOK
<1>2. Marks'
  BY <1>a, <1>b DEF Marks, Writing, Signed, Unsigned
<1>3. Counted'
  BY <1>a DEF Counted, Signed
<1>4. Asked'
  BY <1>a DEF Asked, Signed
<1>5. Magics'
  BY <1>a DEF Magics, NothingAsked
<1>6. Progress'
  BY <1>a, <1>b DEF Progress, Waiting, Arrived, Signed
<1>7. Sevens'
  BY <1>a DEF Sevens, Signed
<1> QED
  BY <1>1, <1>2, <1>3, <1>4, <1>5, <1>6, <1>7

\* A block of the boot copy is written with the defaults: only a boot copy without the magic
\* is overwritten, and then nothing was asked for.
LEMMA SelectWriteDefaultInv ==
  ASSUME IInv, SelectWriteDefault
  PROVE  IInv'
<1> USE DEF IInv
<1>a. /\ pc = "wdefault"
      /\ access' \in {"boot", "user"}
      /\ faults' \in {faults, faults + 1} /\ faults \in Nat
      /\ boot' \in {boot, PutBlock(boot, buffer, blk)}
      /\ \/ /\ pc' = pc /\ access' = access
            /\ blk < Blocks - 1 /\ blk' = blk + 1
         \/ /\ pc' = "mirror" /\ blk = Blocks - 1 /\ access' = "user" /\ blk' = 0
         \/ /\ pc' = "mirror" /\ blk' = 0 /\ faults' = faults + 1
      /\ faults' = faults => boot' = PutBlock(boot, buffer, blk)
      /\ UNCHANGED <<user, gpt, buffer, ubuffer, ptn, reply, ret, requested, sevens>>
  BY WriteBootEffect DEF SelectWriteDefault, TypeOK
<1>b. /\ boot \in Copy /\ buffer \in Copy /\ user \in Copy /\ blk \in 0 .. Blocks - 1
      /\ Blocks \in Nat /\ Blocks > 1 /\ BlockOf \in [Vars -> 0 .. Blocks - 1]
      /\ "bootmode" \in Vars /\ "postmode" \in Vars
  BY VarsAssumption DEF TypeOK
<1> DEFINE P == PutBlock(boot, buffer, blk)
<1>c. Took(P, boot, buffer, blk)
  BY <1>b, PutBlockFields DEF P
<1> HIDE DEF P
<1>d. boot' \in {boot, P} /\ (faults' = faults => boot' = P)
  BY <1>a DEF P
<1>e. faults = 0 => /\ NothingAsked /\ buffer = DefaultVars
                    /\ buffer.magic /\ buffer.val["bootmode"] = "2"
  BY <1>a, ConstantCopies DEF Magics
<1>1. TypeOK'
  BY <1>a, <1>b, <1>c, <1>d DEF Took, TypeOK
<1>2. Marks'
  BY <1>a, <1>b, <1>c, <1>d DEF Took, Marks, Writing, Signed, Unsigned
<1>3. Counted'
  BY <1>a, <1>b DEF Counted, Signed
<1>4. Asked'
  BY <1>a DEF Asked, Signed
<1>5. Magics'
  BY <1>a, <1>b, <1>c, <1>d, <1>e DEF Took, Magics, NothingAsked
<1>6. Progress'
  BY <1>a, <1>b, <1>c, <1>d, <1>e DEF Took, Progress, NothingAsked
<1>7. Sevens'
  BY <1>a, <1>b, <1>c, <1>d, <1>e DEF Took, Sevens, Signed
<1> QED
  BY <1>1, <1>2, <1>3, <1>4, <1>5, <1>6, <1>7

\* A block of the user copy is written over; its signature, if it still has one, is gone
\* after the first two blocks.
LEMMA SelectMirrorInv ==
  ASSUME IInv, SelectMirror
  PROVE  IInv'
<1> USE DEF IInv
<1>a. /\ pc = "mirror" /\ access' = access
      /\ faults' \in {faults, faults + 1} /\ faults \in Nat
      /\ user' \in {user, PutBlock(user, buffer, blk)}
      /\ \/ /\ pc' = pc /\ blk < Blocks - 1 /\ blk' = blk + 1
         \/ /\ pc' = "postmode" /\ blk = Blocks - 1 /\ blk' = 0
         \/ /\ pc' = "postmode" /\ blk' = 0 /\ faults' = faults + 1
      /\ faults' = faults /\ access = "user" => user' = PutBlock(user, buffer, blk)
      /\ access # "user" => user' = user
      /\ UNCHANGED <<boot, gpt, buffer, ubuffer, ptn, reply, ret, requested, sevens>>
  BY WriteUserEffect DEF SelectMirror, TypeOK
<1>b. /\ boot \in Copy /\ buffer \in Copy /\ user \in Copy /\ blk \in 0 .. Blocks - 1
      /\ Blocks \in Nat /\ Blocks > 1 /\ BlockOf \in [Vars -> 0 .. Blocks - 1]
      /\ "bootmode" \in Vars /\ "postmode" \in Vars
  BY VarsAssumption DEF TypeOK
<1> DEFINE P == PutBlock(user, buffer, blk)
<1>c. Took(P, user, buffer, blk)
  BY <1>b, PutBlockFields DEF P
<1> HIDE DEF P
<1>d. /\ user' \in {user, P} /\ (faults' = faults /\ access = "user" => user' = P)
      /\ access # "user" => user' = user
  BY <1>a DEF P
<1>e. Unsigned(buffer)
  BY DEF Marks
<1>f. Signed(user') => /\ Signed(user) /\ user'.bitmap = user.bitmap
                       /\ user' # user => blk >= 2
                       /\ access = "user" /\ faults' = faults => blk >= 2
  BY <1>b, <1>c, <1>d, <1>e DEF Took, Signed, Unsigned
<1>g. Signed(user) => faults >= 1 /\ (access = "user" /\ blk >= 2 => faults >= 3)
  BY <1>a DEF Counted
<1>1. TypeOK'
  BY <1>a, <1>b, <1>c, <1>d DEF Took, TypeOK
<1>2. Marks'
  BY <1>a, <1>b, <1>c, <1>d, <1>e DEF Took, Marks, Writing, Signed, Unsigned
<1>3. Counted'
  BY <1>a, <1>b, <1>f, <1>g DEF Counted
<1>4. Asked'
  BY <1>a, <1>d, <1>f, <1>g DEF Asked
<1>5. Magics'
  BY <1>a, <1>b, <1>c, <1>d DEF Took, Magics, NothingAsked
<1>6. Progress'
  BY <1>a, <1>b, <1>c, <1>d, <1>g DEF Took, Progress, Magics, Waiting, Arrived, Id
<1>7. Sevens'
  BY <1>a, <1>f, <1>g DEF Sevens
<1> QED
  BY <1>1, <1>2, <1>3, <1>4, <1>5, <1>6, <1>7

\* Postmode is set in the boot copy.
LEMMA SelectPostmodeInv ==
  ASSUME IInv, SelectPostmode
  PROVE  IInv'
<1> USE DEF IInv
<1>0. "1" \in Values /\ "postmode" \in Vars /\ "bootmode" \in Vars
  BY ValuesMembers, VarsAssumption
<1>a. /\ pc = "postmode" /\ pc' = "bootmode"
      /\ access' \in {"boot", "user"}
      /\ faults' \in {faults, faults + 1} /\ faults \in Nat
      /\ boot' \in Copy
      /\ boot'.magic = boot.magic /\ boot'.sigA = boot.sigA /\ boot'.sigB = boot.sigB
      /\ \A w \in Vars \ {"postmode"} : boot'.val[w] = boot.val[w]
      /\ faults' = faults => access' = "user"
      /\ UNCHANGED <<user, gpt, blk, buffer, ubuffer, ptn, reply, ret, requested, sevens>>
  BY <1>0, UpdateVarEffect DEF SelectPostmode, memory, TypeOK
<1>b. boot \in Copy /\ user \in Copy /\ blk = 0
  BY <1>a DEF TypeOK, Marks, Writing
<1>1. TypeOK'
  BY <1>a DEF TypeOK
<1>2. Marks'
  BY <1>a, <1>b DEF Marks, Writing, Signed, Unsigned
<1>3. Counted'
  BY <1>a DEF Counted, Signed
<1>4. Asked'
  BY <1>a DEF Asked, Signed
<1>5. Magics'
  BY <1>a DEF Magics, NothingAsked
<1>6. Progress'
  BY <1>a, <1>0 DEF Progress, Waiting, Arrived, Signed, Id
<1>7. Sevens'
  BY <1>a, <1>0 DEF Sevens, Signed
<1> QED
  BY <1>1, <1>2, <1>3, <1>4, <1>5, <1>6, <1>7

\* The switch on bootmode: a '7' is taken out of the boot copy when it has selected recovery.
LEMMA SelectBootmodeInv ==
  ASSUME IInv, SelectBootmode
  PROVE  IInv'
<1> USE DEF IInv
<1>0. "1" \in Values /\ "postmode" \in Vars /\ "bootmode" \in Vars
  BY ValuesMembers, VarsAssumption
<1> DEFINE mode == buffer.val["bootmode"]
<1>a. /\ pc = "bootmode" /\ pc' = "chosen"
      /\ access' \in {"boot", "user"}
      /\ faults' \in {faults, faults + 1} /\ faults \in Nat
      /\ boot' \in Copy
      /\ boot'.magic = boot.magic /\ boot'.sigA = boot.sigA /\ boot'.sigB = boot.sigB
      /\ \A w \in Vars \ {"bootmode"} : boot'.val[w] = boot.val[w]
      /\ faults' = faults => access' = "user" \/ access' = access
      /\ \/ /\ mode = "7" /\ sevens' = sevens + 1
            /\ faults' = faults => boot'.val["bootmode"] = "1"
         \/ mode # "7" /\ sevens' = sevens /\ boot' = boot
  <2>1. CASE mode = "7" /\ Consume7 /\ sevens' = sevens + 1
    BY <2>1, <1>0, UpdateVarEffect DEF Consume7, SelectBootmode, TypeOK
  <2>2. CASE mode # "7" /\ pc' = "chosen" /\ UNCHANGED <<boot, access, faults, sevens>>
    BY <2>2 DEF SelectBootmode, TypeOK
  <2> QED
    BY <2>1, <2>2 DEF SelectBootmode
<1>b. /\ buffer' = Blank /\ ptn' \in {"boot", "dkernel", "recovery"}
      /\ UNCHANGED <<user, gpt, blk, ubuffer, reply, ret, requested>>
  BY DEF SelectBootmode, Image
<1>c. boot \in Copy /\ user \in Copy /\ blk = 0 /\ sevens \in Nat
  BY <1>a DEF TypeOK, Marks, Writing
<1>d. faults = 0 => /\ boot.val["bootmode"] = mode
                    /\ ~Signed(user)
  BY <1>a, <1>0 DEF Progress, Counted
<1> HIDE DEF mode
<1>1. TypeOK'
  BY <1>a, <1>b, ConstantCopies DEF TypeOK
<1>2. Marks'
  BY <1>a, <1>b, <1>c, ConstantCopies DEF Marks, Writing, Signed, Unsigned
<1>3. Counted'
  BY <1>a, <1>b DEF Counted, Signed
<1>4. Asked'
  BY <1>a, <1>b DEF Asked, Signed
<1>5. Magics'
  BY <1>a, <1>b DEF Magics, NothingAsked
<1>6. Progress'
  BY <1>a, <1>b, <1>0 DEF Progress, Waiting, Arrived, Signed, Id
<1>7. Sevens'
  BY <1>a, <1>b, <1>c, <1>d, <1>0 DEF Sevens, Signed
<1> QED
  BY <1>1, <1>2, <1>3, <1>4, <1>5, <1>6, <1>7

-----------------------------------------------------------------------------
(***************************************************************************)
(* fastboot oem idme, and the running system.                              *)
(***************************************************************************)

\* A command forgets what was asked for in the variables it touches, except for what a
\* signed user copy will still bring.
LEMMA ForgetEffect ==
  ASSUME IInv, NEW V, Forget(V)
  PROVE  /\ requested' \in [Vars -> Values \cup {"none"}]
         /\ \A v \in Vars : requested'[v] = "none" \/ (requested'[v] = requested[v] /\ (v \notin V \/ Waiting(v)))
         /\ \A v \in Vars : Waiting(v) => requested'[v] = requested[v]
         /\ faults < 3 /\ Signed(user) =>
              \A v \in Id \cap user.bitmap : requested'[v] = requested[v]
  BY DEF Forget, TypeOK, IInv, Asked, Marks, Waiting, Id

\* idme <variable> <value>, and idme count.
LEMMA OemUpdateInv ==
  ASSUME IInv, NEW v \in Vars, NEW x \in Values, NEW answer \in {"OKAY", "FAIL"},
         OemUpdate(v, x, answer)
  PROVE  IInv'
<1> USE DEF IInv
<1>0. "postmode" \in Vars /\ "bootmode" \in Vars
  BY VarsAssumption
<1>a. /\ pc = "fastboot" /\ pc' = "fastboot"
      /\ access' \in {"boot", "user"}
      /\ faults' \in {faults, faults + 1} /\ faults \in Nat
      /\ boot' \in Copy
      /\ boot'.magic = boot.magic /\ boot'.sigA = boot.sigA /\ boot'.sigB = boot.sigB
      /\ \A w \in Vars \ {v} : boot'.val[w] = boot.val[w]
      /\ faults' = faults => access' = "user"
      /\ reply' = answer /\ sevens' = IF v = "bootmode" THEN 0 ELSE sevens
      /\ UNCHANGED <<user, gpt, blk, buffer, ubuffer, ptn, ret>>
  BY UpdateVarEffect DEF OemUpdate, TypeOK
<1>b. /\ requested' \in [Vars -> Values \cup {"none"}]
      /\ \A w \in Vars : requested'[w] = "none" \/ (requested'[w] = requested[w] /\ (w # v \/ Waiting(w)))
      /\ faults < 3 /\ Signed(user) => \A w \in Id \cap user.bitmap : requested'[w] = requested[w]
  BY ForgetEffect DEF OemUpdate
<1>c. boot \in Copy /\ user \in Copy /\ blk = 0
  BY <1>a DEF TypeOK, Marks, Writing
<1>d. faults = 0 => ~Signed(user)
  BY <1>a DEF Counted
<1>1. TypeOK'
  BY <1>a, <1>b DEF TypeOK
<1>2. Marks'
  BY <1>a, <1>c DEF Marks, Writing, Signed, Unsigned
<1>3. Counted'
  BY <1>a DEF Counted, Signed
<1>4. Asked'
  BY <1>a, <1>b DEF Asked, Signed
<1>5. Magics'
  BY <1>a, <1>b DEF Magics, NothingAsked, Id
<1>6. Progress'
  BY <1>a, <1>b, <1>d DEF Progress, Waiting, Arrived, Id
<1>7. Sevens'
  BY <1>a, <1>0, <1>d DEF Sevens, Signed
<1> QED
  BY <1>1, <1>2, <1>3, <1>4, <1>5, <1>6, <1>7

\* idme magic.
LEMMA OemMagicInv ==
  ASSUME IInv, OemMagic
  PROVE  IInv'
<1> USE DEF IInv
<1> DEFINE M == [Blank EXCEPT !.magic = TRUE]
           P == PutBlock(boot, M, 0)
           V == { v \in Vars : BlockOf[v] = 0 }
<1>0. /\ "postmode" \in Vars /\ "bootmode" \in Vars
      /\ Blocks \in Nat /\ Blocks > 1 /\ BlockOf \in [Vars -> 0 .. Blocks - 1]
      /\ boot \in Copy /\ user \in Copy
  BY VarsAssumption DEF TypeOK
<1>m. /\ M \in Copy /\ Unsigned(M) /\ M.magic
      /\ \A v \in Vars : M.val[v] = "zero"
  BY ValuesMembers DEF Blank, Copy, Unsigned
<1>p. Took(P, boot, M, 0)
  BY <1>0, <1>m, PutBlockFields
<1>a. /\ pc = "fastboot" /\ pc' = "fastboot"
      /\ access' \in {"boot", "user"}
      /\ faults' \in {faults, faults + 1} /\ faults \in Nat
      /\ boot' \in {boot, P}
      /\ faults' = faults => access' = "user"
      /\ reply' \in {"OKAY", "FAIL"}
      /\ UNCHANGED <<user, gpt, blk, buffer, ubuffer, ptn, ret, sevens>>
      /\ Forget(V)
  BY SwitchBackEffect, NoBootWriteEffect DEF OemMagic, Fails, SwitchAfterError, TypeOK
<1>b. /\ requested' \in [Vars -> Values \cup {"none"}]
      /\ \A w \in Vars : requested'[w] = "none" \/ (requested'[w] = requested[w] /\ (w \notin V \/ Waiting(w)))
      /\ faults < 3 /\ Signed(user) => \A w \in Id \cap user.bitmap : requested'[w] = requested[w]
  BY <1>a, ForgetEffect
<1>c. blk = 0
  BY <1>a DEF Marks, Writing
<1>d. faults = 0 => ~Signed(user)
  BY <1>a DEF Counted
<1> HIDE DEF M, P
<1>e. /\ boot' \in Copy /\ Unsigned(boot') /\ (boot.magic => boot'.magic)
      /\ \A v \in Vars : boot'.val[v] # boot.val[v] => v \in V /\ boot'.val[v] = "zero"
  BY <1>0, <1>m, <1>p, <1>a DEF Took, Unsigned, Marks
<1>1. TypeOK'
  BY <1>a, <1>b, <1>e DEF TypeOK
<1>2. Marks'
  BY <1>a, <1>c, <1>e DEF Marks, Writing, Signed, Unsigned
<1>3. Counted'
  BY <1>a DEF Counted, Signed
<1>4. Asked'
  BY <1>a, <1>b DEF Asked, Signed
<1>5. Magics'
  BY <1>a, <1>b, <1>e DEF Magics, NothingAsked, Id
<1>6. Progress'
  BY <1>a, <1>b, <1>d, <1>e DEF Progress, Waiting, Arrived, Id
<1>7. Sevens'
  BY <1>a, <1>0, <1>d, <1>e DEF Sevens, Signed
<1> QED
  BY <1>1, <1>2, <1>3, <1>4, <1>5, <1>6, <1>7

\* idme clean: from here on nothing is asked for, unless a fault left the user copy signed.
LEMMA OemCleanInv ==
  ASSUME IInv, OemClean
  PROVE  IInv'
<1> USE DEF IInv
<1>a. /\ pc = "fastboot" /\ pc' = "cleanuser" /\ blk' = 0 /\ Forget(Vars)
      /\ UNCHANGED <<boot, user, gpt, access, buffer, ubuffer, ptn, reply, ret, sevens, faults>>
  BY DEF OemClean, copies
<1>b. /\ requested' \in [Vars -> Values \cup {"none"}]
      /\ \A w \in Vars : requested'[w] = "none" \/ (requested'[w] = requested[w] /\ Waiting(w))
      /\ faults < 3 /\ Signed(user) => \A w \in Id \cap user.bitmap : requested'[w] = requested[w]
  BY <1>a, ForgetEffect
<1>d. faults = 0 => ~Signed(user)
  BY <1>a DEF Counted
<1>e. faults = 0 => NothingAsked'
  BY <1>b, <1>d DEF Waiting, NothingAsked, Id
<1>1. TypeOK'
  BY <1>a, <1>b, VarsAssumption DEF TypeOK
<1>2. Marks'
  BY <1>a DEF Marks, Writing, Signed, Unsigned
<1>3. Counted'
  BY <1>a DEF Counted, Signed
<1>4. Asked'
  BY <1>a, <1>b DEF Asked, Signed
<1>5. Magics'
  BY <1>a, <1>e DEF Magics
<1>6. Progress'
  BY <1>a, <1>e DEF Progress, NothingAsked
<1>7. Sevens'
  BY <1>a DEF Sevens, Signed
<1> QED
  BY <1>1, <1>2, <1>3, <1>4, <1>5, <1>6, <1>7

\* A block of the user copy is zeroed.
LEMMA CleanUserInv ==
  ASSUME IInv, CleanUser
  PROVE  IInv'
<1> USE DEF IInv
<1>a. /\ pc = "cleanuser" /\ access' = access
      /\ faults' \in {faults, faults + 1} /\ faults \in Nat
      /\ user' \in {user, PutBlock(user, Blank, blk)}
      /\ \/ /\ pc' = pc /\ blk < Blocks - 1 /\ blk' = blk + 1
         \/ /\ pc' = "cleanboot" /\ blk = Blocks - 1 /\ blk' = 0
         \/ /\ pc' = "cleanboot" /\ blk' = 0 /\ faults' = faults + 1
      /\ faults' = faults /\ access = "user" => user' = PutBlock(user, Blank, blk)
      /\ access # "user" => user' = user
      /\ UNCHANGED <<boot, gpt, buffer, ubuffer, ptn, reply, ret, requested, sevens>>
  BY WriteUserEffect, ConstantCopies DEF CleanUser, TypeOK
<1>b. /\ boot \in Copy /\ user \in Copy /\ blk \in 0 .. Blocks - 1
      /\ Blocks \in Nat /\ Blocks > 1 /\ BlockOf \in [Vars -> 0 .. Blocks - 1]
      /\ Unsigned(Blank) /\ ~Blank.magic
  BY VarsAssumption, ConstantCopies DEF TypeOK
<1> DEFINE P == PutBlock(user, Blank, blk)
<1>c. Took(P, user, Blank, blk)
  BY <1>b, ConstantCopies, PutBlockFields DEF P
<1> HIDE DEF P
<1>d. /\ user' \in {user, P} /\ (faults' = faults /\ access = "user" => user' = P)
      /\ access # "user" => user' = user
  BY <1>a DEF P
<1>f. Signed(user') => /\ Signed(user) /\ user'.bitmap = user.bitmap
                       /\ user' # user => blk >= 2
                       /\ access = "user" /\ faults' = faults => blk >= 2
  BY <1>b, <1>c, <1>d DEF Took, Signed, Unsigned
<1>g. Signed(user) => faults >= 1 /\ (access = "user" /\ blk >= 2 => faults >= 3)
  BY <1>a DEF Counted
<1>h. faults = 0 => NothingAsked
  BY <1>a DEF Magics
<1>1. TypeOK'
  BY <1>a, <1>b, <1>c, <1>d DEF Took, TypeOK
<1>2. Marks'
  BY <1>a, <1>b, <1>c, <1>d DEF Took, Marks, Writing, Signed, Unsigned
<1>3. Counted'
  BY <1>a, <1>b, <1>f, <1>g DEF Counted
<1>4. Asked'
  BY <1>a, <1>d, <1>f, <1>g DEF Asked
<1>5. Magics'
  BY <1>a, <1>b, <1>c, <1>d DEF Took, Magics, NothingAsked
<1>6. Progress'
  BY <1>a, <1>h DEF Progress, NothingAsked
<1>7. Sevens'
  BY <1>a, <1>f, <1>g DEF Sevens
<1> QED
  BY <1>1, <1>2, <1>3, <1>4, <1>5, <1>6, <1>7

\* A block of the boot copy is zeroed: the user copy has no magic any more.
LEMMA CleanBootInv ==
  ASSUME IInv, CleanBoot
  PROVE  IInv'
<1> USE DEF IInv
<1>a. /\ pc = "cleanboot"
      /\ access' \in {"boot", "user"}
      /\ faults' \in {faults, faults + 1} /\ faults \in Nat
      /\ boot' \in {boot, PutBlock(boot, Blank, blk)}
      /\ \/ /\ pc' = pc /\ access' = access
            /\ blk < Blocks - 1 /\ blk' = blk + 1
         \/ /\ pc' = "fastboot" /\ blk = Blocks - 1 /\ access' = "user" /\ blk' = 0
         \/ /\ pc' = "fastboot" /\ blk' = 0 /\ faults' = faults + 1
      /\ reply' \in {reply, "OKAY"}
      /\ UNCHANGED <<user, gpt, buffer, ubuffer, ptn, ret, requested, sevens>>
  BY WriteBootEffect, ConstantCopies DEF CleanBoot, TypeOK
<1>b. /\ boot \in Copy /\ user \in Copy /\ blk \in 0 .. Blocks - 1
      /\ Blocks \in Nat /\ Blocks > 1 /\ BlockOf \in [Vars -> 0 .. Blocks - 1]
      /\ "bootmode" \in Vars
  BY VarsAssumption DEF TypeOK
<1> DEFINE P == PutBlock(boot, Blank, blk)
<1>c. Took(P, boot, Blank, blk)
  BY <1>b, ConstantCopies, PutBlockFields DEF P
<1> HIDE DEF P
<1>d. boot' \in {boot, P}
  BY <1>a DEF P
<1>e. Unsigned(boot') /\ (boot'.val["bootmode"] = "7" => boot.val["bootmode"] = "7")
  BY <1>b, <1>c, <1>d, ConstantCopies DEF Took, Marks, Unsigned
<1>h. faults = 0 => NothingAsked /\ ~user.magic
  BY <1>a DEF Magics
<1>1. TypeOK'
  BY <1>a, <1>b, <1>c, <1>d DEF Took, TypeOK
<1>2. Marks'
  BY <1>a, <1>e DEF Marks, Writing, Signed
<1>3. Counted'
  BY <1>a, <1>b DEF Counted, Signed
<1>4. Asked'
  BY <1>a DEF Asked, Signed
<1>5. Magics'
  BY <1>a, <1>h DEF Magics, NothingAsked
<1>6. Progress'
  BY <1>a, <1>h DEF Progress, NothingAsked
<1>7. Sevens'
  BY <1>a, <1>e DEF Sevens, Signed
<1> QED
  BY <1>1, <1>2, <1>3, <1>4, <1>5, <1>6, <1>7

\* The running system asks for an update: it signs the user copy, which then holds the values
\* asked for and nothing else under the bitmap.
LEMMA OsUpdateInv ==
  ASSUME IInv, NEW f \in Updates, OsUpdate(f)
  PROVE  IInv'
<1> USE DEF IInv
<1>0. /\ DOMAIN f \subseteq Vars /\ \A v \in DOMAIN f : f[v] \in Values
      /\ user \in Copy /\ user.val \in [Vars -> Values]
      /\ "bootmode" \in Vars
  BY ValuesMembers, VarsAssumption DEF TypeOK, Copy
<1>a. /\ pc = "os" /\ user.magic
      /\ UNCHANGED <<boot, gpt, access, pc, blk, buffer, ubuffer, ptn, reply, ret, faults>>
      /\ sevens' = IF "bootmode" \in DOMAIN f THEN 0 ELSE sevens
  BY DEF OsUpdate, memory
<1>b. /\ user' \in Copy /\ user'.magic /\ Signed(user') /\ user'.bitmap = DOMAIN f
      /\ \A v \in DOMAIN f : user'.val[v] = f[v]
  BY <1>0, <1>a DEF OsUpdate, Copy, Signed
<1>c. requested' = [v \in Vars |-> IF v \in DOMAIN f THEN f[v] ELSE "none"]
  BY DEF OsUpdate
<1>d. faults = 0 => boot.magic
  BY <1>a DEF Magics
<1>1. TypeOK'
  BY <1>0, <1>a, <1>b, <1>c DEF TypeOK
<1>2. Marks'
  BY <1>a, <1>b DEF Marks, Writing, Unsigned
<1>3. Counted'
  BY <1>a DEF Counted
<1>4. Asked'
  BY <1>a, <1>b, <1>c DEF Asked, Id
<1>5. Magics'
  BY <1>a, <1>b, <1>d DEF Magics
<1>6. Progress'
  BY <1>a, <1>b, <1>c DEF Progress, Waiting, Id
<1>7. Sevens'
  BY <1>0, <1>a, <1>b DEF Sevens
<1> QED
  BY <1>1, <1>2, <1>3, <1>4, <1>5, <1>6, <1>7

-----------------------------------------------------------------------------
(***************************************************************************)
(* The theorems.                                                           *)
(***************************************************************************)

\* The invariant holds at first: no copy is signed and nothing was asked for.
LEMMA InitInv == Init => IInv
<1> SUFFICES ASSUME Init PROVE IInv
  OBVIOUS
<1>0. "bootmode" \in Vars /\ Blocks \in Nat /\ Blocks > 1
  BY VarsAssumption
<1>a. /\ boot \in {Blank, Factory} /\ user = Blank /\ buffer = Blank /\ ubuffer = Blank
      /\ access = "user" /\ pc = "off" /\ blk = 0 /\ faults = 0 /\ sevens = 0
      /\ requested = [v \in Vars |-> "none"]
  BY DEF Init
<1>b. ~Signed(user) /\ ~user.magic /\ Unsigned(boot) /\ Unsigned(user)
  BY <1>a, ConstantCopies DEF Signed, Unsigned
<1>1. TypeOK
  BY <1>0, <1>a, ConstantCopies DEF Init, TypeOK
<1>2. Marks
  BY <1>a, <1>b DEF Marks, Writing
<1>3. Counted
  BY <1>b DEF Counted
<1>4. Asked
  BY <1>a, <1>b DEF Asked
<1>5. Magics
  BY <1>a, <1>b DEF Magics, NothingAsked, Id
<1>6. Progress
  BY <1>a DEF Progress, Id
<1>7. Sevens
  BY <1>a DEF Sevens
<1> QED
  BY <1>1, <1>2, <1>3, <1>4, <1>5, <1>6, <1>7 DEF IInv

\* A step that changes nothing keeps the invariant.
LEMMA StutterInv ==
  ASSUME IInv, UNCHANGED vars
  PROVE  IInv'
  BY DEF IInv, TypeOK, Marks, Counted, Asked, Magics, Progress, Sevens, NothingAsked,
         Waiting, Arrived, vars, copies, memory, history

\* Every step keeps the invariant.
LEMMA NextInv ==
  ASSUME IInv, [Next]_vars
  PROVE  IInv'
<1>1. CASE PowerOn \/ Window \/ Load \/ LeaveFastboot
  BY <1>1, MoveInv
<1>2. CASE Bootloader
  BY <1>2, MoveInv, UpdateReadInv, UpdateWriteBootInv, UpdateWriteUserInv, LoadPtblInv,
     SelectReadInv, SelectWriteDefaultInv, SelectMirrorInv, SelectPostmodeInv,
     SelectBootmodeInv, CleanUserInv, CleanBootInv DEF Bootloader
<1>3. CASE \/ \E f \in Updates : \E v \in DOMAIN f : OemSet(v, f[v]) \/ OemSet(v, "zero")
           \/ OemCount
  BY <1>3, OemUpdateInv, ValuesMembers, VarsAssumption DEF OemSet, OemCount
<1>4. CASE OemMagic \/ OemClean
  BY <1>4, OemMagicInv, OemCleanInv
<1>5. CASE \E f \in Updates : OsUpdate(f)
  BY <1>5, OsUpdateInv
<1>6. CASE Shutdown \/ PowerCut
  BY <1>6, OffInv DEF Shutdown, PowerCut
<1>7. CASE UNCHANGED vars
  BY <1>7, StutterInv
<1> QED
  BY <1>1, <1>2, <1>3, <1>4, <1>5, <1>6, <1>7 DEF Next

\* The invariant is inductive, so it holds throughout.
THEOREM Invariance == Spec => []IInv
<1>1. Init => IInv
  BY InitInv
<1>2. IInv /\ [Next]_vars => IInv'
  BY NextInv
<1> QED
  BY <1>1, <1>2, PTL DEF Spec

\* Both copies and both buffers remain copies, and every other variable keeps its type,
\* whatever the storage and the power do.
THEOREM TypeCorrect == Spec => []TypeOK
<1>1. IInv => TypeOK
  BY DEF IInv
<1> QED
  BY <1>1, Invariance, PTL

\* idme_update_vars_ex() writes the boot copy before it clears the signature: no power cut
\* loses a value the system asked for.
THEOREM UpdatesSurvive == Spec => []NoLostUpdate
<1>1. IInv => NoLostUpdate
  BY DEF IInv, Progress, NoLostUpdate, Id
<1> QED
  BY <1>1, Invariance, PTL

\* idme_select_boot_image() takes bootmode '7' back before it starts recovery, and no copy
\* brings it back: one request selects recovery at most once.
THEOREM RecoveryOnce == Spec => []SevenOnce
<1>1. IInv => SevenOnce
  BY DEF IInv, Sevens, SevenOnce
<1> QED
  BY <1>1, Invariance, PTL

\* When idme_select_boot_image() has chosen, the two copies agree and the user copy is
\* unsigned.
THEOREM CopiesAgree == Spec => []Mirrored
<1>1. IInv => Mirrored
  BY DEF IInv, Progress, Counted, Mirrored, Id, TypeOK
<1> QED
  BY <1>1, Invariance, PTL

\* Up to two storage faults and any number of power cuts: only a value that was asked for
\* replaces an identity variable of a valid boot copy.
THEOREM OnlyAskedFor == Spec => IdentityKept
<1> DEFINE Kept == faults < 3 =>
                     \A v \in Vars \ {"bootmode", "postmode"} :
                       boot'.val[v] # boot.val[v] =>
                         \/ boot'.val[v] = requested[v]
                         \/ pc \in {"fastboot", "cleanboot", "wdefault"}
<1>1. ASSUME IInv, [Next]_vars
      PROVE  Kept
  <2> SUFFICES ASSUME faults < 3, pc \notin {"fastboot", "cleanboot", "wdefault"},
                      NEW v \in Id, boot'.val[v] # boot.val[v]
               PROVE  boot'.val[v] = requested[v]
    BY DEF Id
  <2> USE <1>1 DEF IInv
  <2>1. CASE UpdateWriteBoot
    <3>1. boot' \in {boot, PutBlock(boot, buffer, blk)} /\ pc = "wboot"
      BY <2>1, WriteBootEffect DEF UpdateWriteBoot, TypeOK
    <3>2. Took(PutBlock(boot, buffer, blk), boot, buffer, blk)
      BY PutBlockFields DEF TypeOK
    <3>3. boot'.val[v] = buffer.val[v]
      BY <3>1, <3>2 DEF Took, Id
    <3> QED
      BY <3>1, <3>3 DEF Asked
  <2>2. CASE SelectPostmode
    <3>1. "1" \in Values /\ "postmode" \in Vars
      BY ValuesMembers, VarsAssumption
    <3> QED
      BY <2>2, <3>1, UpdateVarEffect DEF SelectPostmode, Id
  <2>3. CASE SelectBootmode
    <3>1. "1" \in Values /\ "bootmode" \in Vars
      BY ValuesMembers, VarsAssumption
    <3> QED
      BY <2>3, <3>1, UpdateVarEffect DEF SelectBootmode, Consume7, Id
  <2>4. CASE UpdateRead \/ SelectRead
    BY <2>4 DEF UpdateRead, SelectRead, NoBootWrite
  <2>5. CASE \/ PowerOn \/ UpdateWriteUser \/ LoadPtbl \/ SelectMirror \/ Window \/ Load
             \/ CleanUser \/ OemClean \/ LeaveFastboot \/ Shutdown \/ PowerCut
             \/ (\E f \in Updates : OsUpdate(f)) \/ UNCHANGED vars
    BY <2>5 DEF PowerOn, UpdateWriteUser, LoadPtbl, SelectMirror, Window, Load, CleanUser,
                OemClean, LeaveFastboot, Shutdown, PowerCut, Off, OsUpdate, vars, copies
  <2>6. CASE \/ SelectWriteDefault \/ CleanBoot \/ OemMagic \/ OemCount
             \/ (\E f \in Updates : \E w \in DOMAIN f : OemSet(w, f[w]) \/ OemSet(w, "zero"))
    BY <2>6 DEF SelectWriteDefault, CleanBoot, OemMagic, OemSet, OemCount, OemUpdate
  <2> QED
    BY <2>1, <2>2, <2>3, <2>4, <2>5, <2>6 DEF Next, Bootloader
<1>2. IInv /\ [Next]_vars => [Kept]_vars
  BY <1>1
<1> QED
  BY <1>2, Invariance, PTL DEF Spec, IdentityKept

\* As long as no access to the storage has failed, load_ptbl() replaces no table that is there:
\* a failed switch of the hardware partition is what it takes to make TableKept false.
THEOREM TableKeptWithoutFaults ==
  Spec => [][faults = 0 => (gpt' # gpt => gpt = "none")]_vars
<1>1. ASSUME IInv, [Next]_vars, faults = 0, gpt' # gpt
      PROVE  gpt = "none"
  <2>1. LoadPtbl
    BY <1>1 DEF Next, Bootloader, PowerOn, UpdateRead, UpdateWriteBoot, UpdateWriteUser, SelectRead,
                SelectWriteDefault, SelectMirror, SelectPostmode, SelectBootmode, UpdateVar, Window,
                Load, OemSet, OemCount, OemUpdate, OemMagic, OemClean, CleanUser, CleanBoot, LeaveFastboot, Shutdown,
                PowerCut, Off, OsUpdate, vars
  <2>2. access = "user"
    BY <1>1 DEF IInv, Magics
  <2> QED
    BY <1>1, <2>1, <2>2 DEF LoadPtbl, TableFound
<1>2. IInv /\ [Next]_vars => [faults = 0 => (gpt' # gpt => gpt = "none")]_vars
  BY <1>1
<1> QED
  BY <1>2, Invariance, PTL DEF Spec
=============================================================================
