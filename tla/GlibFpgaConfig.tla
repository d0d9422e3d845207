-------------------------- MODULE GlibFpgaConfig --------------------------
(***************************************************************************)
(* The firmware images in the flash memory of the GLIB boards              *)
(* (GlibFpgaConfig.cc): a detached thread reads an MCS file, record by     *)
(* record, and writes its data to the blocks of the golden or of the user  *)
(* image.  A record becomes commands to the flash: unlock, erase, program  *)
(* and lock a block.                                                       *)
(*                                                                         *)
(* The flash is external: it refuses to program or erase a locked block;   *)
(* a change of the lock may not succeed at once; it may report an error.   *)
(***************************************************************************)
EXTENDS Integers, Sequences

CONSTANTS GlibBoards,
          Files,              (* sizes of files, in data records           *)
          HigherGolden, LowerGolden, HigherUser, LowerUser,
                              (* 130, 67, 66 and 11 in the code            *)
          Ela,                (* records of an ELA, half a block           *)
          max_write_buffer,   (* records programmed at once                *)
          Attempts,           (* 5 in the code                             *)
          MaxFlashFaults, MaxFlashOps   (* bounds                          *)

ASSUME GlibAssumption ==
    /\ {HigherGolden, LowerGolden, HigherUser, LowerUser, Ela, Attempts, max_write_buffer,
        MaxFlashFaults, MaxFlashOps} \subseteq Nat /\ Files \subseteq Nat \ {0}
    /\ LowerUser <= HigherUser /\ HigherUser < LowerGolden /\ LowerGolden <= HigherGolden
    /\ Ela > 0 /\ max_write_buffer > 0 /\ Ela % max_write_buffer = 0

VARIABLES
    glib,            (* the kind of board                                  *)
    uploading,       (* numUploadingFpga: 1 golden, 2 user                 *)
    thread,          (* "none", "reads", "done", "terminate"               *)
    mcs,             (* the records still to read                          *)
    cmds,            (* commands of this record still to do                *)
    iAttempt,
    block_number, first_ela_in_block, first_block,
    unlock_and_erase_block,
    write_buffer, data_address,
    flash,           (* the blocks: locked, and their words                *)
    flashFaults, flashOps, page,
    size             (* history: data records of the file                  *)

parse == <<mcs, block_number, first_ela_in_block, first_block,
           unlock_and_erase_block, write_buffer, data_address>>
glibVars == <<glib, uploading, thread, cmds, iAttempt, parse, flash, flashFaults, flashOps, page, size>>

Blocks == 0 .. HigherGolden
Offsets == 0 .. 2 * Ela - 1
Higher == IF uploading = 1 THEN HigherGolden ELSE HigherUser
Lower  == IF uploading = 1 THEN LowerGolden ELSE LowerUser

(* An MCS file of n data records: every ELA begins with a record of its    *)
(* own, and its data records follow each other.                            *)
ElaRecord(e) == [type |-> "04", ela |-> e, address |-> 0]
Data(e, a)   == [type |-> "00", ela |-> e, address |-> a]
Word(r)      == Ela * r.ela + r.address
Erased == -1
Old    == -2
Mcs(n) == [k \in 1 .. n + (n + Ela - 1) \div Ela + 1 |->
             IF k = n + (n + Ela - 1) \div Ela + 1 THEN [type |-> "01", ela |-> 0, address |-> 0]
             ELSE IF (k - 1) % (Ela + 1) = 0 THEN ElaRecord((k - 1) \div (Ela + 1))
             ELSE Data((k - 1) \div (Ela + 1), ((k - 1) % (Ela + 1)) - 1)]

InitGlib ==
    /\ glib \in GlibBoards /\ uploading = 0 /\ thread = "none" /\ mcs = <<>>
    /\ cmds = <<>> /\ iAttempt = 0 /\ block_number = 0
    /\ first_ela_in_block = 0 /\ first_block = TRUE /\ unlock_and_erase_block = FALSE
    /\ write_buffer = <<>> /\ data_address = 0
    /\ flash = [b \in Blocks |-> [locked |-> TRUE, words |-> [o \in Offsets |-> Old]]]
    /\ flashFaults = 0 /\ flashOps = 0 /\ page = 0 /\ size = 0
-----------------------------------------------------------------------------
Free == flashOps < MaxFlashOps /\ flashOps' = flashOps + 1 /\ thread # "terminate"

GlibFlashProm ==
    /\ Free
    /\ IF uploading > 0 THEN UNCHANGED <<uploading, thread, mcs, size>>
       ELSE /\ uploading' \in {1, 2} /\ thread' = "reads"
            /\ size' \in Files /\ mcs' = Mcs(size')
    /\ UNCHANGED <<glib, cmds, iAttempt, block_number, first_ela_in_block,
                   first_block, unlock_and_erase_block, write_buffer, data_address, flash,
                   flashFaults, page>>

(* jumpToImage() chooses the page the FPGA is loaded from; resetBoard().   *)
GlibJump ==
    /\ Free
    /\ IF uploading > 0 THEN UNCHANGED page ELSE page' \in {0, 2}
    /\ UNCHANGED <<glib, uploading, thread, cmds, iAttempt, parse, flash, flashFaults, size>>

Reads == thread = "reads" /\ cmds = <<>>
Lock(b)   == [do |-> "lock", block |-> b]
Unlock(b) == [do |-> "unlock", block |-> b]
Erase(b)  == [do |-> "erase", block |-> b]
Program(b) == [do |-> "program", block |-> b]

(* A new ELA: the block it is in; a block that begins locks the one before *)
(* and is unlocked and erased when its first data comes.                   *)
ReadEla ==
    /\ Reads /\ Head(mcs).type = "04"
    /\ LET e == Head(mcs).ela IN
       /\ first_ela_in_block' = e % 2
       /\ block_number' = Higher - e \div 2
       /\ IF block_number' < Lower
          THEN thread' = "terminate" /\ UNCHANGED <<cmds, first_block, unlock_and_erase_block>>
          ELSE /\ cmds' = (IF e % 2 = 0 /\ ~first_block THEN << Lock(block_number) >> ELSE <<>>)
               /\ first_block' = (first_block /\ e % 2 # 0)
               /\ unlock_and_erase_block' = (unlock_and_erase_block \/ e % 2 = 0)
               /\ UNCHANGED thread
    /\ mcs' = Tail(mcs)
    /\ UNCHANGED <<glib, uploading, iAttempt, write_buffer, data_address, flash, flashFaults,
                   flashOps, page, size>>

(* Faulty variant: the second half of a block is written over the first.   *)
ReadData_NoEla ==
    /\ Reads /\ Head(mcs).type = "00"
    /\ write_buffer' = Append(write_buffer, Word(Head(mcs)))
    /\ data_address' = (IF write_buffer = <<>> THEN Head(mcs).address ELSE data_address)
    /\ cmds' = (IF unlock_and_erase_block THEN << Unlock(block_number), Erase(block_number) >>
                ELSE <<>>)
               \o (IF Len(write_buffer') = max_write_buffer THEN << Program(block_number) >>
                   ELSE <<>>)
    /\ unlock_and_erase_block' = FALSE
    /\ mcs' = Tail(mcs)
    /\ UNCHANGED <<glib, uploading, thread, iAttempt, block_number,
                   first_ela_in_block, first_block, flash, flashFaults, flashOps, page, size>>

(* Data: it is added to the buffer, which is programmed when it is full.   *)
ReadData ==
    /\ Reads /\ Head(mcs).type = "00"
    /\ write_buffer' = Append(write_buffer, Word(Head(mcs)))
    /\ data_address' = (IF write_buffer = <<>>
                        THEN first_ela_in_block * Ela + Head(mcs).address ELSE data_address)
    /\ cmds' = (IF unlock_and_erase_block THEN << Unlock(block_number), Erase(block_number) >>
                ELSE <<>>)
               \o (IF Len(write_buffer') = max_write_buffer THEN << Program(block_number) >>
                   ELSE <<>>)
    /\ unlock_and_erase_block' = FALSE
    /\ mcs' = Tail(mcs)
    /\ UNCHANGED <<glib, uploading, thread, iAttempt, block_number,
                   first_ela_in_block, first_block, flash, flashFaults, flashOps, page, size>>

(* The end of the file: what is left in the buffer is programmed; then the *)
(* board is reset.                                                         *)
ReadEof ==
    /\ Reads /\ Head(mcs).type = "01"
    /\ IF write_buffer # <<>>
       THEN cmds' = << Program(block_number) >> /\ UNCHANGED <<thread, mcs>>
       ELSE thread' = "done" /\ mcs' = <<>> /\ UNCHANGED cmds
    /\ UNCHANGED <<glib, uploading, iAttempt, block_number,
                   first_ela_in_block, first_block, unlock_and_erase_block, write_buffer,
                   data_address, flash, flashFaults, flashOps, page, size>>
-----------------------------------------------------------------------------
Cmd == IF thread = "reads" /\ cmds # <<>> THEN Head(cmds).do ELSE "none"
B   == Head(cmds).block
Fault == flashFaults < MaxFlashFaults /\ flashFaults' = flashFaults + 1
Done1 == cmds' = Tail(cmds) /\ iAttempt' = 0 /\ UNCHANGED thread
Throws == thread' = "terminate" /\ UNCHANGED <<cmds, iAttempt>>

blockLockOrUnlock ==
    /\ Cmd \in {"lock", "unlock"}
    /\ \/ /\ flash' = [flash EXCEPT ![B].locked = (Cmd = "lock")]
          /\ Done1 /\ UNCHANGED flashFaults
       \/ /\ Fault /\ iAttempt' = iAttempt + 1
          /\ thread' = (IF iAttempt' = Attempts THEN "terminate" ELSE thread)
          /\ UNCHANGED <<cmds, flash>>
    /\ UNCHANGED <<glib, uploading, parse, flashOps, page, size>>

blockErase ==
    /\ Cmd = "erase"
    /\ \/ /\ ~flash[B].locked /\ Done1 /\ UNCHANGED flashFaults
          /\ flash' = [flash EXCEPT ![B].words = [o \in Offsets |-> Erased]]
       \/ Fault /\ Throws /\ UNCHANGED flash
       \/ flash[B].locked /\ Throws /\ UNCHANGED <<flash, flashFaults>>
    /\ UNCHANGED <<glib, uploading, parse, flashOps, page, size>>

bufferProgram ==
    /\ Cmd = "program"
    /\ \/ /\ ~flash[B].locked /\ Done1 /\ UNCHANGED flashFaults
          /\ flash' = [flash EXCEPT ![B].words = [o \in Offsets |->
                 IF o - data_address + 1 \in DOMAIN write_buffer
                 THEN write_buffer[o - data_address + 1] ELSE @[o]]]
          /\ write_buffer' = <<>>
       \/ Fault /\ Throws /\ UNCHANGED <<flash, write_buffer>>
       \/ flash[B].locked /\ Throws /\ UNCHANGED <<flash, flashFaults, write_buffer>>
    /\ UNCHANGED <<glib, uploading, mcs, block_number, first_ela_in_block,
                   first_block, unlock_and_erase_block, data_address, flashOps, page, size>>

GlibCall == GlibFlashProm \/ GlibJump
GlibWork == ReadEla \/ ReadData \/ ReadEof \/ blockLockOrUnlock \/ blockErase \/ bufferProgram
GlibNext == GlibCall \/ GlibWork
-----------------------------------------------------------------------------
(* An upload writes each word of its file to the word's own place, leaves  *)
(* all blocks but the last locked, and never touches the other image, even *)
(* if the file is too long or the flash reports an error.                  *)
OthersUntouched ==
    \A b \in Blocks : b \notin Lower .. Higher =>
       flash[b].locked /\ \A o \in Offsets : flash[b].words[o] = Old
InPlace(n) == \A w \in 0 .. n - 1 :
                 flash[Higher - w \div (2 * Ela)].words[w % (2 * Ela)] = w
FileWritten ==
    /\ InPlace(size)
    /\ \A b \in Blocks : b # Higher - (size - 1) \div (2 * Ela) => flash[b].locked
TooLong == size > 2 * Ela * (Higher - Lower + 1)
FlashRight ==
    /\ OthersUntouched
    /\ thread = "done" => FileWritten
    /\ flashFaults = 0 /\ thread = "terminate" => TooLong
-----------------------------------------------------------------------------
(* The inductive invariant behind FlashRight.  An upload has read the file *)
(* up to its a-th word of ELA e.                                           *)

Records(n)     == Len(Mcs(n))
BeforeEla(e)   == Ela * e
RecordsTo(e)   == (Ela + 1) * e + 1
ReadSoFar(e, a) == BeforeEla(e) + a
Stored(e, a)   == ReadSoFar(e, a) - Len(write_buffer)

(* What is left of the file, and what the records read so far have set.    *)
PlaceOK(e, a) ==
    /\ a <= Ela /\ BeforeEla(e) < size /\ ReadSoFar(e, a) <= size
    /\ mcs \in Seq([type : {"00", "01", "04"}, ela : Nat, address : Nat])
    /\ Len(mcs) = Records(size) - RecordsTo(e) - a
    /\ \A k \in 1 .. Len(mcs) : mcs[k] = Mcs(size)[RecordsTo(e) + a + k]
    /\ block_number = Higher - e \div 2 /\ block_number >= Lower
    /\ first_ela_in_block = e % 2 /\ ~first_block
    /\ unlock_and_erase_block <=> e % 2 = 0 /\ a = 0

(* The buffer holds the last words read, all of them of this ELA; but for  *)
(* the end of the file it is programmed in full.                           *)
BufferOK(e, a) ==
    /\ write_buffer \in Seq(Nat) /\ Len(write_buffer) <= a
    /\ Len(write_buffer) <= max_write_buffer
    /\ \A k \in 1 .. Len(write_buffer) : write_buffer[k] = Stored(e, a) + k - 1
    /\ write_buffer # <<>> => data_address = (e % 2) * Ela + a - Len(write_buffer)
    /\ (a - Len(write_buffer)) % max_write_buffer = 0 \/ ReadSoFar(e, a) = size

(* Commands that are pending: the block before is locked when a block      *)
(* begins, which is erased when its first word has come.                   *)
CommandsOK(e, a) ==
    \/ cmds = <<>> /\ Len(write_buffer) < max_write_buffer
    \/ cmds = << Lock(block_number + 1) >> /\ unlock_and_erase_block /\ e > 0
    \/ /\ cmds = << Program(block_number) >> /\ write_buffer # <<>>
       /\ Len(write_buffer) = max_write_buffer \/ ReadSoFar(e, a) = size
    \/ /\ e % 2 = 0 /\ a = 1 /\ Len(write_buffer) = 1
       /\ \/ /\ max_write_buffer > 1
             /\ \/ cmds = << Unlock(block_number), Erase(block_number) >>
                \/ cmds = << Erase(block_number) >>
          \/ /\ max_write_buffer = 1
             /\ \/ cmds = << Unlock(block_number), Erase(block_number), Program(block_number) >>
                \/ cmds = << Erase(block_number), Program(block_number) >>

(* Only the block that is written is unlocked, or the one before if it is  *)
(* about to be locked; and it is unlocked when it is erased or programmed. *)
LocksOK ==
    /\ \A b \in Blocks : b # block_number => flash[b].locked \/ cmds = << Lock(b) >>
    /\ ~unlock_and_erase_block /\ (cmds # <<>> => Head(cmds).do # "unlock") =>
          ~flash[block_number].locked

UploadOK(e, a) ==
    /\ PlaceOK(e, a) /\ BufferOK(e, a) /\ CommandsOK(e, a) /\ LocksOK
    /\ InPlace(Stored(e, a))

(* An upload that has read nothing.                                        *)
Begins ==
    /\ mcs = Mcs(size) /\ cmds = <<>> /\ write_buffer = <<>>
    /\ first_block /\ ~unlock_and_erase_block
    /\ \A b \in Blocks : flash[b].locked

GlibTypeOK ==
    /\ uploading \in {0, 1, 2} /\ thread \in {"none", "reads", "done", "terminate"}
    /\ flash \in [Blocks -> [locked : BOOLEAN, words : [Offsets -> Int]]]
    /\ flashFaults \in Nat /\ first_block \in BOOLEAN /\ unlock_and_erase_block \in BOOLEAN

GlibInv ==
    /\ GlibTypeOK /\ FlashRight
    /\ uploading = 0 =>
          /\ thread = "none" /\ cmds = <<>> /\ write_buffer = <<>>
          /\ first_block /\ ~unlock_and_erase_block
          /\ \A b \in Blocks : flash[b].locked /\ \A o \in Offsets : flash[b].words[o] = Old
    /\ uploading > 0 => thread # "none"
    /\ thread = "reads" =>
          size \in Files /\ (Begins \/ \E e \in 0 .. size, a \in 0 .. Ela : UploadOK(e, a))
=============================================================================
