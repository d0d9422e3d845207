---------------------------- MODULE FpgaConfig ----------------------------
(***************************************************************************)
(* The firmware images of the boards with an SD card, behind the pipe of   *)
(* MmcPipe: what BeBoardInterface offers, with the refusal of a board      *)
(* that is being configured, and CtaFpgaConfig, which uploads and          *)
(* downloads in a detached thread of its own.                              *)
(*                                                                         *)
(* The caller may call anything at any time, with two exceptions that no   *)
(* program of the repository makes: it waits for the end of a download,    *)
(* which nothing refuses to disturb, and RebootBoard() of a D19C board,    *)
(* which does not ask, is not called during an upload.                     *)
(***************************************************************************)
EXTENDS MmcPipe

CONSTANTS SdBoards,       (* the kinds of boards                           *)
          MaxOps          (* bound: calls                                  *)

VARIABLES
    board,
    numUploadingFpga,
    op,              (* the call under way, the image it is about, and     *)
                     (* whether every reply before it was read in full     *)
    ops,
    reply,           (* how the last call of the caller ended              *)
    file,            (* what downloadImage() wrote                         *)
    worker           (* the detached thread: "none", "store", "boot",      *)
                     (* "fetch", "done"; "terminate" ends the program      *)

sdVars == <<pipeVars, board, numUploadingFpga, op, ops, reply, file, worker>>
api    == <<board, numUploadingFpga, op, ops, reply, file>>

Alive == worker # "terminate"
NoOp  == [name |-> None, image |-> None, inStep |-> TRUE]

InitFpgaConfig ==
    /\ InitPipe
    /\ board \in SdBoards
    /\ numUploadingFpga = 0 /\ op = NoOp /\ ops = 0 /\ reply = None
    /\ file = <<>> /\ worker = "none"

(* A call of the caller: refused while an FPGA is being configured.        *)
Fetching == worker = "fetch"
Idle     == todo["caller"] = <<>> /\ Alive /\ ops < MaxOps /\ ~Fetching
Counted  == Idle /\ ops' = ops + 1
Called(name, x) == Counted /\ op' = [name |-> name, image |-> x, inStep |-> ~torn]

checkIfUploading == numUploadingFpga = 0
Refused ==
    /\ Counted /\ ~checkIfUploading
    /\ reply' = "refused"
    /\ UNCHANGED <<pipeVars, op, board, numUploadingFpga, file, worker>>

(* One that the caller's thread does itself.                               *)
Runs(name, x, steps) ==
    /\ Called(name, x)
    /\ todo' = [todo EXCEPT !["caller"] = steps]
    /\ reply' = "under way"
    /\ UNCHANGED <<fifos, mmc, looked, m, torn, lRet, i, progressValue, board, numUploadingFpga, worker>>
RunsIfFree(name, x, steps) ==
    checkIfUploading /\ Runs(name, x, steps) /\ UNCHANGED <<reads, file>>

getFpgaConfigList == RunsIfFree("list", None, ListFilesOnSD) \/ Refused
JumpToFpgaConfig  == (\E x \in Images : RunsIfFree("jump", x, RebootFPGA(x))) \/ Refused
DeleteFpgaConfig  == (\E x \in Images : RunsIfFree("delete", x, DeleteFromSD(x))) \/ Refused

(* RebootBoard() is for the CTA board and, unchecked, for the D19C board.  *)
CtaRebootBoard  == board = "CTA" /\ (RunsIfFree("reboot", None, BoardHardReset) \/ Refused)
D19cRebootBoard == /\ board = "D19C" /\ worker # "store" /\ worker # "boot"
                   /\ Runs("reboot", None, BoardHardReset) /\ UNCHANGED <<reads, file>>

(* Faulty variant: nothing says that an upload is under way.               *)
FlashProm_Silent ==
    \/ \E x \in Images \ {Golden} :
          /\ Called("upload", x) /\ checkIfUploading
          /\ numUploadingFpga' = 0 /\ progressValue' = 0
          /\ todo' = [todo EXCEPT !["worker"] = FileToSD(x)]
          /\ worker' = "store" /\ reply' = "started"
          /\ UNCHANGED <<fifos, mmc, looked, m, torn, lRet, i, reads, board, file>>
    \/ Refused

(* runUpload(): the thread writes the image to the card, says it is done   *)
(* and boots the image.  The number of the upload is never taken back.     *)
FlashProm ==
    \/ \E x \in Images \ {Golden} :
          /\ Called("upload", x) /\ checkIfUploading
          /\ numUploadingFpga' = 1 /\ progressValue' = 0
          /\ todo' = [todo EXCEPT !["worker"] = FileToSD(x)]
          /\ worker' = "store" /\ reply' = "started"
          /\ UNCHANGED <<fifos, mmc, looked, m, torn, lRet, i, reads, board, file>>
    \/ Refused

dumpFromFileIntoSD ==
    /\ todo["worker"] = <<>> /\ worker \in {"store", "boot"}
    /\ IF worker = "store"
       THEN /\ progressValue' = Hundred /\ worker' = "boot"
            /\ todo' = [todo EXCEPT !["worker"] = RebootFPGA(op.image)]
       ELSE worker' = "done" /\ UNCHANGED <<progressValue, todo>>
    /\ UNCHANGED <<fifos, mmc, looked, m, torn, lRet, i, reads, api>>

(* runDownload(): the caller asks for the names on the card, and then      *)
(* starts a thread that reads the image twice.  Its number becomes that of *)
(* the upload if it is the first on the card: the loop over the names ends *)
(* with the first.                                                         *)
DownloadFpgaConfig ==
    \/ \E x \in Images :
          /\ checkIfUploading
          /\ Runs("download", x, ListFilesOnSD \o << Step("start") >>)
          /\ file' = <<>> /\ UNCHANGED reads
    \/ Refused

runDownload ==
    /\ Do("caller") = "start"
    /\ numUploadingFpga' = (IF Len(lRet["caller"]) > 2 /\ lRet["caller"][3] = op.image THEN 1 ELSE numUploadingFpga)
    /\ progressValue' = 0 /\ reads' = <<>>
    /\ todo' = [todo EXCEPT !["caller"] = <<>>,
                            !["worker"] = FileFromSD(op.image) \o FileFromSD(op.image)]
    /\ worker' = "fetch" /\ reply' = "started"
    /\ UNCHANGED <<fifos, mmc, looked, m, torn, lRet, i, board, op, ops, file>>

(* Faulty variant: of two that differ, the second is taken.                *)
downloadImage_Second ==
    /\ worker = "fetch" /\ todo["worker"] = <<>>
    /\ file' = reads[2] /\ worker' = "done" /\ progressValue' = Hundred
    /\ UNCHANGED todo
    /\ UNCHANGED <<fifos, mmc, looked, m, torn, lRet, i, reads, board, numUploadingFpga, op, ops, reply>>

(* When they differ it is read a third time, and each word is what two of  *)
(* the three agree on; if all three differ the thread throws.              *)
downloadImage ==
    /\ worker = "fetch" /\ todo["worker"] = <<>>
    /\ LET words == 1 .. Len(reads[1])
           Agree(k) == {x \in {reads[1][k], reads[2][k], reads[3][k]} :
                           Cardinality({r \in 1 .. 3 : reads[r][k] = x}) >= 2} IN
       IF reads[1] # reads[2] /\ Len(reads) = 2
       THEN /\ todo' = [todo EXCEPT !["worker"] = FileFromSD(op.image)]
            /\ UNCHANGED <<file, worker, progressValue>>
       ELSE IF reads[1] # reads[2] /\ \E k \in words : Agree(k) = {}
       THEN worker' = "terminate" /\ UNCHANGED <<file, todo, progressValue>>
       ELSE /\ file' = (IF reads[1] = reads[2] THEN reads[1]
                        ELSE [k \in words |-> CHOOSE x \in Agree(k) : TRUE])
            /\ worker' = "done" /\ progressValue' = Hundred
            /\ UNCHANGED todo
    /\ UNCHANGED <<fifos, mmc, looked, m, torn, lRet, i, reads, board, numUploadingFpga, op, ops, reply>>

(* An exception that leaves the thread ends the program.                   *)
Terminate ==
    /\ Do("worker") = "terminate"
    /\ worker' = "terminate"
    /\ UNCHANGED <<pipeVars, api>>

Caller == \/ getFpgaConfigList \/ JumpToFpgaConfig \/ DeleteFpgaConfig
          \/ CtaRebootBoard \/ D19cRebootBoard \/ FlashProm \/ DownloadFpgaConfig
MovesOf(t) == Alive /\ PipeStep(t) /\ UNCHANGED <<api, worker>>
Moves  == \E t \in Threads : MovesOf(t)
Works  == Alive /\ (runDownload \/ dumpFromFileIntoSD \/ downloadImage \/ Terminate)
Board  == Mmc /\ UNCHANGED <<api, worker>>

SdNext == Caller \/ Moves \/ Works \/ Board
-----------------------------------------------------------------------------
(* An image that an upload has stored is the one it was given, and the     *)
(* words of a download are the card's unless two of its reads were wrong   *)
(* in the same place: whatever the MMC refuses, however the program and    *)
(* the MMC take turns, whatever else the caller tries meanwhile, and even  *)
(* when a reply of theirs is read before all of it has come.               *)
ImagesRight ==
    op.inStep =>
    /\ worker \in {"boot", "done"} /\ op.name = "upload" => sd[op.image] = Good
    /\ file # <<>> /\ op.name = "download" =>
          \A k \in DOMAIN file :
             file[k] = sd[op.image][k]
             \/ Cardinality({r \in DOMAIN reads : reads[r][k] # sd[op.image][k]}) >= 2

(* As long as every reply was read in full, what a thread does after it    *)
(* looked fits what is in the FIFOs, with one exception, a payload that    *)
(* goes on coming while it is read: at most two words of it are missing,   *)
(* and it is a text that ends the operation: of an error, the name of the  *)
(* image the board runs, or a list, after which a download is started.     *)
LastOfAll(t) == \A k \in 2 .. Len(todo[t]) : todo[t][k].do = "start"
TransfersFit ==
    ~torn =>
    /\ Len(toMmc) < PipeSize
    /\ \A t \in Threads :
          /\ Do(t) \in {"receive", "caught"} /\ looked[t] /\ link => m.data <= Len(toFpga)
          /\ Do(t) = "size" /\ m.data >= 2 => Len(toFpga) >= 2
          /\ Do(t) = "payload" /\ m.data >= Head(todo[t]).size /\ Head(todo[t]).size > Len(toFpga) =>
                /\ Head(todo[t]).size <= Len(toFpga) + 2
                /\ Flagged(lRet[t][1]) \/ LastOfAll(t)

=============================================================================
