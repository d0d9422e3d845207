------------------------------ MODULE MmcPipe ------------------------------
(***************************************************************************)
(* The pipe from a board's FPGA to its microcontroller, which keeps the    *)
(* firmware images on an SD card (MmcPipeInterface.cc): two FIFOs of       *)
(* words, one each way.  A message is a command, its size and its          *)
(* payload; a reply is an error flag, its size and its payload.            *)
(*                                                                         *)
(* An operation of the code is a sequence of steps, which a thread does    *)
(* one after the other.  A step that needs room or data reads the fill     *)
(* levels and looks at what it read: the microcontroller moves on in       *)
(* between.                                                                *)
(*                                                                         *)
(* The microcontroller (MMC) is external: it takes a message when it has   *)
(* come, and puts its reply in the FIFO word by word; it may refuse a      *)
(* message it can refuse, and a word of an image may be wrong when it is   *)
(* read back.  Sizes and error flags are numbers, other words are not.     *)
(***************************************************************************)
EXTENDS Integers, Sequences, FiniteSets, SequencesExt, TLC

CONSTANTS Images,         (* names of images on the SD card                *)
          Golden,         (* the one the board falls back to               *)
          PipeSize,       (* 512 in the code                               *)
          TotalSize,      (* words of an image, 5120000 in the code        *)
          Hundred,        (* the progress when all is done, 100 per cent   *)
          Every,          (* chunks between two reports, 500 in the code   *)
          GoodWord,       (* a word of an image,                           *)
          WrongWord,      (* what it may be when it is read wrong,         *)
          BadWord,
          TextWord,       (* and the text of an error                      *)
          MaxFaults       (* bound: refusals and wrong words               *)

ASSUME MmcAssumption ==
    /\ Golden \in Images /\ IsFiniteSet(Images)
    /\ {PipeSize, TotalSize, Hundred, Every} \subseteq Nat \ {0} /\ MaxFaults \in Nat
    /\ PipeSize > 2 + Cardinality(Images)   (* the longest reply has room  *)
    /\ PipeSize > 3 /\ Hundred < TotalSize

VARIABLES
    toMmc, toFpga,   (* the FIFOs                                          *)
    link,            (* the FPGA answers                                   *)
    image,           (* the image it runs                                  *)
    sd,              (* SD card: the words of each image it holds          *)
    text,            (* the text space: a name, or none                    *)
    stream,          (* MMC: words of an image still to take or to give,   *)
    out,             (* and words still to be put in the FIFO              *)
    faults,
    todo,            (* steps each thread has still to do                  *)
    looked,          (* the thread has read the fill levels                *)
    m,               (* the fill levels as last read, of all threads       *)
    torn,            (* a payload has been read before all of it had come  *)
    lRet,            (* words each thread has moved in this step           *)
    i,               (* chunks of FileToSD()                               *)
    reads,           (* images read back so far                            *)
    progressValue

mmc      == <<link, image, sd, text, stream, out, faults>>
fifos    == <<toMmc, toFpga>>
pipeVars == <<fifos, mmc, todo, looked, m, torn, lRet, i, reads, progressValue>>

Threads == {"caller", "worker"}
None    == "none"
Good    == [k \in 1 .. TotalSize |-> GoodWord]
Commands == {"text", "secure", "get text", "store", "read", "reboot", "reset", "delete", "list"}
ASSUME WordsAssumption == \A w \in {GoodWord, WrongWord, BadWord, TextWord} \cup Images :
                              w \notin Nat \cup Commands
Nothing == [image |-> None, left |-> 0, giving |-> FALSE]

InitPipe ==
    /\ toMmc = <<>> /\ toFpga = <<>> /\ link = TRUE /\ image = Golden
    /\ sd = [x \in {Golden} |-> Good] /\ text = None /\ stream = Nothing /\ out = <<>>
    /\ faults = 0
    /\ todo = [t \in Threads |-> <<>>] /\ looked = [t \in Threads |-> FALSE]
    /\ m = [space |-> 0, data |-> 0] /\ torn = FALSE
    /\ lRet = [t \in Threads |-> <<>>] /\ i = 0 /\ reads = <<>> /\ progressValue = 0
-----------------------------------------------------------------------------
(* Steps, and the operations made of them.                                 *)
Step(do)   == [do |-> do]
Send(cmd, payload) == [do |-> "send", words |-> <<cmd, Len(payload)>> \o payload]
ReceiveOk  == Step("receive")

SetTextSpace(name)  == << Send("text", <<name>>), ReceiveOk >>
EnterSecureMode     == << Send("secure", <<"password">>), ReceiveOk >>
GetTextSpace        == << Send("get text", <<>>), ReceiveOk >>
FileToSD(name)      == SetTextSpace(name) \o << Step("header"), Step("chunks"), ReceiveOk >>
FileFromSD(name)    == SetTextSpace(name) \o << Send("read", <<>>), Step("size"), Step("words") >>
RebootFPGA(name)    == SetTextSpace(name) \o EnterSecureMode
                       \o << Send("reboot", <<>>), Step("caught"), Step("back") >> \o GetTextSpace
BoardHardReset      == EnterSecureMode \o << Send("reset", <<>>), Step("caught"), Step("back") >>
DeleteFromSD(name)  == SetTextSpace(name) \o EnterSecureMode \o << Send("delete", <<>>), ReceiveOk >>
ListFilesOnSD       == << Send("list", <<>>), ReceiveOk >>

Do(t)   == IF todo[t] = <<>> THEN None ELSE Head(todo[t]).do
Next1(t) == /\ todo' = [todo EXCEPT ![t] = Tail(@)]
            /\ looked' = [looked EXCEPT ![t] = FALSE]
Again(t) == looked' = [looked EXCEPT ![t] = FALSE] /\ UNCHANGED todo
Threw(t) == /\ todo' = [todo EXCEPT ![t] = IF t = "worker" THEN << Step("terminate") >> ELSE <<>>]
            /\ looked' = [looked EXCEPT ![t] = FALSE]

(* A fill level is the difference of two counters, modulo the size.        *)
Level(f) == Len(f) % PipeSize

Looks == {"send", "chunks", "receive", "caught", "size", "words"}
UpdateCounters(t) ==
    /\ Do(t) \in Looks /\ link /\ ~looked[t]
    /\ Do(t) = "size" => m.data < 2
    /\ m' = [space |-> PipeSize - 1 - Level(toMmc), data |-> Level(toFpga)]
    /\ looked' = [looked EXCEPT ![t] = TRUE]
    /\ UNCHANGED <<fifos, mmc, todo, torn, lRet, i, reads, progressValue>>

(* A message is written once there is room for all of it.                  *)
SendMessage(t) ==
    /\ Do(t) = "send" /\ looked[t]
    /\ IF m.space < Len(Head(todo[t]).words) THEN Again(t) /\ UNCHANGED toMmc
       ELSE Next1(t) /\ toMmc' = toMmc \o Head(todo[t]).words
    /\ UNCHANGED <<toFpga, mmc, m, torn, lRet, i, reads, progressValue>>

(* FileToSD() writes the header without looking.                           *)
WriteHeader(t) ==
    /\ Do(t) = "header"
    /\ toMmc' = toMmc \o << "store", TotalSize >>
    /\ lRet' = [lRet EXCEPT ![t] = <<>>] /\ i' = 0
    /\ Next1(t)
    /\ UNCHANGED <<toFpga, mmc, m, torn, reads, progressValue>>

(* Its loop writes what the FIFO has room for, until all is written or the *)
(* MMC replies; some chunks report the progress, rounded up.               *)
WriteChunk(t) ==
    LET n    == Min({m.space, TotalSize - Len(lRet[t])})
        rest == TotalSize - Len(lRet[t]) - n IN
    /\ Do(t) = "chunks" /\ looked[t]
    /\ IF m.data > 0 THEN Next1(t) /\ UNCHANGED <<toMmc, lRet, i, progressValue>>
       ELSE /\ toMmc' = toMmc \o SubSeq(Good, 1, n)
            /\ lRet' = [lRet EXCEPT ![t] = @ \o SubSeq(Good, 1, n)]
            /\ i' = (IF n = 0 THEN i ELSE (i + 1) % Every)
            /\ progressValue' = (IF n > 0 /\ i = 0 THEN Hundred - (rest * Hundred) \div TotalSize
                                                   ELSE progressValue)
            /\ IF rest = 0 THEN Next1(t) ELSE Again(t)
    /\ UNCHANGED <<toFpga, mmc, m, torn, reads>>

(* The header of the reply is read when it is there; then the payload,     *)
(* when the fill level is at least its size.  The level is not read again  *)
(* for that, unless it is too low: it still counts the header.  What is    *)
(* read of a FIFO beyond its end is any word, and the words that were late *)
(* are found there by the next who reads.  An error reply throws.          *)
Size(word)    == IF word \in Nat THEN word ELSE TotalSize + PipeSize
Flagged(word) == word # 0
Receive(t) ==
    /\ Do(t) \in {"receive", "caught"} /\ looked[t]
    /\ IF m.data < 2 THEN Again(t) /\ UNCHANGED <<toFpga, lRet>>
       ELSE /\ toFpga' = SubSeq(toFpga, 3, Len(toFpga))
            /\ lRet' = [lRet EXCEPT ![t] = SubSeq(toFpga, 1, 2)]
            /\ todo' = [todo EXCEPT ![t] = <<[do |-> "payload", size |-> Size(toFpga[2])]>> \o Tail(@)]
            /\ UNCHANGED looked
    /\ UNCHANGED <<toMmc, mmc, m, torn, i, reads, progressValue>>

ReceivePayload(t) ==
    /\ Do(t) = "payload"
    /\ LET n     == Head(todo[t]).size
           there == Min({n, Len(toFpga)}) IN
       IF m.data < n
       THEN /\ m' = [m EXCEPT !.data = Level(toFpga)]
            /\ UNCHANGED <<toFpga, torn, lRet, todo, looked>>
       ELSE /\ toFpga' = SubSeq(toFpga, there + 1, Len(toFpga))
            /\ torn' = (torn \/ there < n)
            /\ \E w \in Images \cup {BadWord} :
                  lRet' = [lRet EXCEPT ![t] = @ \o SubSeq(toFpga, 1, there) \o [k \in 1 .. n - there |-> w]]
            /\ IF Flagged(lRet[t][1]) THEN Threw(t) ELSE Next1(t)
            /\ UNCHANGED m
    /\ UNCHANGED <<toMmc, mmc, i, reads, progressValue>>

(* FileFromSD() reads the size, at first from the level that was read      *)
(* before its message went out, and then the words, as they come; only     *)
(* then does it look whether they are an error message.                    *)
ReadSize(t) ==
    /\ Do(t) = "size"
    /\ IF m.data < 2 THEN looked[t] /\ Again(t) /\ UNCHANGED <<toFpga, lRet>>
       ELSE /\ toFpga' = SubSeq(toFpga, 3, Len(toFpga))
            /\ lRet' = [lRet EXCEPT ![t] = SubSeq(toFpga, 1, 2)]
            /\ Next1(t)
    /\ UNCHANGED <<toMmc, mmc, m, torn, i, reads, progressValue>>

ReadWords(t) ==
    LET left == Size(lRet[t][2]) - (Len(lRet[t]) - 2)
        n    == Min({left, m.data}) IN
    /\ Do(t) = "words"
    /\ IF left = 0
       THEN /\ IF Flagged(lRet[t][1]) THEN Threw(t) /\ UNCHANGED reads
               ELSE Next1(t) /\ reads' = Append(reads, SubSeq(lRet[t], 3, Len(lRet[t])))
            /\ UNCHANGED <<toFpga, lRet>>
       ELSE /\ looked[t]
            /\ toFpga' = SubSeq(toFpga, n + 1, Len(toFpga))
            /\ lRet' = [lRet EXCEPT ![t] = @ \o SubSeq(toFpga, 1, n)]
            /\ Again(t)
            /\ UNCHANGED reads
    /\ UNCHANGED <<toMmc, mmc, m, torn, i, progressValue>>

(* The link is down while the FPGA takes its image: reading the levels     *)
(* throws, which RebootFPGA() catches and then repeats until it does not.  *)
LinkDown(t) ==
    /\ Do(t) \in Looks /\ ~link
    /\ IF Do(t) = "caught" THEN Next1(t) ELSE Threw(t)
    /\ UNCHANGED <<fifos, mmc, m, torn, lRet, i, reads, progressValue>>
LinkBack(t) ==
    /\ Do(t) = "back" /\ link
    /\ m' = [space |-> PipeSize - 1 - Level(toMmc), data |-> Level(toFpga)]
    /\ Next1(t)
    /\ UNCHANGED <<fifos, mmc, torn, lRet, i, reads, progressValue>>

PipeStep(t) == \/ UpdateCounters(t) \/ SendMessage(t) \/ WriteHeader(t) \/ WriteChunk(t)
               \/ Receive(t) \/ ReceivePayload(t) \/ ReadSize(t) \/ ReadWords(t)
               \/ LinkDown(t) \/ LinkBack(t)
-----------------------------------------------------------------------------
(* The microcontroller (external). *)
Message == Len(toMmc) >= 2 /\ toMmc[1] \in Commands /\ (toMmc[1] = "store" \/ Len(toMmc) >= 2 + toMmc[2])
Reply(words) == out' = words /\ UNCHANGED toFpga
Ok    == << 0, 0 >>
Error == << 1, 1, TextWord >>
Ready == link /\ stream = Nothing /\ out = <<>> /\ Message
Refuse == /\ faults < MaxFaults /\ faults' = faults + 1
          /\ Reply(Error) /\ UNCHANGED <<image, sd, text, stream, link>>
Rest == SubSeq(toMmc, 3 + (IF toMmc[1] = "store" THEN 0 ELSE toMmc[2]), Len(toMmc))
Boots(name) == IF name \in DOMAIN sd /\ sd[name] = Good THEN name ELSE Golden

Command ==
    LET cmd == toMmc[1] IN
    /\ Ready
    /\ toMmc' = Rest
    /\ \/ /\ cmd = "text" /\ text' = toMmc[3] /\ Reply(Ok)
          /\ UNCHANGED <<image, sd, stream, faults, link>>
       \/ /\ cmd = "secure" /\ Reply(Ok) /\ UNCHANGED <<image, sd, text, stream, faults, link>>
       \/ /\ cmd = "get text" /\ Reply(<<0, 1, image>>)
          /\ UNCHANGED <<image, sd, text, stream, faults, link>>
       \/ /\ cmd = "list"
          /\ Reply(<<0, Cardinality(DOMAIN sd)>> \o SetToSeq(DOMAIN sd))
          /\ UNCHANGED <<image, sd, text, stream, faults, link>>
       \/ /\ cmd = "delete" /\ text \in DOMAIN sd \ {Golden}
          /\ sd' = [x \in DOMAIN sd \ {text} |-> sd[x]] /\ Reply(Ok)
          /\ UNCHANGED <<image, text, stream, faults, link>>
       \/ /\ cmd \in {"delete", "read"} /\ text \notin DOMAIN sd /\ Reply(Error)
          /\ UNCHANGED <<image, sd, text, stream, faults, link>>
       \/ cmd \in {"delete", "store", "read"} /\ Refuse
       \/ /\ cmd = "store" /\ stream' = [image |-> text, left |-> TotalSize, giving |-> FALSE]
          /\ sd' = [x \in DOMAIN sd \cup {text} |-> IF x = text THEN <<>> ELSE sd[x]]
          /\ UNCHANGED <<toFpga, out, image, text, faults, link>>
       \/ /\ cmd = "read" /\ text \in DOMAIN sd
          /\ stream' = [image |-> text, left |-> Len(sd[text]), giving |-> TRUE]
          /\ Reply(<<0, Len(sd[text])>>)
          /\ UNCHANGED <<image, sd, text, faults, link>>

(* The FPGA takes its image: what was in the FIFOs is lost.                *)
Reboot ==
    /\ Ready /\ toMmc[1] \in {"reboot", "reset"}
    /\ image' = IF toMmc[1] = "reboot" THEN Boots(text) ELSE Golden
    /\ link' = FALSE /\ toMmc' = <<>> /\ toFpga' = <<>>
    /\ UNCHANGED <<sd, text, stream, out, faults>>

(* It is down for longer than a thread takes to look again.                *)
UpAgain ==
    /\ ~link /\ \A t \in Threads : Do(t) \notin Looks
    /\ link' = TRUE
    /\ UNCHANGED <<fifos, image, sd, text, stream, out, faults>>

(* A word of an image is taken from the FIFO, or put in.                   *)
Store ==
    /\ stream.left > 0 /\ ~stream.giving /\ toMmc # <<>>
    /\ toMmc' = Tail(toMmc)
    /\ sd' = [sd EXCEPT ![stream.image] = Append(@, Head(toMmc))]
    /\ IF stream.left = 1 THEN stream' = Nothing /\ Reply(Ok)
       ELSE stream' = [stream EXCEPT !.left = @ - 1] /\ UNCHANGED <<toFpga, out>>
    /\ UNCHANGED <<link, image, text, faults>>
Give ==
    /\ stream.left > 0 /\ stream.giving /\ out = <<>> /\ Len(toFpga) < PipeSize - 1
    /\ \/ toFpga' = Append(toFpga, sd[stream.image][Len(sd[stream.image]) - stream.left + 1])
          /\ UNCHANGED faults
       \/ /\ faults < MaxFaults /\ faults' = faults + 1
          /\ \E wrong \in {WrongWord, BadWord} : toFpga' = Append(toFpga, wrong)
    /\ stream' = IF stream.left = 1 THEN Nothing ELSE [stream EXCEPT !.left = @ - 1]
    /\ UNCHANGED <<toMmc, link, image, sd, text, out>>
Put ==
    /\ out # <<>> /\ Len(toFpga) < PipeSize - 1
    /\ toFpga' = Append(toFpga, Head(out)) /\ out' = Tail(out)
    /\ UNCHANGED <<toMmc, link, image, sd, text, stream, faults>>

Mmc == /\ Command \/ Reboot \/ UpAgain \/ Store \/ Give \/ Put
       /\ UNCHANGED <<todo, looked, m, torn, lRet, i, reads, progressValue>>
=============================================================================
