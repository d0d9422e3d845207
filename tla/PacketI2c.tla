----------------------------- MODULE PacketI2c -----------------------------
(***************************************************************************)
(* The I2C path of the boards of PacketReadout.  An IC board sends what    *)
(* the replies have room for at a time; the CBC3 board sends everything    *)
(* and has one queue of replies for each module.                           *)
(*                                                                         *)
(* The firmware is external: it executes the commands in order and puts    *)
(* the replies in the queue of the chip's module: for a write the word     *)
(* sent and, if the word asks for it, the value of the register; for a     *)
(* read that value.  A chip may fail to acknowledge a write, which then    *)
(* has no effect.  Replies come within the time ReadI2C() sleeps: those    *)
(* that do not are modelled in CbcRegisters.                               *)
(*                                                                         *)
(* Whether the board reads a word back is a bit of the word, set when it   *)
(* is encoded.  How many replies the software expects, and which of them   *)
(* it compares, is an argument of the call.  A repetition sends the same   *)
(* words with the argument set: those of an unverified write then get one  *)
(* reply where two are expected, and the comparison goes on past the end   *)
(* of the replies.                                                         *)
(***************************************************************************)
EXTENDS PacketReadout, SequencesExt

CONSTANTS Cbc,            (* chips, numbered from 1                        *)
          FeOf,           (* the module of each chip                       *)
          Registers,      (* what a call names: a set of sequences         *)
          Values,         (* what a call writes                            *)
          fReplyBufferSize, (* 1024 in the code                            *)
          cMaxWriteAttempts, (* 5 in the code                              *)
          TooMany,        (* 100 in the code: as many mismatches throw     *)
          MaxNacks        (* bound: writes not acknowledged                *)

ASSUME I2cAssumption ==
    /\ Cbc \subseteq Nat \ {0} /\ IsFiniteSet(Cbc) /\ Cbc # {} /\ 0 \in Fes
    /\ FeOf \in [Cbc -> Fes] /\ Values \subseteq {0, 1}
    /\ \A r \in Registers : r \in Seq(ToSet(r))
    /\ {fReplyBufferSize, MaxNacks} \subseteq Nat
    /\ {cMaxWriteAttempts, TooMany} \subseteq Nat \ {0}
    /\ fReplyBufferSize >= 2 * Cardinality(Cbc)

VARIABLES
    chip,        (* the registers of each chip, 0 or 1                     *)
    fifo,        (* the reply queue of each module                         *)
    nacks,
    order,       (* call under way: the chips, registers and value, the    *)
                 (* words' read bit and the argument pReadback             *)
    pVecReg,     (* registers of the words of this attempt                 *)
    pVecSend,    (* those of them still to send                            *)
    pReplies,    (* the replies of the last chunk                          *)
    pWriteAttempts,
    success,     (* what the call returned: "true", "false" or "thrown"    *)
    refused,     (* history: how often this call's write of a register was *)
                 (* not acknowledged                                       *)
    clean        (* history: no reply was left when the call began         *)

attempt == <<order, pVecReg, pWriteAttempts, success, clean>>
i2c  == <<chip, fifo, nacks, refused, pVecSend, pReplies, attempt>>
i2cVars == <<packetVars, i2c>>
readout == <<setup, daq, config, tune, call, calls, locals, since>>

Register == UNION {ToSet(r) : r \in Registers}
Queue(c) == IF Ic THEN 0 ELSE FeOf[c]
Broadcast == order.kind = "broadcast"

InitI2c ==
    /\ InitPacket
    /\ chip = [c \in Cbc |-> [r \in Register |-> 0]]
    /\ fifo = [f \in Fes |-> <<>>] /\ nacks = 0
    /\ order = [kind |-> "broadcast", cbc |-> Cbc, regs |-> <<>>, value |-> 0,
                read |-> FALSE, readback |-> FALSE]
    /\ pVecReg = <<>> /\ pVecSend = <<>> /\ pReplies = <<>>
    /\ pWriteAttempts = 0 /\ success = "false" /\ clean = TRUE
    /\ refused = [r \in Register |-> 0]

Begin(kind, to, regs, value, bit, readback) ==
    /\ Called("I2c", 0, TRUE)
    /\ order' = [kind |-> kind, cbc |-> to, regs |-> regs, value |-> value,
                 read |-> bit, readback |-> readback]
    /\ pVecReg' = regs /\ pVecSend' = regs
    /\ pWriteAttempts' = 0 /\ success' = "false" /\ pReplies' = <<>>
    /\ refused' = [r \in Register |-> 0]
    /\ clean' = \A c \in to : fifo[Queue(c)] = <<>>
    /\ pc' = "send"
    /\ UNCHANGED <<setup, daq, config, tune, locals, since, chip, fifo, nacks>>

(* A chip has fewer registers than a chunk with read-back has room for.    *)
(* The words of a broadcast do not ask to be read back.                    *)
CallWrite == \E c \in Cbc, r \in Registers, v \in Values, pVerifLoop \in BOOLEAN :
                /\ Len(r) <= fReplyBufferSize \div 2
                /\ Begin("write", {c}, r, v, pVerifLoop, pVerifLoop)
CallBroadcast == \E r \in Registers, v \in Values :
                    Begin("broadcast", Cbc, r, v, FALSE, TRUE)
CallRead == \E c \in Cbc, r \in Registers : Begin("read", {c}, r, 0, TRUE, FALSE)

(* The replies to a word that WriteI2C() expects, and those that come.     *)
(* Only WriteCbcBlockReg() passes its argument on.                         *)
Width   == IF order.kind = "write" /\ order.readback THEN 2 ELSE 1
Answers == IF order.kind = "write" /\ order.read THEN 2 ELSE 1

(* Faulty variant: the replies of all chips are forgotten. *)
cM_OneChip == fReplyBufferSize \div Width

(* Commands of a chunk: their replies fit the buffer. *)
cM == (fReplyBufferSize \div Width) \div Cardinality(order.cbc)
Chunk(s) == IF Ic THEN SubSeq(s, 1, Min({cM, Len(s)})) ELSE s

(* The k-th of a set of numbers, from 0. *)
Nth(S, k) == CHOOSE x \in S : Cardinality({y \in S : y < x}) = k

(* The replies to one register of one chip, and those to a chunk, chip by  *)
(* chip for each register, in the queue of module f; bad is what is not    *)
(* acknowledged.                                                           *)
Reply(c, r, bad) ==
    LET lost == <<c, r>> \in bad
        now  == IF lost \/ order.kind = "read" THEN chip[c][r] ELSE order.value
        sent == [cbc |-> c, reg |-> r, value |-> order.value, info |-> lost, read |-> FALSE]
        is   == [cbc |-> c, reg |-> r, value |-> now, info |-> FALSE, read |-> TRUE] IN
    CASE order.kind = "read" -> <<is>>
      [] Answers = 2         -> <<sent, is>>
      [] OTHER               -> <<sent>>
RepliesOf(f, regs, bad) ==
    LET mine == {c \in order.cbc : Queue(c) = f}
        n    == Answers * Cardinality(mine) IN
    [p \in 1 .. Len(regs) * n |->
        Reply(Nth(mine, ((p - 1) % n) \div Answers), regs[(p - 1) \div n + 1], bad)
            [((p - 1) % Answers) + 1]]

(* A chunk goes to the board, which executes it; then ReadI2C() takes all  *)
(* replies of one queue, the first of a broadcast, and resets it.          *)
WriteI2C ==
    LET regs == Chunk(pVecSend)
        from == IF Broadcast \/ Ic THEN 0 ELSE Queue(CHOOSE c \in order.cbc : TRUE) IN
    /\ pc = "send"
    /\ \E k \in 0 .. MaxNacks - nacks : \E bad \in kSubset(k, order.cbc \X ToSet(regs)) :
          /\ order.kind = "read" => bad = {}
          /\ nacks' = nacks + k
          /\ refused' = [r \in Register |->
                         IF \E c \in order.cbc : <<c, r>> \in bad THEN refused[r] + 1 ELSE refused[r]]
          /\ chip' = [c \in Cbc |-> [r \in Register |->
                         IF order.kind # "read" /\ c \in order.cbc /\ r \in ToSet(regs)
                            /\ <<c, r>> \notin bad THEN order.value ELSE chip[c][r]]]
          /\ LET all == [f \in Fes |-> fifo[f] \o RepliesOf(f, regs, bad)] IN
             /\ pReplies' = all[from]
             /\ fifo' = [all EXCEPT ![from] = <<>>]
    /\ pVecSend' = SubSeq(pVecSend, Len(regs) + 1, Len(pVecSend))
    /\ pc' = IF pVecSend' = <<>> THEN "replies" ELSE "send"
    /\ UNCHANGED <<readout, attempt>>
IcFc7WriteI2C  == board = "ICFC7" /\ WriteI2C
IcGlibWriteI2C == board = "ICGLIB" /\ WriteI2C
Cbc3WriteI2C   == ~Ic /\ WriteI2C

getOddElements(s) == [i \in 1 .. Len(s) \div 2 |-> s[2 * i]]

cmd_reply_comp(r, reply) ==
    reply.cbc \in order.cbc /\ reply.reg = r /\ reply.value = order.value
cmd_reply_ack(r, reply) == ~reply.info /\ ~reply.read /\ reply.cbc \in order.cbc

(* The replies compared, one for each word, as far as they go; what a word *)
(* is compared with past their end is not known.                           *)
Compared == IF order.readback THEN getOddElements(pReplies) ELSE pReplies
PastEnd  == Len(Compared) + 1 .. Len(pVecReg)
Right(i) == IF order.readback THEN cmd_reply_comp(pVecReg[i], Compared[i])
            ELSE cmd_reply_ack(pVecReg[i], Compared[i])

(* The registers to write again: those in whose places the replies are not *)
(* what they should be; alike are the words past the end that happen to    *)
(* compare.                                                                *)
Wrong(alike) == {i \in 1 .. Len(pVecReg) : IF i \in PastEnd THEN i \notin alike ELSE ~Right(i)}
get_mismatches(alike) ==
    [k \in 1 .. Cardinality(Wrong(alike)) |-> pVecReg[Nth(Wrong(alike), k - 1)]]

(* The words are sent again as they are, with read-back expected.          *)
WriteAgain(again) ==
    /\ again # <<>> /\ Len(again) < TooMany /\ pWriteAttempts < cMaxWriteAttempts
    /\ pVecReg' = again /\ pVecSend' = again
    /\ order' = [order EXCEPT !.readback = TRUE]
    /\ pWriteAttempts' = pWriteAttempts + 1
    /\ success' = "false"
    /\ pc' = "send"

(* All attempts return: the result is the one of the first.                *)
WriteReturns(again) ==
    /\ again = <<>> \/ pWriteAttempts >= cMaxWriteAttempts
    /\ pWriteAttempts' = IF again = <<>> THEN pWriteAttempts ELSE 0
    /\ success' = IF again = <<>> /\ pWriteAttempts = 0 THEN "true" ELSE "false"
    /\ pc' = "idle"
    /\ UNCHANGED <<pVecReg, pVecSend, order>>

WriteThrows(again) ==
    /\ Len(again) >= TooMany /\ pWriteAttempts < cMaxWriteAttempts
    /\ success' = "thrown"
    /\ pc' = "idle"
    /\ UNCHANGED <<pVecReg, pVecSend, order, pWriteAttempts>>

(* Reading past the end of the replies may end the program.                *)
WriteCrashes ==
    /\ PastEnd # {}
    /\ pc' = "exited"
    /\ UNCHANGED <<pVecReg, pVecSend, order, pWriteAttempts, success>>

(* Faulty variant: writes are not repeated. *)
WriteCbcBlockReg_Once ==
    /\ pc = "replies" /\ order.kind = "write"
    /\ success' = IF get_mismatches({}) = <<>> THEN "true" ELSE "false"
    /\ pc' = "idle"
    /\ UNCHANGED <<readout, chip, fifo, nacks, refused, pVecSend, pReplies, order, pVecReg,
                   pWriteAttempts, clean>>

WriteCbcBlockReg ==
    /\ pc = "replies" /\ order.kind = "write"
    /\ \/ \E alike \in SUBSET PastEnd :
             LET again == get_mismatches(alike) IN
             WriteAgain(again) \/ WriteReturns(again) \/ WriteThrows(again)
       \/ WriteCrashes
    /\ UNCHANGED <<readout, chip, fifo, nacks, refused, pReplies, clean>>
IcFc7WriteCbcBlockReg  == board = "ICFC7" /\ WriteCbcBlockReg
IcGlibWriteCbcBlockReg == board = "ICGLIB" /\ WriteCbcBlockReg
Cbc3WriteCbcBlockReg   == ~Ic /\ WriteCbcBlockReg

(* The last reply decides.                                                 *)
BCWriteCbcBlockReg ==
    /\ pc = "replies" /\ Broadcast
    /\ success' = IF ~Last(pReplies).info /\ ~Last(pReplies).read THEN "true" ELSE "false"
    /\ pc' = "idle"
    /\ UNCHANGED <<readout, chip, fifo, nacks, refused, pVecSend, pReplies, order, pVecReg,
                   pWriteAttempts, clean>>
IcFc7BCWriteCbcBlockReg  == board = "ICFC7" /\ BCWriteCbcBlockReg
IcGlibBCWriteCbcBlockReg == board = "ICGLIB" /\ BCWriteCbcBlockReg
Cbc3BCWriteCbcBlockReg   == ~Ic /\ BCWriteCbcBlockReg

(* The replies are what the caller gets. *)
ReadCbcBlockReg ==
    /\ pc = "replies" /\ order.kind = "read"
    /\ pc' = "idle"
    /\ UNCHANGED <<readout, i2c>>
-----------------------------------------------------------------------------
Readout == PacketNext /\ UNCHANGED i2c
I2cCalls == CallWrite \/ CallBroadcast \/ CallRead
I2c == \/ IcFc7WriteI2C \/ IcGlibWriteI2C \/ Cbc3WriteI2C
       \/ IcFc7WriteCbcBlockReg \/ IcGlibWriteCbcBlockReg \/ Cbc3WriteCbcBlockReg
       \/ IcFc7BCWriteCbcBlockReg \/ IcGlibBCWriteCbcBlockReg \/ Cbc3BCWriteCbcBlockReg
       \/ ReadCbcBlockReg
BoardNext == Readout \/ I2cCalls \/ I2c

BoardSpec == InitI2c /\ [][BoardNext]_i2cVars
FairBoard == /\ WF_i2cVars(Trigger /\ UNCHANGED i2c)
             /\ WF_i2cVars(BuildEvent /\ UNCHANGED i2c)
             /\ WF_i2cVars((Configure \/ Reading) /\ UNCHANGED i2c)
             /\ WF_i2cVars(I2c)
-----------------------------------------------------------------------------
(* The replies to what an IC board is sent at a time always fit its        *)
(* buffer.  A transaction to one chip is always one chunk: the replies to  *)
(* all its words are there when they are compared, and, unless it repeats  *)
(* words that do not ask to be read back, each word has one to compare.    *)
AllThere == order.read \/ pWriteAttempts = 0
RepliesFit ==
    Ic => /\ Len(pReplies) <= fReplyBufferSize
          /\ order.kind = "write" /\ pc = "replies" =>
                /\ Len(pReplies) = Answers * Len(pVecReg)
                /\ AllThere => Len(Compared) = Len(pVecReg)

(* A register that a verified write does not reach has failed to           *)
(* acknowledge every attempt, and one that an unverified write does not    *)
(* reach has failed twice: the first repetition leaves none of the failed  *)
(* ones out, the comparison after it may.  A write reported as good has    *)
(* reached all registers; and a read gives the values of the registers.    *)
(* All this for a module whose queue a broadcast has not left replies in.  *)
Missing(r) == \E c \in order.cbc : chip[c][r] # order.value
WritesHeal ==
    pc = "idle" /\ call.op = "I2c" /\ clean =>
        /\ order.kind = "write" /\ success # "thrown" =>
             \A r \in ToSet(order.regs) :
                Missing(r) => /\ refused[r] > (IF order.read THEN cMaxWriteAttempts ELSE 1)
                              /\ success # "true"
        /\ order.kind = "read" /\ Len(pVecReg) <= fReplyBufferSize =>
             \A i \in 1 .. Len(pVecReg) : \A c \in order.cbc :
                pReplies[i].value = chip[c][pVecReg[i]]
-----------------------------------------------------------------------------
(* The inductive invariant of the two. *)
Orders == [kind : {"write", "broadcast", "read"}, cbc : SUBSET Cbc, regs : Seq(Register),
           value : {0, 1}, read : BOOLEAN, readback : BOOLEAN]
Steps  == {"send", "replies"}
Wait   == call.op = "I2c" /\ pc \in Steps

OrderTypeOK ==
    /\ order \in Orders /\ pWriteAttempts \in Nat /\ refused \in [Register -> Nat]
    /\ pVecReg \in Seq(Register) /\ pVecSend \in Seq(Register)
    /\ Ic => fifo[0] = <<>>

(* A transaction is with one chip or with all of them. *)
UnderWay ==
    /\ pc \in Steps => call.op = "I2c"
    /\ call.op = "I2c" => pc \in Steps \cup {"idle", "exited"}
    /\ call.op = "I2c" => IF Broadcast THEN order.cbc = Cbc ELSE \E c \in Cbc : order.cbc = {c}

(* What goes to one chip and back in one chunk. *)
AtOnce == order.kind = "write" \/ (order.kind = "read" /\ Len(pVecReg) <= fReplyBufferSize)

(* Nothing of an earlier transaction is in the way, and the replies        *)
(* expected are those that come or, in a repetition, more.                 *)
Sending ==
    Wait =>
        /\ pc = "send" /\ AtOnce => pVecSend = pVecReg
        /\ order.kind = "write" /\ Ic => Len(pVecReg) <= fReplyBufferSize \div 2
        /\ order.kind = "write" /\ AllThere => order.readback = order.read
        /\ clean /\ ~Broadcast => \A c \in order.cbc : fifo[Queue(c)] = <<>>

(* What n attempts show: the comparison of a repetition of unverified      *)
(* words may leave out any.                                                *)
Failures(n) == IF order.read \/ n < 2 THEN n ELSE 2

(* A register not reached has failed in every attempt that counts, and is  *)
(* in the next one.                                                        *)
Attempted ==
    Wait /\ clean /\ order.kind = "write" =>
        \A r \in ToSet(order.regs) : Missing(r) =>
            /\ pc = "send" => refused[r] >= Failures(pWriteAttempts)
            /\ pc = "send" /\ (order.read \/ pWriteAttempts < 2) => r \in ToSet(pVecReg)
            /\ pc = "replies" => refused[r] >= Failures(pWriteAttempts + 1)
            /\ pc = "replies" /\ AllThere => r \in ToSet(pVecReg)

(* The replies tell the truth about the registers. *)
Replied ==
    Wait /\ pc = "replies" /\ clean /\ AtOnce =>
        \A c \in order.cbc :
        /\ order.kind = "write" /\ AllThere =>
             /\ Len(Compared) = Len(pVecReg)
             /\ \A i \in 1 .. Len(pVecReg) : Right(i) => chip[c][pVecReg[i]] = order.value
        /\ order.kind = "read" =>
             \A i \in 1 .. Len(pVecReg) : pReplies[i].value = chip[c][pVecReg[i]]

OrderInv == OrderTypeOK /\ UnderWay /\ Sending /\ Attempted /\ Replied /\ RepliesFit
            /\ WritesHeal
=============================================================================
