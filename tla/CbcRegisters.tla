---------------------------- MODULE CbcRegisters ----------------------------
(***************************************************************************)
(* The I2C register path: CbcInterface (HWInterface/CbcInterface.cc), which *)
(* keeps a software copy fRegMap of every chip's registers, over            *)
(* WriteCbcBlockReg / ReadCbcBlockReg / BCWriteCbcBlockReg of the firmware  *)
(* interface (Cbc3Fc7FWInterface.cc, and D19cFWInterface.cc when Board =    *)
(* "D19C").  One call is in progress at a time.  A call encodes its         *)
(* registers into a block of words, the firmware executes them in order     *)
(* and answers into a reply FIFO, and the host compares replies with words  *)
(* by POSITION.  The chips and the firmware's bus manager are external: a   *)
(* word may not be taken, may be refused (info bit), and with Lossy a reply *)
(* may be missing when the host reads the FIFO.                             *)
(***************************************************************************)
EXTENDS Integers, Sequences

CONSTANTS Cbc,               \* the chips of one module
          CbcOrder,          \* their order in fCbcVector
          Reg, Val,          \* register names and values
          RegOrder,          \* the names in the order of fRegMap
          Fuses,             \* BandgapFuse / ChipIDFuse: never configured
          DefaultVal,        \* value of every register after a hard reset
          Requests,          \* name/value lists passed to WriteCbcMultReg
          Readings,          \* name lists passed to ReadCbcMultReg
          cMaxWriteAttempts, \* 5 in the code
          cMaxErrors,        \* 100 in the code: more mismatches throw
          Board,             \* "CBC3FC7" or "D19C"
          Lossy              \* replies may be missing

NotFuse(r) == r \notin Fuses
ConfigOrder == SelectSeq(RegOrder, NotFuse)

ASSUME ChipAssumption ==
  /\ "all" \notin Cbc
  /\ CbcOrder \in Seq(Cbc) /\ RegOrder \in Seq(Reg) /\ ConfigOrder \in Seq(Reg)
  /\ DefaultVal \in Val
  /\ Requests \subseteq Seq(Reg \X Val) /\ Readings \subseteq Seq(Reg)

ASSUME LimitAssumption == cMaxWriteAttempts \in Nat /\ cMaxErrors \in Nat

ASSUME BoardAssumption == Board \in {"CBC3FC7", "D19C"} /\ Lossy \in BOOLEAN

VARIABLES
  chip,           \* external: the registers in the chips
  fRegMap,        \* Cbc::fRegMap, the values the software believes
  pc,             \* "idle", "bus", "compare", or "dead" (exit or crash)
  call,           \* the call in progress: operation, chip, request, readback
  vec,            \* pVecReg: the words of the current transaction
  pos,            \* words executed on the bus, then words compared
  replies,        \* the reply FIFO, then cReplies
  cWriteAgain,    \* the words found wrong so far
  pWriteAttempts, \* the attempt counter, shared by reference by the recursion
  depth,          \* how many recursive activations of WriteCbcBlockReg
  outOfRange,     \* history: replies were read past their end in this call
  last,           \* history: the last finished call and what it returned
  suspect         \* history: registers whose copy there is reason to doubt

host == <<call, vec, pos, replies, cWriteAgain, pWriteAttempts, depth>>
vars == <<chip, fRegMap, pc, host, outOfRange, last, suspect>>

-----------------------------------------------------------------------------
AllChips == "all"   \* fBroadcastCbcId
Word  == [cbc : Cbc \cup {AllChips}, reg : Reg, val : Val, read : BOOLEAN, write : BOOLEAN]
Reply == [cbc : Cbc, info : BOOLEAN, read : BOOLEAN, reg : Reg, val : Val]
Call  == [op : {"write", "configure", "broadcast", "read", "readall"},
          cbc : Cbc \cup {AllChips}, req : Seq(Reg \X Val), readback : BOOLEAN]

Writes == {"write", "configure"}
Fc7 == Board = "CBC3FC7"

EncodeReg(k) ==
  [i \in 1..Len(k.req) |->
     [cbc |-> k.cbc, reg |-> k.req[i][1], val |-> k.req[i][2],
      read |-> k.readback \/ k.op \in {"read", "readall"},
      write |-> k.op \in Writes \cup {"broadcast"}]]

\* The value a request leaves in a register: the last pair that names it.
IsLast(req, i) == \A j \in i+1..Len(req) : req[j][1] # req[i][1]

Named(req) == {req[i][1] : i \in 1..Len(req)}

Settled(req) == {req[i][1] : i \in {j \in 1..Len(req) : IsLast(req, j)}}

LastValue(req, r) == req[CHOOSE i \in 1..Len(req) : req[i][1] = r /\ IsLast(req, i)][2]

\* The registers m of a chip after the pairs of req are set in order.
SetRegs(m, req) == [r \in Reg |-> IF r \in Settled(req) THEN LastValue(req, r) ELSE m[r]]

\* Are replies of write words followed by the value read back?
ReadsBack == call.op \in Writes /\ (call.readback \/ depth > 0)

\* Faulty variant: the write replies are compared instead of the values read back.
Compared_Acks == IF Fc7 /\ ReadsBack
                   THEN [i \in 1..(Len(replies) \div 2) |-> replies[2 * i - 1]]
                   ELSE replies

\* The replies compared with the words: getOddElements keeps every second one.
Compared == IF Fc7 /\ ReadsBack
              THEN [i \in 1..(Len(replies) \div 2) |-> replies[2 * i]]
              ELSE replies

cmd_reply_comp(w, a) == Fc7 => w.cbc = a.cbc /\ w.reg = a.reg /\ w.val = a.val
cmd_reply_ack(w, a) == ~a.info /\ ~a.read /\ w.cbc = a.cbc
Matches(w, a) == IF ReadsBack THEN cmd_reply_comp(w, a) ELSE cmd_reply_ack(w, a)

NoCall == [op |-> "none"]

Init == /\ chip = [c \in Cbc |-> [r \in Reg |-> DefaultVal]]
        /\ fRegMap \in {[c \in Cbc |-> m] : m \in [Reg -> Val]}
        /\ pc = "idle"
        /\ call = NoCall
        /\ vec = <<>> /\ pos = 0 /\ replies = <<>> /\ cWriteAgain = <<>>
        /\ pWriteAttempts = 0 /\ depth = 0
        /\ outOfRange = FALSE
        /\ last = NoCall
        /\ suspect = Cbc \X Reg

-----------------------------------------------------------------------------
\* Entry of every call: encode the words and write them to the command FIFO.
Enter(k) ==
  /\ pc = "idle" /\ pc' = "bus"
  /\ k.req # <<>>
  /\ call' = k /\ vec' = EncodeReg(k) /\ pos' = 0 /\ replies' = <<>>
  /\ cWriteAgain' = <<>> /\ pWriteAttempts' = 0 /\ depth' = 0
  /\ outOfRange' = FALSE
  /\ last' = NoCall
  /\ suspect' = IF k.op \in {"read", "readall"} THEN suspect
                ELSE suspect \cup ((IF k.op = "broadcast" THEN Cbc ELSE {k.cbc}) \X Named(k.req))
  /\ UNCHANGED <<chip, fRegMap>>

WriteCbcMultReg(c, req, pVerifLoop) ==
  Enter([op |-> "write", cbc |-> c, req |-> req, readback |-> pVerifLoop])

ConfigureCbc(c) ==
  Enter([op |-> "configure", cbc |-> c, readback |-> TRUE,
         req |-> [i \in 1..Len(ConfigOrder) |-> <<ConfigOrder[i], fRegMap[c][ConfigOrder[i]]>>]])

WriteBroadcastMultReg(req) ==
  Enter([op |-> "broadcast", cbc |-> AllChips, req |-> req, readback |-> FALSE])

\* The value field of a read command carries the current copy, which nobody uses.
ReadCbcMultReg(c, names) ==
  Enter([op |-> "read", cbc |-> c, readback |-> FALSE,
         req |-> [i \in 1..Len(names) |-> <<names[i], fRegMap[c][names[i]]>>]])

ReadCbc(c) ==
  Enter([op |-> "readall", cbc |-> c, readback |-> FALSE,
         req |-> [i \in 1..Len(RegOrder) |-> <<RegOrder[i], fRegMap[c][RegOrder[i]]>>]])

\* CbcHardReset, sent by ConfigureBoard before the chips are configured.
CbcHardReset ==
  /\ pc = "idle"
  /\ chip' = [c \in Cbc |-> [r \in Reg |-> DefaultVal]]
  /\ suspect' = Cbc \X Reg /\ last' = NoCall
  /\ UNCHANGED <<fRegMap, pc, host, outOfRange>>

-----------------------------------------------------------------------------
\* External: the bus manager executes the next word of the transaction.
Ack(w, info) == [cbc |-> w.cbc, info |-> info, read |-> FALSE, reg |-> w.reg, val |-> w.val]
ReadBack(w, info, v) == [cbc |-> w.cbc, info |-> info, read |-> TRUE, reg |-> w.reg, val |-> v]

\* A write word is answered and, if its read bit is set, read back; the D19c
\* firmware sends the value read back only.
Answers(w, info, v) ==
  CASE Fc7 /\ w.read   -> <<Ack(w, info), ReadBack(w, info, v)>>
    [] Fc7 /\ ~w.read  -> <<Ack(w, info)>>
    [] ~Fc7 /\ w.read  -> <<ReadBack(w, info, v)>>
    [] ~Fc7 /\ ~w.read -> <<>>

Arrive(full) == {full} \cup (IF Lossy THEN {<<>>} \cup {<<full[i]>> : i \in 1..Len(full)} ELSE {})

FwWrite ==
  /\ pc = "bus" /\ pos < Len(vec)
  /\ LET w == vec[pos + 1] IN
     /\ w.write /\ w.cbc # AllChips
     /\ \E taken, info \in BOOLEAN :
          /\ taken => ~info
          /\ chip' = IF taken THEN [chip EXCEPT ![w.cbc] = [@ EXCEPT ![w.reg] = w.val]] ELSE chip
          /\ \E got \in Arrive(Answers(w, info, IF taken THEN w.val ELSE chip[w.cbc][w.reg])) :
               replies' = replies \o got
  /\ pos' = pos + 1
  /\ UNCHANGED <<fRegMap, pc, call, vec, cWriteAgain, pWriteAttempts, depth, outOfRange, last, suspect>>

FwRead ==
  /\ pc = "bus" /\ pos < Len(vec)
  /\ LET w == vec[pos + 1] IN
     /\ ~w.write /\ w.cbc # AllChips
     /\ \E info \in BOOLEAN, v \in Val :
          /\ ~info => v = chip[w.cbc][w.reg]
          /\ \E got \in Arrive(<<ReadBack(w, info, v)>>) : replies' = replies \o got
  /\ pos' = pos + 1
  /\ UNCHANGED <<chip, fRegMap, pc, call, vec, cWriteAgain, pWriteAttempts, depth, outOfRange, last, suspect>>

FwBroadcast ==
  /\ pc = "bus" /\ pos < Len(vec)
  /\ LET w == vec[pos + 1] IN
     /\ w.write /\ w.cbc = AllChips
     /\ \E takers \in SUBSET Cbc :
          /\ chip' = [c \in Cbc |-> IF c \in takers THEN [chip[c] EXCEPT ![w.reg] = w.val] ELSE chip[c]]
          /\ replies' = IF Fc7
               THEN replies \o [i \in 1..Len(CbcOrder) |->
                      [cbc |-> CbcOrder[i], info |-> CbcOrder[i] \notin takers, read |-> FALSE,
                       reg |-> w.reg, val |-> w.val]]
               ELSE replies
  /\ pos' = pos + 1
  /\ UNCHANGED <<fRegMap, pc, call, vec, cWriteAgain, pWriteAttempts, depth, outOfRange, last, suspect>>

-----------------------------------------------------------------------------
Return(r) ==
  /\ pc' = "idle"
  /\ last' = [op |-> call.op, cbc |-> call.cbc, req |-> call.req, readback |-> call.readback,
              ret |-> r, clean |-> ~outOfRange']

\* WriteCbcBlockReg after WriteI2C: exit on no reply, else start comparing.
WriteReplies ==
  /\ pc = "bus" /\ pos = Len(vec) /\ call.op \in Writes
  /\ pc' = IF Fc7 /\ replies = <<>> THEN "dead" ELSE "compare"
  /\ pos' = IF Fc7 \/ ReadsBack THEN 0 ELSE Len(vec)  \* D19c compares nothing without readback
  /\ UNCHANGED <<chip, fRegMap, call, vec, replies, cWriteAgain, pWriteAttempts, depth,
                 outOfRange, last, suspect>>

\* One position of get_mismatches.  Past the end of the replies it reads memory
\* it does not own: the word matches, or it does not, or the program crashes.
CompareWord ==
  /\ pc = "compare" /\ pos < Len(vec)
  /\ \/ /\ pos < Len(Compared)
        /\ cWriteAgain' = IF Matches(vec[pos + 1], Compared[pos + 1]) THEN cWriteAgain
                          ELSE Append(cWriteAgain, vec[pos + 1])
        /\ UNCHANGED <<pc, outOfRange>>
     \/ /\ pos >= Len(Compared)
        /\ outOfRange' = TRUE
        /\ cWriteAgain' \in {cWriteAgain, Append(cWriteAgain, vec[pos + 1])}
        /\ pc' \in {pc, "dead"}
  /\ pos' = pos + 1
  /\ UNCHANGED <<chip, fRegMap, call, vec, replies, pWriteAttempts, depth, last, suspect>>

AllCompared == pc = "compare" /\ pos = Len(vec)

\* The recursive call: the words that failed are written again, always with readback.
WriteAgain ==
  /\ AllCompared /\ cWriteAgain # <<>>
  /\ Len(cWriteAgain) < cMaxErrors /\ pWriteAttempts < cMaxWriteAttempts
  /\ pWriteAttempts' = pWriteAttempts + 1 /\ depth' = depth + 1
  /\ vec' = cWriteAgain /\ cWriteAgain' = <<>> /\ pos' = 0 /\ replies' = <<>>
  /\ pc' = "bus"
  /\ UNCHANGED <<chip, fRegMap, call, outOfRange, last, suspect>>

\* All activations return.  The result of a recursive call is dropped: the
\* caller of WriteCbcBlockReg sees TRUE only when its own first comparison was clean.
Succeeds == cWriteAgain = <<>> /\ depth = 0

Stored == IF call.op = "write" /\ Succeeds
            THEN [fRegMap EXCEPT ![call.cbc] = SetRegs(@, call.req)]
            ELSE fRegMap

\* Faulty variant: no branch for the attempt limit.
WriteReturns_NoLimit ==
  /\ AllCompared /\ cWriteAgain = <<>>
  /\ fRegMap' = Stored
  /\ UNCHANGED outOfRange
  /\ Return(IF Succeeds THEN "true" ELSE "false")
  /\ suspect' = IF Succeeds /\ call.readback /\ ~outOfRange
                  THEN suspect \ ({call.cbc} \X Settled(call.req)) ELSE suspect
  /\ UNCHANGED <<chip, call, vec, pos, replies, cWriteAgain, pWriteAttempts, depth>>

WriteReturns ==
  /\ AllCompared
  /\ cWriteAgain = <<>> \/ pWriteAttempts >= cMaxWriteAttempts
  /\ fRegMap' = Stored
  /\ pWriteAttempts' = IF cWriteAgain = <<>> THEN pWriteAttempts ELSE 0
  /\ UNCHANGED outOfRange
  /\ Return(IF Succeeds THEN "true" ELSE "false")
  /\ suspect' = IF Succeeds /\ call.readback /\ ~outOfRange
                  THEN suspect \ ({call.cbc} \X Settled(call.req)) ELSE suspect
  /\ UNCHANGED <<chip, call, vec, pos, replies, cWriteAgain, depth>>

WriteThrows ==
  /\ AllCompared /\ Len(cWriteAgain) >= cMaxErrors /\ cWriteAgain # <<>>
  /\ pWriteAttempts < cMaxWriteAttempts
  /\ UNCHANGED outOfRange
  /\ Return("thrown")
  /\ UNCHANGED <<chip, fRegMap, host, suspect>>

-----------------------------------------------------------------------------
\* Faulty variant: the info bit of a reply is ignored.
Failed_Never(a) == FALSE

\* DecodeReg: the info bit of a reply, which the D19c interface takes to be 0.
Failed(a) == Fc7 /\ a.info

\* Position i holds the last reply that is stored under register r.
Stores(r, i) == call.req[i][1] = r /\ ~Failed(replies[i])
LastStore(r, i) == Stores(r, i) /\ \A j \in i+1..Len(replies) : ~Stores(r, j)

Answered == {r \in Reg : \E i \in 1..Len(replies) : LastStore(r, i)}

\* Each reply stored, in order, under the name at its position; the address in
\* the reply is not looked at.
Updated(m) ==
  [r \in Reg |-> IF r \in Answered THEN replies[CHOOSE i \in 1..Len(replies) : LastStore(r, i)].val
                 ELSE m[r]]

\* ReadCbc walks the replies.  ReadCbcMultReg walks the names and so, when
\* replies are missing, decodes memory past the end of the reply vector.
ReadReturns ==
  /\ pc = "bus" /\ pos = Len(vec) /\ call.op \in {"read", "readall"}
  /\ outOfRange' = (call.op = "read" /\ Len(replies) < Len(vec))
  /\ LET missing == IF outOfRange' THEN {call.req[i][1] : i \in Len(replies)+1..Len(vec)} ELSE {}
     IN \E junk \in SUBSET missing, v \in Val :
          fRegMap' = [fRegMap EXCEPT ![call.cbc] =
                        [r \in Reg |-> IF r \in junk THEN v ELSE Updated(@)[r]]]
  /\ suspect' = IF Len(replies) = Len(vec) THEN suspect \ ({call.cbc} \X Answered)
                ELSE suspect \cup ({call.cbc} \X Named(call.req))
  /\ \/ Return("true")
     \/ outOfRange' /\ pc' = "dead" /\ last' = NoCall
  /\ UNCHANGED <<chip, host>>

\* BCWriteCbcBlockReg with readback: cSuccess is overwritten by every reply.
BroadcastReturns ==
  /\ pc = "bus" /\ pos = Len(vec) /\ call.op = "broadcast"
  /\ LET cSuccess == IF replies = <<>> THEN ~Fc7 ELSE ~replies[Len(replies)].info
     IN /\ fRegMap' = IF cSuccess
                        THEN [c \in Cbc |-> SetRegs(fRegMap[c], call.req)]
                        ELSE fRegMap
        /\ UNCHANGED outOfRange
        /\ Return(IF cSuccess THEN "true" ELSE "false")
  /\ UNCHANGED <<chip, host, suspect>>

Next ==
  \/ \E c \in Cbc, req \in Requests, v \in BOOLEAN : WriteCbcMultReg(c, req, v)
  \/ \E c \in Cbc : ConfigureCbc(c) \/ ReadCbc(c)
  \/ \E c \in Cbc, names \in Readings : ReadCbcMultReg(c, names)
  \/ \E req \in Requests : WriteBroadcastMultReg(req)
  \/ CbcHardReset
  \/ FwWrite \/ FwRead \/ FwBroadcast
  \/ WriteReplies \/ CompareWord \/ WriteAgain \/ WriteReturns \/ WriteThrows
  \/ ReadReturns \/ BroadcastReturns

Spec == Init /\ [][Next]_vars

\* The calling thread runs until it returns, and the bus manager, a state
\* machine in the FPGA, works through its command FIFO.
HostStep == WriteReplies \/ CompareWord \/ WriteAgain \/ WriteReturns \/ WriteThrows
              \/ ReadReturns \/ BroadcastReturns
FairSpec == Spec /\ WF_vars(HostStep) /\ WF_vars(FwWrite \/ FwRead \/ FwBroadcast)

-----------------------------------------------------------------------------
TypeOK ==
  /\ chip \in [Cbc -> [Reg -> Val]]
  /\ fRegMap \in [Cbc -> [Reg -> Val]]
  /\ pc \in {"idle", "bus", "compare", "dead"}
  /\ call \in Call \cup {NoCall}
  /\ vec \in Seq(Word) /\ pos \in 0..Len(vec)
  /\ replies \in Seq(Reply) /\ cWriteAgain \in Seq(Word)
  /\ pWriteAttempts \in 0..cMaxWriteAttempts /\ depth \in Nat
  /\ outOfRange \in BOOLEAN
  /\ suspect \subseteq Cbc \X Reg

\* A verified write (WriteCbcMultReg, ConfigureCbc) that reports success has
\* left, in the chip, the last value requested for every register it names,
\* however words were refused or replies lost, and the software copy agrees.
\* It relates the words, the positions of the replies and the chip.
VerifiedWrite ==
  Fc7 /\ last.op \in Writes /\ last.readback /\ last.ret = "true" /\ last.clean =>
    \A i \in 1..Len(last.req) : IsLast(last.req, i) =>
      /\ chip[last.cbc][last.req[i][1]] = last.req[i][2]
      /\ fRegMap[last.cbc][last.req[i][1]] = last.req[i][2]

\* The software copy of a register differs from the chip only when the code has
\* had reason to doubt it since the last verified write or answered read: a
\* hard reset, an unverified or failed write, a short answer.
CopyTrusted ==
  Fc7 => \A c \in Cbc, r \in Reg : fRegMap[c][r] # chip[c][r] => <<c, r>> \in suspect

\* One call sends its words at most 1 + cMaxWriteAttempts times.
RetryBounded == depth <= cMaxWriteAttempts

\* Every call comes back, unless the program exits or crashes in it.
CallReturns == pc \in {"bus", "compare"} ~> pc \in {"idle", "dead"}

=============================================================================
