------------------------ MODULE CbcRegisters_proofs ------------------------
(***************************************************************************)
(* Proofs about CbcRegisters, for every set of chips and registers, every  *)
(* request, every attempt limit, and with or without lost replies.         *)
(***************************************************************************)
EXTENDS CbcRegisters, TLAPS, SequenceTheorems

InCall == pc \in {"bus", "compare"}
Verified == call.op \in Writes /\ call.readback /\ depth = 0

Regs(c) == (IF call.op = "broadcast" THEN Cbc ELSE {c}) \X Named(call.req)

\* The call in progress and the words derived from it.
CallInv ==
  InCall =>
    /\ call \in Call
    /\ call.op # "broadcast" => call.cbc \in Cbc
    /\ last = NoCall
    /\ depth = 0 => vec = EncodeReg(call)
    /\ depth > 0 => call.op \in Writes
    /\ call.op \notin Writes => pc = "bus"
    /\ \A i \in 1..Len(vec) : vec[i].reg \in Named(call.req) /\ vec[i].cbc = call.cbc
                               /\ (vec[i].write <=> call.op \notin {"read", "readall"})
    /\ \A i \in 1..Len(cWriteAgain) :
         cWriteAgain[i].reg \in Named(call.req) /\ cWriteAgain[i].cbc = call.cbc /\ cWriteAgain[i].write
    /\ call.op = "configure" =>
         \A i \in 1..Len(call.req) : call.req[i][2] = fRegMap[call.cbc][call.req[i][1]]
    /\ call.op \in Writes \cup {"broadcast"} => Regs(call.cbc) \subseteq suspect

\* Word i is the last of the first n that names its register.
LastOf(i, n) == \A j \in i+1..n : vec[j].reg # vec[i].reg

\* No word yields more than two replies; when none of a verified block is
\* missing, every second reply is what the chip still holds.
WriteInv ==
  Fc7 /\ InCall /\ Verified =>
    LET n == IF pc = "bus" THEN pos ELSE Len(vec) IN
    /\ Len(replies) <= 2 * n
    /\ Len(replies) = 2 * n =>
         \A i \in 1..n : LastOf(i, n) => replies[2 * i].val = chip[call.cbc][vec[i].reg]

\* A comparison that found nothing wrong covered replies that were there.
CompareInv ==
  Fc7 /\ pc = "compare" /\ Verified /\ cWriteAgain = <<>> /\ ~outOfRange =>
    \A i \in 1..pos : i <= Len(replies) \div 2 /\ vec[i].val = replies[2 * i].val

\* The replies to a read are at most as many as the words, and when as many,
\* the ones not flagged hold the registers of the words.
ReadInv ==
  pc = "bus" /\ call.op \in {"read", "readall"} =>
    /\ Len(replies) <= pos
    /\ Len(replies) = pos =>
         \A i \in 1..pos : ~replies[i].info => replies[i].val = chip[call.cbc][vec[i].reg]

AttemptInv == depth <= cMaxWriteAttempts /\ (InCall => depth = pWriteAttempts)

IInv == TypeOK /\ CallInv /\ WriteInv /\ CompareInv /\ ReadInv /\ AttemptInv
          /\ VerifiedWrite /\ CopyTrusted

-----------------------------------------------------------------------------
(* Lemmas about the operators.                                             *)

\* The words of a call are words, one per pair of the request.
LEMMA EncodeWords ==
  ASSUME NEW k \in Call
  PROVE  /\ EncodeReg(k) \in Seq(Word)
         /\ Len(EncodeReg(k)) = Len(k.req)
         /\ \A i \in 1..Len(k.req) :
              /\ EncodeReg(k)[i].reg = k.req[i][1] /\ EncodeReg(k)[i].val = k.req[i][2]
              /\ EncodeReg(k)[i].cbc = k.cbc
              /\ EncodeReg(k)[i].read = (k.readback \/ k.op \in {"read", "readall"})
              /\ EncodeReg(k)[i].write = (k.op \in Writes \cup {"broadcast"})
<1>1. k.req \in Seq(Reg \X Val) /\ Len(k.req) \in Nat /\ k.cbc \in Cbc \cup {AllChips}
        /\ k.readback \in BOOLEAN
  BY DEF Call
<1>2. \A i \in 1..Len(k.req) : k.req[i] \in Reg \X Val /\ k.req[i][1] \in Reg /\ k.req[i][2] \in Val
  BY <1>1
<1>3. /\ (k.readback \/ k.op \in {"read", "readall"}) \in BOOLEAN
       /\ (k.op \in Writes \cup {"broadcast"}) \in BOOLEAN
  OBVIOUS
<1>4. \A i \in 1..Len(k.req) :
        [cbc |-> k.cbc, reg |-> k.req[i][1], val |-> k.req[i][2],
         read |-> k.readback \/ k.op \in {"read", "readall"},
         write |-> k.op \in Writes \cup {"broadcast"}] \in Word
  BY <1>1, <1>2, <1>3, Zenon DEF Word
<1>5. EncodeReg(k) \in [1..Len(k.req) -> Word]
  BY <1>4, Zenon DEF EncodeReg
<1>6. EncodeReg(k) \in Seq(Word) /\ Len(EncodeReg(k)) = Len(k.req)
  BY <1>1, <1>5, LenProperties, SeqDef
<1>7. \A i \in 1..Len(k.req) :
              /\ EncodeReg(k)[i].reg = k.req[i][1] /\ EncodeReg(k)[i].val = k.req[i][2]
              /\ EncodeReg(k)[i].cbc = k.cbc
              /\ EncodeReg(k)[i].read = (k.readback \/ k.op \in {"read", "readall"})
              /\ EncodeReg(k)[i].write = (k.op \in Writes \cup {"broadcast"})
  BY Zenon DEF EncodeReg
<1> QED BY <1>6, <1>7

\* Setting a request leaves in a register the value of the last pair that
\* names it, a value in every register, and the others alone.
LEMMA SetType ==
  ASSUME NEW req \in Seq(Reg \X Val), NEW m \in [Reg -> Val]
  PROVE  /\ SetRegs(m, req) \in [Reg -> Val]
         /\ \A r \in Reg : r \notin Settled(req) => SetRegs(m, req)[r] = m[r]
         /\ \A i \in 1..Len(req) : IsLast(req, i) => SetRegs(m, req)[req[i][1]] = req[i][2]
<1>1. ASSUME NEW i \in 1..Len(req), IsLast(req, i)
      PROVE  LastValue(req, req[i][1]) = req[i][2]
  <2> DEFINE r == req[i][1]
             j == CHOOSE j \in 1..Len(req) : req[j][1] = r /\ IsLast(req, j)
  <2>1. j \in 1..Len(req) /\ req[j][1] = r /\ IsLast(req, j)
    BY <1>1, Zenon
  <2>2. j = i
    BY <1>1, <2>1 DEF IsLast
  <2> QED BY <2>2, Zenon DEF LastValue
<1>2. \A i \in 1..Len(req) : req[i] \in Reg \X Val /\ req[i][1] \in Reg /\ req[i][2] \in Val
  OBVIOUS
<1>3. ASSUME NEW r \in Settled(req)
      PROVE  LastValue(req, r) \in Val
  <2>1. PICK i \in 1..Len(req) : req[i][1] = r /\ IsLast(req, i)
    BY DEF Settled
  <2>2. LastValue(req, r) = req[i][2]
    BY <1>1, <2>1
  <2> QED BY <1>2, <2>2
<1>4. SetRegs(m, req) \in [Reg -> Val]
  BY <1>3 DEF SetRegs
<1>5. ASSUME NEW i \in 1..Len(req), IsLast(req, i)
      PROVE  SetRegs(m, req)[req[i][1]] = req[i][2]
  <2>1. req[i][1] \in Settled(req) /\ req[i][1] \in Reg
    BY <1>2, <1>5, Zenon DEF Settled
  <2> QED BY <1>1, <1>5, <2>1, Zenon DEF SetRegs
<1>6. \A r \in Reg : r \notin Settled(req) => SetRegs(m, req)[r] = m[r]
  BY Zenon DEF SetRegs
<1> QED BY <1>4, <1>5, <1>6

LEMMA SettledNamed ==
  ASSUME NEW req
  PROVE  /\ Settled(req) \subseteq Named(req)
         /\ \A r \in Settled(req) : \E i \in 1..Len(req) : req[i][1] = r /\ IsLast(req, i)
BY Zenon DEF Settled, Named

\* What arrives of at most two answers is at most two answers.
LEMMA ArriveType ==
  ASSUME NEW full \in Seq(Reply), Len(full) <= 2, NEW got \in Arrive(full)
  PROVE  /\ got \in Seq(Reply) /\ Len(got) <= Len(full)
         /\ Len(full) = 2 /\ Len(got) = 2 => got = full
         /\ Len(full) = 1 /\ Len(got) = 1 => got[1] = full[1]
<1>1. CASE got = full
  BY <1>1
<1>2. CASE got = <<>>
  BY <1>2, EmptySeq
<1>3. ASSUME NEW i \in 1..Len(full), got = <<full[i]>>
      PROVE  got \in Seq(Reply) /\ Len(got) = 1 /\ got[1] = full[i]
  BY <1>3
<1>4. CASE \E i \in 1..Len(full) : got = <<full[i]>>
  BY <1>3, <1>4
<1> QED BY <1>1, <1>2, <1>4, Zenon DEF Arrive

LEMMA ReplyType ==
  ASSUME NEW w \in Word, w.cbc \in Cbc, NEW info \in BOOLEAN, NEW v \in Val
  PROVE  /\ Ack(w, info) \in Reply /\ ReadBack(w, info, v) \in Reply
         /\ Answers(w, info, v) \in Seq(Reply) /\ Len(Answers(w, info, v)) <= 2
         /\ Fc7 /\ w.read => Answers(w, info, v) = <<Ack(w, info), ReadBack(w, info, v)>>
<1>1. w.reg \in Reg /\ w.val \in Val /\ w.read \in BOOLEAN
  BY Zenon DEF Word
<1>2. FALSE \in BOOLEAN /\ TRUE \in BOOLEAN
  OBVIOUS
<1>3. Ack(w, info) \in Reply /\ ReadBack(w, info, v) \in Reply
  BY <1>1, <1>2, Zenon DEF Ack, ReadBack, Reply
<1>4. Fc7 /\ w.read => Answers(w, info, v) = <<Ack(w, info), ReadBack(w, info, v)>>
  BY Zenon DEF Answers
<1>5. Fc7 /\ ~w.read => Answers(w, info, v) = <<Ack(w, info)>>
  BY Zenon DEF Answers
<1>6. ~Fc7 /\ w.read => Answers(w, info, v) = <<ReadBack(w, info, v)>>
  BY Zenon DEF Answers
<1>7. ~Fc7 /\ ~w.read => Answers(w, info, v) = <<>>
  BY Zenon DEF Answers
<1>8. \A a, b \in Reply : /\ <<a>> \in Seq(Reply) /\ Len(<<a>>) = 1
                          /\ <<a, b>> \in Seq(Reply) /\ Len(<<a, b>>) = 2
  OBVIOUS
<1> DEFINE a == Ack(w, info)
           b == ReadBack(w, info, v)
<1>9. a \in Reply /\ b \in Reply
  BY <1>3
<1> HIDE DEF a, b
<1>10. /\ <<a>> \in Seq(Reply) /\ Len(<<a>>) <= 2
       /\ <<b>> \in Seq(Reply) /\ Len(<<b>>) <= 2
       /\ <<a, b>> \in Seq(Reply) /\ Len(<<a, b>>) <= 2
       /\ <<>> \in Seq(Reply) /\ Len(<<>>) <= 2
  BY <1>9, EmptySeq
<1>11. Answers(w, info, v) \in {<<a, b>>, <<a>>, <<b>>, <<>>}
  BY <1>4, <1>5, <1>6, <1>7, Zenon DEF a, b
<1> HIDE DEF Answers
<1>12. Answers(w, info, v) \in Seq(Reply) /\ Len(Answers(w, info, v)) <= 2
  BY <1>10, <1>11, Zenon
<1> QED BY <1>3, <1>4, <1>12, Zenon

LEMMA NothingReturned ==
  /\ last = NoCall => VerifiedWrite
  /\ last' = NoCall => VerifiedWrite'
BY DEF NoCall, VerifiedWrite, Writes

-----------------------------------------------------------------------------
(* Each step preserves the invariant.                                      *)

\* What the entry of a call hands to Enter.
Proper(k) ==
  /\ k \in Call
  /\ k.op # "broadcast" => k.cbc \in Cbc
  /\ k.op = "configure" => \A i \in 1..Len(k.req) : k.req[i][2] = fRegMap[k.cbc][k.req[i][1]]

LEMMA EnterStep ==
  ASSUME IInv, NEW k, Proper(k), Enter(k)
  PROVE  IInv'
<1> USE DEF IInv
<1>1. /\ pc' = "bus" /\ call' = k /\ vec' = EncodeReg(k) /\ pos' = 0 /\ replies' = <<>>
      /\ cWriteAgain' = <<>> /\ pWriteAttempts' = 0 /\ depth' = 0 /\ last' = NoCall
      /\ chip' = chip /\ fRegMap' = fRegMap
  BY DEF Enter
<1>2. outOfRange' \in BOOLEAN
  BY Zenon DEF Enter
<1>3. k \in Call /\ k.req \in Seq(Reg \X Val) /\ Named(k.req) \subseteq Reg
  BY DEF Proper, Call, Named
<1>4. suspect \subseteq suspect' /\ suspect' \subseteq Cbc \X Reg
  BY <1>3 DEF Enter, Proper, TypeOK
<1>5. k.op \in Writes \cup {"broadcast"} =>
        ((IF k.op = "broadcast" THEN Cbc ELSE {k.cbc}) \X Named(k.req)) \subseteq suspect'
  BY DEF Enter, Writes
<1>6. EncodeReg(k) \in Seq(Word) /\ Len(EncodeReg(k)) = Len(k.req) /\ Len(k.req) \in Nat
  BY <1>3, EncodeWords
<1>7. TypeOK'
  BY <1>1, <1>2, <1>3, <1>4, <1>6, EmptySeq, LimitAssumption DEF TypeOK
<1>8. CallInv'
  <2>1. \A i \in 1..Len(vec') : vec'[i].reg \in Named(k.req) /\ vec'[i].cbc = k.cbc
                               /\ (vec'[i].write <=> k.op \notin {"read", "readall"})
    <3>1. k.op \in {"write", "configure", "broadcast", "read", "readall"}
      BY <1>3 DEF Call
    <3>2. (k.op \in Writes \cup {"broadcast"}) <=> k.op \notin {"read", "readall"}
      BY <3>1 DEF Writes
    <3>3. ASSUME NEW i \in 1..Len(vec')
          PROVE  vec'[i].reg \in Named(k.req) /\ vec'[i].cbc = k.cbc
                   /\ (vec'[i].write <=> k.op \notin {"read", "readall"})
      <4>1. i \in 1..Len(k.req) /\ vec'[i] = EncodeReg(k)[i]
        BY <1>1, <1>6
      <4>2. EncodeReg(k)[i].reg = k.req[i][1] /\ EncodeReg(k)[i].cbc = k.cbc
              /\ EncodeReg(k)[i].write = (k.op \in Writes \cup {"broadcast"})
        BY <1>3, <4>1, EncodeWords
      <4> QED BY <3>2, <4>1, <4>2, Zenon DEF Named
    <3> QED BY <3>3
  <2>2. Len(cWriteAgain') = 0
    BY <1>1
  <2> QED BY <1>1, <1>3, <1>5, <2>1, <2>2 DEF CallInv, Proper, Regs
<1>9. WriteInv'
  BY <1>1 DEF WriteInv
<1>10. CompareInv'
  BY <1>1 DEF CompareInv
<1>11. ReadInv'
  BY <1>1 DEF ReadInv
<1>12. AttemptInv'
  BY <1>1, LimitAssumption DEF AttemptInv
<1>13. VerifiedWrite'
  BY <1>1, NothingReturned
<1>14. CopyTrusted'
  BY <1>1, <1>4 DEF CopyTrusted
<1> QED BY <1>7, <1>8, <1>9, <1>10, <1>11, <1>12, <1>13, <1>14

LEMMA ResetStep ==
  ASSUME IInv, CbcHardReset
  PROVE  IInv'
<1> USE DEF IInv
<1>1. /\ pc = "idle" /\ pc' = "idle" /\ fRegMap' = fRegMap /\ last' = NoCall
      /\ suspect' = Cbc \X Reg /\ UNCHANGED <<host, outOfRange>>
  BY DEF CbcHardReset
<1>2. chip' \in [Cbc -> [Reg -> Val]]
  BY ChipAssumption DEF CbcHardReset
<1>3. TypeOK'
  BY <1>1, <1>2 DEF TypeOK, host
<1>4. CallInv' /\ WriteInv' /\ CompareInv' /\ ReadInv'
  BY <1>1 DEF CallInv, WriteInv, CompareInv, ReadInv, InCall
<1>5. AttemptInv'
  BY <1>1 DEF AttemptInv, InCall, host
<1>6. VerifiedWrite'
  BY <1>1, NothingReturned
<1>7. CopyTrusted'
  BY <1>1 DEF CopyTrusted
<1> QED BY <1>3, <1>4, <1>5, <1>6, <1>7

LEMMA FwWriteStep ==
  ASSUME IInv, FwWrite
  PROVE  IInv'
<1> USE DEF IInv
<1> DEFINE w == vec[pos + 1]
<1>1. /\ pc = "bus" /\ pos < Len(vec) /\ pos' = pos + 1 /\ w.write /\ w.cbc # AllChips
      /\ UNCHANGED <<fRegMap, pc, call, vec, cWriteAgain, pWriteAttempts, depth, outOfRange, last, suspect>>
  BY DEF FwWrite
<1>2. PICK taken \in BOOLEAN, info \in BOOLEAN :
        /\ taken => ~info
        /\ chip' = IF taken THEN [chip EXCEPT ![w.cbc] = [@ EXCEPT ![w.reg] = w.val]] ELSE chip
        /\ \E got \in Arrive(Answers(w, info, IF taken THEN w.val ELSE chip[w.cbc][w.reg])) :
             replies' = replies \o got
  BY Zenon DEF FwWrite
<1> DEFINE v == IF taken THEN w.val ELSE chip[w.cbc][w.reg]
<1>3. pos \in Nat /\ pos + 1 \in 1..Len(vec) /\ w \in Word
  BY <1>1 DEF TypeOK
<1>4. call \in Call /\ w.cbc = call.cbc /\ w.cbc \in Cbc /\ w.reg \in Named(call.req)
      /\ w.reg \in Reg /\ w.val \in Val /\ call.op \notin {"read", "readall"}
      /\ call.op \in Writes \cup {"broadcast"}
  <2>1. call \in Call /\ w.cbc = call.cbc /\ w.reg \in Named(call.req)
          /\ call.op \notin {"read", "readall"}
    BY <1>1, <1>3 DEF CallInv, InCall
  <2>2. w.cbc \in Cbc /\ w.reg \in Reg /\ w.val \in Val
    BY <1>1, <1>3 DEF Word
  <2>3. call.op \in Writes \cup {"broadcast"}
    BY <2>1 DEF Call, Writes
  <2> QED BY <2>1, <2>2, <2>3
<1>5. v \in Val
  BY <1>4 DEF TypeOK
<1>6. /\ chip' \in [Cbc -> [Reg -> Val]]
      /\ chip'[w.cbc][w.reg] = v
      /\ \A c \in Cbc, r \in Reg : c # w.cbc \/ r # w.reg => chip'[c][r] = chip[c][r]
  BY <1>2, <1>4 DEF TypeOK
<1>7. PICK got \in Arrive(Answers(w, info, v)) : replies' = replies \o got
  BY <1>2
<1> HIDE DEF v
<1>8. got \in Seq(Reply) /\ Len(got) <= 2
      /\ (Fc7 /\ w.read /\ Len(got) = 2 => got[2].val = v)
  <2>1. Answers(w, info, v) \in Seq(Reply) /\ Len(Answers(w, info, v)) <= 2
    BY <1>3, <1>4, <1>5, ReplyType
  <2>2. got \in Seq(Reply) /\ Len(got) <= Len(Answers(w, info, v))
          /\ (Len(Answers(w, info, v)) = 2 /\ Len(got) = 2 => got = Answers(w, info, v))
    BY <2>1, ArriveType
  <2>3. Fc7 /\ w.read => Answers(w, info, v) = <<Ack(w, info), ReadBack(w, info, v)>>
    BY Zenon DEF Answers
  <2>4. ReadBack(w, info, v).val = v
    BY DEF ReadBack
  <2>5. ASSUME Fc7, w.read, Len(got) = 2 PROVE got[2].val = v
    <3>1. Answers(w, info, v) = <<Ack(w, info), ReadBack(w, info, v)>>
      BY <2>3, <2>5
    <3>2. got = <<Ack(w, info), ReadBack(w, info, v)>>
      BY <2>2, <2>5, <3>1
    <3> QED BY <2>4, <3>2
  <2> QED BY <2>1, <2>2, <2>5
<1>9. /\ replies' \in Seq(Reply) /\ Len(replies') = Len(replies) + Len(got)
      /\ \A i \in 1..Len(replies) : replies'[i] = replies[i]
      /\ \A i \in 1..Len(got) : replies'[Len(replies) + i] = got[i]
      /\ Len(replies) \in Nat /\ Len(got) \in Nat
  BY <1>7, <1>8, ConcatProperties DEF TypeOK
<1>10. TypeOK'
  BY <1>1, <1>3, <1>6, <1>9 DEF TypeOK
<1>11. CallInv'
  BY <1>1 DEF CallInv, InCall, Regs
<1>12. WriteInv'
  <2> SUFFICES ASSUME Fc7, Verified
               PROVE  /\ Len(replies') <= 2 * (pos + 1)
                      /\ Len(replies') = 2 * (pos + 1) =>
                           \A i \in 1..(pos + 1) : LastOf(i, pos + 1) =>
                              replies'[2 * i].val = chip'[call.cbc][vec[i].reg]
    BY <1>1 DEF WriteInv, Verified, LastOf, InCall
  <2>1. w.read
    <3>1. vec = EncodeReg(call) /\ call.readback
      BY <1>1 DEF CallInv, Verified, InCall
    <3>2. pos + 1 \in 1..Len(call.req)
      BY <1>3, <1>4, <3>1, EncodeWords
    <3> QED BY <1>4, <3>1, <3>2, EncodeWords, Zenon
  <2>2. /\ Len(replies) <= 2 * pos
        /\ Len(replies) = 2 * pos =>
             \A i \in 1..pos : LastOf(i, pos) => replies[2 * i].val = chip[call.cbc][vec[i].reg]
    BY <1>1 DEF WriteInv, InCall
  <2>3. Len(replies') <= 2 * (pos + 1)
    BY <1>3, <1>8, <1>9, <2>2
  <2>4. ASSUME Len(replies') = 2 * (pos + 1), NEW i \in 1..(pos + 1), LastOf(i, pos + 1)
        PROVE  replies'[2 * i].val = chip'[call.cbc][vec[i].reg]
    <3>1. Len(replies) = 2 * pos /\ Len(got) = 2
      <4>1. Len(replies) <= 2 * pos /\ Len(got) <= 2 /\ Len(replies) \in Nat /\ Len(got) \in Nat
              /\ Len(replies) + Len(got) = 2 * (pos + 1)
        BY <1>8, <1>9, <2>2, <2>4
      <4>2. \A a, b, c \in Nat :
              a <= 2 * c /\ b <= 2 /\ a + b = 2 * (c + 1) => a = 2 * c /\ b = 2
        OBVIOUS
      <4>3. pos \in Nat
        BY <1>3
      <4> QED BY <4>1, <4>2, <4>3
    <3>2. CASE i = pos + 1
      <4>1. replies'[2 * i] = got[2]
        <5>1. 2 * i = Len(replies) + 2
          BY <1>3, <3>1, <3>2
        <5> QED BY <1>9, <3>1, <5>1
      <4> QED BY <1>4, <1>6, <1>8, <2>1, <3>1, <3>2, <4>1
    <3>3. CASE i # pos + 1
      <4>1. i \in 1..pos /\ 2 * i \in 1..Len(replies)
        BY <1>3, <3>1, <3>3
      <4>2. LastOf(i, pos) /\ vec[i].reg # w.reg
        BY <1>3, <2>4, <4>1 DEF LastOf
      <4>3. vec[i].reg \in Reg
        <5>1. vec[i] \in Word
          BY <1>1, <1>3, <4>1 DEF TypeOK
        <5> QED BY <5>1, Zenon DEF Word
      <4> QED BY <1>4, <1>6, <1>9, <2>2, <3>1, <4>1, <4>2, <4>3
    <3> QED BY <3>2, <3>3
  <2> QED BY <2>3, <2>4
<1>13. CompareInv' /\ ReadInv'
  BY <1>1, <1>4 DEF CompareInv, ReadInv
<1>14. AttemptInv'
  BY <1>1 DEF AttemptInv, InCall
<1>15. VerifiedWrite'
  BY <1>1, NothingReturned DEF CallInv, InCall
<1>16. CopyTrusted'
  <2>1. <<w.cbc, w.reg>> \in suspect
    <3>1. Regs(call.cbc) \subseteq suspect
      BY <1>1, <1>4 DEF CallInv, InCall
    <3> QED BY <1>4, <3>1 DEF Regs
  <2> QED BY <1>1, <1>6, <2>1 DEF CopyTrusted
<1> QED BY <1>10, <1>11, <1>12, <1>13, <1>14, <1>15, <1>16

LEMMA FwReadStep ==
  ASSUME IInv, FwRead
  PROVE  IInv'
<1> USE DEF IInv
<1> DEFINE w == vec[pos + 1]
<1>1. /\ pc = "bus" /\ pos < Len(vec) /\ pos' = pos + 1 /\ ~w.write /\ w.cbc # AllChips
      /\ UNCHANGED <<chip, fRegMap, pc, call, vec, cWriteAgain, pWriteAttempts, depth,
                     outOfRange, last, suspect>>
  BY DEF FwRead
<1>2. PICK info \in BOOLEAN, v \in Val :
        /\ ~info => v = chip[w.cbc][w.reg]
        /\ \E got \in Arrive(<<ReadBack(w, info, v)>>) : replies' = replies \o got
  BY Zenon DEF FwRead
<1>3. PICK got \in Arrive(<<ReadBack(w, info, v)>>) : replies' = replies \o got
  BY <1>2
<1>4. pos \in Nat /\ pos + 1 \in 1..Len(vec) /\ w \in Word
  BY <1>1 DEF TypeOK
<1>5. call \in Call /\ w.cbc = call.cbc /\ call.op \in {"read", "readall"}
  BY <1>1, <1>4 DEF CallInv, InCall
<1>6. w.cbc \in Cbc /\ w.reg \in Reg /\ w.val \in Val
  BY <1>1, <1>4 DEF Word
<1> DEFINE a == ReadBack(w, info, v)
<1>7. a \in Reply /\ a.info = info /\ a.val = v
  <2>1. a \in Reply
    BY <1>4, <1>6, ReplyType
  <2> QED BY <2>1 DEF ReadBack
<1> HIDE DEF a
<1>8. got \in Seq(Reply) /\ Len(got) <= 1 /\ Len(got) \in Nat /\ (Len(got) = 1 => got[1] = a)
  <2>1. <<a>> \in Seq(Reply) /\ Len(<<a>>) = 1 /\ <<a>>[1] = a
    BY <1>7
  <2>2. got \in Arrive(<<a>>)
    BY <1>3 DEF a
  <2> DEFINE one == <<a>>
  <2>3. one \in Seq(Reply) /\ Len(one) = 1 /\ one[1] = a /\ got \in Arrive(one) /\ Len(one) <= 2
    BY <2>1, <2>2
  <2> HIDE DEF one
  <2>4. got \in Seq(Reply) /\ Len(got) <= Len(one)
          /\ (Len(one) = 1 /\ Len(got) = 1 => got[1] = one[1])
    BY <2>3, ArriveType
  <2> QED BY <2>3, <2>4
<1>9. /\ replies' \in Seq(Reply) /\ Len(replies') = Len(replies) + Len(got)
      /\ \A i \in 1..Len(replies) : replies'[i] = replies[i]
      /\ \A i \in 1..Len(got) : replies'[Len(replies) + i] = got[i]
      /\ Len(replies) \in Nat
  BY <1>3, <1>8, ConcatProperties DEF TypeOK
<1>10. TypeOK'
  BY <1>1, <1>4, <1>9 DEF TypeOK
<1>11. CallInv'
  BY <1>1 DEF CallInv, InCall, Regs
<1>12. WriteInv' /\ CompareInv'
  BY <1>1, <1>5 DEF WriteInv, CompareInv, Verified, Writes
<1>13. ReadInv'
  <2>1. /\ Len(replies) <= pos
        /\ Len(replies) = pos =>
             \A i \in 1..pos : ~replies[i].info => replies[i].val = chip[call.cbc][vec[i].reg]
    BY <1>1, <1>5 DEF ReadInv
  <2>2. Len(replies') <= pos + 1
    <3>1. \A x, y, z \in Nat : x <= z /\ y <= 1 => x + y <= z + 1
      OBVIOUS
    <3>2. Len(replies) <= pos /\ pos \in Nat
      BY <1>4, <2>1
    <3> QED BY <1>8, <1>9, <3>1, <3>2
  <2>3. ASSUME Len(replies') = pos + 1, NEW i \in 1..(pos + 1), ~replies'[i].info
        PROVE  replies'[i].val = chip[call.cbc][vec[i].reg]
    <3>1. Len(replies) = pos /\ Len(got) = 1
      <4>1. \A x, y, z \in Nat : x <= z /\ y <= 1 /\ x + y = z + 1 => x = z /\ y = 1
        OBVIOUS
      <4>2. Len(replies) \in Nat /\ Len(got) \in Nat /\ pos \in Nat
        BY <1>4, <1>8, <1>9
      <4>3. Len(replies) <= pos /\ Len(got) <= 1 /\ Len(replies) + Len(got) = pos + 1
        BY <1>8, <1>9, <2>1, <2>3
      <4> QED BY <4>1, <4>2, <4>3
    <3>2. CASE i = pos + 1
      <4>1. replies'[i] = a
        BY <1>8, <1>9, <3>1, <3>2
      <4> QED BY <1>2, <1>5, <1>7, <2>3, <3>2, <4>1
    <3>3. CASE i # pos + 1
      <4>1. i \in 1..pos
        BY <1>4, <3>3
      <4> QED BY <1>9, <2>1, <2>3, <3>1, <4>1
    <3> QED BY <3>2, <3>3
  <2> QED BY <1>1, <2>2, <2>3 DEF ReadInv
<1>14. AttemptInv'
  BY <1>1 DEF AttemptInv, InCall
<1>15. VerifiedWrite'
  BY <1>1, NothingReturned DEF CallInv, InCall
<1>16. CopyTrusted'
  BY <1>1 DEF CopyTrusted
<1> QED BY <1>10, <1>11, <1>12, <1>13, <1>14, <1>15, <1>16

LEMMA FwBroadcastStep ==
  ASSUME IInv, FwBroadcast
  PROVE  IInv'
<1> USE DEF IInv
<1> DEFINE w == vec[pos + 1]
<1>1. /\ pc = "bus" /\ pos < Len(vec) /\ pos' = pos + 1 /\ w.write /\ w.cbc = AllChips
      /\ UNCHANGED <<fRegMap, pc, call, vec, cWriteAgain, pWriteAttempts, depth, outOfRange, last, suspect>>
  BY DEF FwBroadcast
<1>2. PICK takers \in SUBSET Cbc :
          /\ chip' = [c \in Cbc |-> IF c \in takers THEN [chip[c] EXCEPT ![w.reg] = w.val] ELSE chip[c]]
          /\ replies' = IF Fc7
               THEN replies \o [i \in 1..Len(CbcOrder) |->
                      [cbc |-> CbcOrder[i], info |-> CbcOrder[i] \notin takers, read |-> FALSE,
                       reg |-> w.reg, val |-> w.val]]
               ELSE replies
  BY Zenon DEF FwBroadcast
<1>3. pos \in Nat /\ pos + 1 \in 1..Len(vec) /\ w \in Word
  BY <1>1 DEF TypeOK
<1>4. w.reg \in Reg /\ w.val \in Val
  BY <1>3, Zenon DEF Word
<1>5. call \in Call /\ w.reg \in Named(call.req) /\ call.op = "broadcast"
  <2>1. call \in Call /\ w.cbc = call.cbc /\ w.reg \in Named(call.req)
          /\ (call.op # "broadcast" => call.cbc \in Cbc)
    BY <1>1, <1>3 DEF CallInv, InCall
  <2>2. AllChips \notin Cbc
    BY ChipAssumption DEF AllChips
  <2> QED BY <1>1, <2>1, <2>2
<1>6. replies' \in Seq(Reply)
  <2> DEFINE more == [i \in 1..Len(CbcOrder) |->
                      [cbc |-> CbcOrder[i], info |-> CbcOrder[i] \notin takers, read |-> FALSE,
                       reg |-> w.reg, val |-> w.val]]
  <2>1. Len(CbcOrder) \in Nat /\ \A i \in 1..Len(CbcOrder) : CbcOrder[i] \in Cbc
    BY ChipAssumption
  <2>2. \A i \in 1..Len(CbcOrder) : (CbcOrder[i] \notin takers) \in BOOLEAN
    OBVIOUS
  <2>3. FALSE \in BOOLEAN
    OBVIOUS
  <2>4. more \in [1..Len(CbcOrder) -> Reply]
    BY <1>4, <2>1, <2>2, <2>3, Zenon DEF Reply
  <2> HIDE DEF more
  <2>5. more \in Seq(Reply)
    BY <2>1, <2>4, SeqDef
  <2>6. replies' = replies \o more \/ replies' = replies
    BY <1>2, Zenon DEF more
  <2>7. replies \in Seq(Reply)
    BY DEF TypeOK
  <2>8. replies \o more \in Seq(Reply)
    BY <2>5, <2>7, ConcatProperties
  <2> QED BY <2>6, <2>7, <2>8
<1>7. chip' \in [Cbc -> [Reg -> Val]]
      /\ \A c \in Cbc, r \in Reg : r # w.reg => chip'[c][r] = chip[c][r]
  BY <1>2, <1>4 DEF TypeOK
<1>8. TypeOK'
  BY <1>1, <1>3, <1>6, <1>7 DEF TypeOK
<1>9. CallInv'
  BY <1>1 DEF CallInv, InCall, Regs
<1>10. WriteInv' /\ CompareInv' /\ ReadInv'
  BY <1>1, <1>5 DEF WriteInv, CompareInv, ReadInv, Verified, Writes
<1>11. AttemptInv'
  BY <1>1 DEF AttemptInv, InCall
<1>12. VerifiedWrite'
  BY <1>1, NothingReturned DEF CallInv, InCall
<1>13. CopyTrusted'
  <2>1. Regs(call.cbc) \subseteq suspect
    BY <1>1, <1>5 DEF CallInv, InCall
  <2>2. \A c \in Cbc : <<c, w.reg>> \in suspect
    BY <1>5, <2>1 DEF Regs
  <2> QED BY <1>1, <1>7, <2>2 DEF CopyTrusted
<1> QED BY <1>8, <1>9, <1>10, <1>11, <1>12, <1>13

LEMMA WriteRepliesStep ==
  ASSUME IInv, WriteReplies
  PROVE  IInv'
<1> USE DEF IInv
<1>1. /\ pc = "bus" /\ pos = Len(vec) /\ call.op \in Writes
      /\ pc' \in {"dead", "compare"}
      /\ pos' = IF Fc7 \/ ReadsBack THEN 0 ELSE Len(vec)
      /\ UNCHANGED <<chip, fRegMap, call, vec, replies, cWriteAgain, pWriteAttempts, depth,
                     outOfRange, last, suspect>>
  BY DEF WriteReplies
<1>2. TypeOK'
  BY <1>1 DEF TypeOK
<1>3. CallInv'
  BY <1>1 DEF CallInv, InCall, Regs
<1>4. WriteInv'
  BY <1>1 DEF WriteInv, InCall, Verified, LastOf
<1>5. CompareInv'
  BY <1>1 DEF CompareInv
<1>6. ReadInv'
  BY <1>1 DEF ReadInv
<1>7. AttemptInv'
  BY <1>1 DEF AttemptInv, InCall
<1>8. VerifiedWrite'
  BY <1>1, NothingReturned DEF CallInv, InCall
<1>9. CopyTrusted'
  BY <1>1 DEF CopyTrusted
<1> QED BY <1>2, <1>3, <1>4, <1>5, <1>6, <1>7, <1>8, <1>9

LEMMA CompareStep ==
  ASSUME IInv, CompareWord
  PROVE  IInv'
<1> USE DEF IInv
<1>1. /\ pc = "compare" /\ pos < Len(vec) /\ pos' = pos + 1 /\ pc' \in {"compare", "dead"}
      /\ cWriteAgain' \in {cWriteAgain, Append(cWriteAgain, vec[pos + 1])}
      /\ UNCHANGED <<chip, fRegMap, call, vec, replies, pWriteAttempts, depth, last, suspect>>
  BY DEF CompareWord
<1>2. outOfRange' \in BOOLEAN
  <2>1. outOfRange \in BOOLEAN
    BY DEF TypeOK
  <2>2. outOfRange' = outOfRange \/ outOfRange' = TRUE
    BY Zenon DEF CompareWord
  <2> QED BY <2>1, <2>2, Zenon
<1>3. pos \in Nat /\ pos + 1 \in 1..Len(vec) /\ vec[pos + 1] \in Word
  BY <1>1 DEF TypeOK
<1>4. cWriteAgain' \in Seq(Word)
  <2>1. cWriteAgain \in Seq(Word)
    BY DEF TypeOK
  <2>2. Append(cWriteAgain, vec[pos + 1]) \in Seq(Word)
    BY <1>3, <2>1, AppendProperties
  <2> QED BY <1>1, <2>1, <2>2
<1>5. TypeOK'
  BY <1>1, <1>2, <1>3, <1>4 DEF TypeOK
<1>6. CallInv'
  <2>1. CASE cWriteAgain' = cWriteAgain
    BY <1>1, <2>1 DEF CallInv, InCall, Regs
  <2>2. CASE cWriteAgain' = Append(cWriteAgain, vec[pos + 1])
    <3>1. /\ vec[pos + 1].reg \in Named(call.req) /\ vec[pos + 1].cbc = call.cbc
          /\ vec[pos + 1].write
      BY <1>1, <1>3 DEF CallInv, InCall, Writes
    <3>2. \A i \in 1..Len(cWriteAgain') :
            IF i <= Len(cWriteAgain) THEN i \in 1..Len(cWriteAgain) /\ cWriteAgain'[i] = cWriteAgain[i]
            ELSE cWriteAgain'[i] = vec[pos + 1]
      BY <1>3, <2>2, AppendProperties DEF TypeOK
    <3>3. \A i \in 1..Len(cWriteAgain') : cWriteAgain'[i].reg \in Named(call.req)
             /\ cWriteAgain'[i].cbc = call.cbc /\ cWriteAgain'[i].write
      BY <1>1, <3>1, <3>2 DEF CallInv, InCall
    <3> QED BY <1>1, <3>3 DEF CallInv, InCall, Regs
  <2> QED BY <1>1, <2>1, <2>2
<1>7. WriteInv'
  BY <1>1 DEF WriteInv, InCall, Verified, LastOf
<1>8. CompareInv'
  <2> SUFFICES ASSUME Fc7, pc' = "compare", Verified, cWriteAgain' = <<>>, ~outOfRange',
                      NEW i \in 1..(pos + 1)
               PROVE  i <= Len(replies) \div 2 /\ vec[i].val = replies[2 * i].val
    BY <1>1 DEF CompareInv, Verified
  <2>1. cWriteAgain' = cWriteAgain
    BY <1>1, <1>3, AppendProperties DEF TypeOK
  <2>2. pos < Len(Compared) /\ ~outOfRange
          /\ (Matches(vec[pos + 1], Compared[pos + 1]) \/ cWriteAgain' = Append(cWriteAgain, vec[pos + 1]))
    <3>1. CASE pos >= Len(Compared) /\ outOfRange' = TRUE
      BY <3>1
    <3>2. CASE /\ pos < Len(Compared) /\ UNCHANGED <<pc, outOfRange>>
               /\ cWriteAgain' = IF Matches(vec[pos + 1], Compared[pos + 1]) THEN cWriteAgain
                                 ELSE Append(cWriteAgain, vec[pos + 1])
      <4>1. ~outOfRange
        BY <3>2
      <4> QED BY <3>2, <4>1, Zenon
    <3> QED BY <3>1, <3>2, Zenon DEF CompareWord
  <2>3. Matches(vec[pos + 1], Compared[pos + 1])
    BY <1>3, <2>2, AppendProperties DEF TypeOK
  <2>4. ReadsBack
    BY DEF Verified, ReadsBack
  <2>5. Compared = [j \in 1..(Len(replies) \div 2) |-> replies[2 * j]] /\ Len(replies) \in Nat
    BY <2>4 DEF Compared, TypeOK
  <2>6. Len(Compared) = Len(replies) \div 2
    <3>1. Len(replies) \div 2 \in Nat
      BY <2>5
    <3> QED BY <2>5, <3>1
  <2>7. CASE i = pos + 1
    <3>1. i <= Len(replies) \div 2
      BY <1>3, <2>2, <2>5, <2>6, <2>7
    <3>2. Compared[i] = replies[2 * i]
      BY <2>5, <3>1
    <3> QED BY <2>3, <2>4, <2>7, <3>1, <3>2 DEF Matches, cmd_reply_comp
  <2>8. CASE i # pos + 1
    <3>1. i \in 1..pos
      BY <1>3, <2>8
    <3> QED BY <1>1, <2>1, <2>2, <3>1 DEF CompareInv
  <2> QED BY <2>7, <2>8
<1>9. ReadInv'
  BY <1>1 DEF ReadInv
<1>10. AttemptInv'
  BY <1>1 DEF AttemptInv, InCall
<1>11. VerifiedWrite'
  BY <1>1, NothingReturned DEF CallInv, InCall
<1>12. CopyTrusted'
  BY <1>1 DEF CopyTrusted
<1> QED BY <1>5, <1>6, <1>7, <1>8, <1>9, <1>10, <1>11, <1>12

LEMMA WriteAgainStep ==
  ASSUME IInv, WriteAgain
  PROVE  IInv'
<1> USE DEF IInv
<1>1. /\ pc = "compare" /\ pWriteAttempts < cMaxWriteAttempts
      /\ pWriteAttempts' = pWriteAttempts + 1 /\ depth' = depth + 1
      /\ vec' = cWriteAgain /\ cWriteAgain' = <<>> /\ pos' = 0 /\ replies' = <<>> /\ pc' = "bus"
      /\ UNCHANGED <<chip, fRegMap, call, outOfRange, last, suspect>>
  BY DEF WriteAgain, AllCompared
<1>2. depth = pWriteAttempts /\ depth \in Nat /\ call.op \in Writes
  <2>1. call.op \in Writes
    BY <1>1 DEF CallInv, InCall
  <2> QED BY <1>1, <2>1 DEF AttemptInv, InCall, TypeOK
<1>3. TypeOK'
  BY <1>1, <1>2, EmptySeq, LimitAssumption DEF TypeOK
<1>4. CallInv'
  <2>1. Len(cWriteAgain') = 0 /\ depth' > 0
    BY <1>1, <1>2
  <2>2. call.op \notin {"read", "readall"}
    BY <1>2 DEF Writes
  <2> QED BY <1>1, <1>2, <2>1, <2>2 DEF CallInv, InCall, Regs
<1>5. WriteInv' /\ CompareInv'
  BY <1>1, <1>2 DEF WriteInv, CompareInv, Verified
<1>6. ReadInv'
  BY <1>1, <1>2 DEF ReadInv, Writes
<1>7. AttemptInv'
  BY <1>1, <1>2, LimitAssumption DEF AttemptInv, TypeOK
<1>8. VerifiedWrite'
  BY <1>1, NothingReturned DEF CallInv, InCall
<1>9. CopyTrusted'
  BY <1>1 DEF CopyTrusted
<1> QED BY <1>3, <1>4, <1>5, <1>6, <1>7, <1>8, <1>9

\* A first comparison that found nothing wrong: the chip holds the request.
LEMMA CleanComparison ==
  ASSUME IInv, Fc7, AllCompared, Verified, cWriteAgain = <<>>, ~outOfRange
  PROVE  /\ call \in Call /\ call.cbc \in Cbc
         /\ \A i \in 1..Len(call.req) : IsLast(call.req, i) =>
              chip[call.cbc][call.req[i][1]] = call.req[i][2]
<1> USE DEF IInv
<1>1. pc = "compare" /\ pos = Len(vec) /\ call.op \in Writes
  BY DEF AllCompared, Verified
<1>2. call \in Call /\ call.cbc \in Cbc /\ vec = EncodeReg(call)
  BY <1>1 DEF CallInv, InCall, Verified, Writes
<1>3. Len(vec) = Len(call.req) /\ Len(vec) \in Nat
        /\ \A i \in 1..Len(call.req) : vec[i].reg = call.req[i][1] /\ vec[i].val = call.req[i][2]
  BY <1>2, EncodeWords DEF TypeOK
<1>4. \A i \in 1..Len(vec) : i <= Len(replies) \div 2 /\ vec[i].val = replies[2 * i].val
  BY <1>1 DEF CompareInv
<1>5. Len(replies) <= 2 * Len(vec)
        /\ (Len(replies) = 2 * Len(vec) =>
              \A i \in 1..Len(vec) : LastOf(i, Len(vec)) => replies[2 * i].val = chip[call.cbc][vec[i].reg])
  BY <1>1 DEF WriteInv, InCall
<1>6. Len(replies) \in Nat
  BY DEF TypeOK
<1>7. ASSUME NEW i \in 1..Len(call.req), IsLast(call.req, i)
      PROVE  chip[call.cbc][call.req[i][1]] = call.req[i][2]
  <2>1. Len(vec) \in 1..Len(vec)
    BY <1>3, <1>7
  <2>2. Len(vec) <= Len(replies) \div 2
    BY <1>4, <2>1
  <2>3. Len(replies) = 2 * Len(vec)
    <3>1. \A a, b \in Nat : a <= b \div 2 /\ b <= 2 * a => b = 2 * a
      OBVIOUS
    <3> QED BY <1>3, <1>5, <1>6, <2>2, <3>1
  <2>4. LastOf(i, Len(vec))
    BY <1>3, <1>7 DEF LastOf, IsLast
  <2> QED BY <1>3, <1>4, <1>5, <1>7, <2>3, <2>4
<1> QED BY <1>2, <1>7

LEMMA WriteReturnsStep ==
  ASSUME IInv, WriteReturns
  PROVE  IInv'
<1> USE DEF IInv
<1>1. /\ pc = "compare" /\ AllCompared /\ pc' = "idle"
      /\ fRegMap' = Stored /\ pWriteAttempts' \in {pWriteAttempts, 0}
      /\ UNCHANGED <<chip, call, vec, pos, replies, cWriteAgain, depth, outOfRange>>
  BY DEF WriteReturns, Return, AllCompared
<1>2. last' = [op |-> call.op, cbc |-> call.cbc, req |-> call.req, readback |-> call.readback,
               ret |-> IF Succeeds THEN "true" ELSE "false", clean |-> ~outOfRange']
  BY Zenon DEF WriteReturns, Return
<1>3. suspect' = IF Succeeds /\ call.readback /\ ~outOfRange
                  THEN suspect \ ({call.cbc} \X Settled(call.req)) ELSE suspect
  BY DEF WriteReturns
<1>4. call \in Call /\ call.cbc \in Cbc /\ call.op \in Writes /\ call.req \in Seq(Reg \X Val)
  <2>1. call \in Call /\ call.op \in Writes
    BY <1>1 DEF CallInv, InCall
  <2> QED BY <1>1, <2>1 DEF CallInv, InCall, Call, Writes
<1> DEFINE m == SetRegs(fRegMap[call.cbc], call.req)
<1>5. /\ fRegMap' = fRegMap \/ fRegMap' = [fRegMap EXCEPT ![call.cbc] = m]
      /\ Succeeds /\ call.op = "write" => fRegMap' = [fRegMap EXCEPT ![call.cbc] = m]
      /\ call.op # "write" => fRegMap' = fRegMap
  BY <1>1 DEF Stored
<1>6. /\ m \in [Reg -> Val]
      /\ \A r \in Reg : r \notin Settled(call.req) => m[r] = fRegMap[call.cbc][r]
      /\ \A i \in 1..Len(call.req) : IsLast(call.req, i) => m[call.req[i][1]] = call.req[i][2]
  <2>1. fRegMap[call.cbc] \in [Reg -> Val]
    BY <1>4 DEF TypeOK
  <2> QED BY <1>4, <2>1, SetType
<1> HIDE DEF m
<1>7. fRegMap' \in [Cbc -> [Reg -> Val]]
  BY <1>4, <1>5, <1>6 DEF TypeOK
<1>8. TypeOK'
  BY <1>1, <1>3, <1>7, LimitAssumption DEF TypeOK
<1>9. CallInv' /\ WriteInv' /\ CompareInv' /\ ReadInv'
  BY <1>1 DEF CallInv, WriteInv, CompareInv, ReadInv, InCall
<1>10. AttemptInv'
  BY <1>1 DEF AttemptInv, InCall
<1>11. ASSUME Fc7, Succeeds, call.readback, ~outOfRange,
              NEW i \in 1..Len(call.req), IsLast(call.req, i)
       PROVE  /\ chip[call.cbc][call.req[i][1]] = call.req[i][2]
              /\ fRegMap'[call.cbc][call.req[i][1]] = call.req[i][2]
  <2>1. Verified /\ cWriteAgain = <<>>
    BY <1>4, <1>11 DEF Verified, Succeeds
  <2>2. chip[call.cbc][call.req[i][1]] = call.req[i][2]
    BY <1>1, <1>11, <2>1, CleanComparison
  <2>3. CASE call.op = "write"
    BY <1>4, <1>5, <1>6, <1>11, <2>2, <2>3 DEF TypeOK
  <2>4. CASE call.op = "configure"
    BY <1>1, <1>4, <1>5, <1>11, <2>2, <2>4 DEF CallInv, InCall
  <2> QED BY <1>4, <2>2, <2>3, <2>4 DEF Writes
<1>12. VerifiedWrite'
  <2> SUFFICES ASSUME Fc7, last'.readback, last'.ret = "true", last'.clean,
                      NEW i \in 1..Len(last'.req), IsLast(last'.req, i)
               PROVE  /\ chip'[last'.cbc][last'.req[i][1]] = last'.req[i][2]
                      /\ fRegMap'[last'.cbc][last'.req[i][1]] = last'.req[i][2]
    BY Zenon DEF VerifiedWrite, Fc7
  <2>1. Succeeds
    BY <1>2
  <2>2. /\ last'.cbc = call.cbc /\ last'.req = call.req /\ call.readback /\ ~outOfRange'
    BY <1>2, Zenon
  <2> QED BY <1>1, <1>11, <2>1, <2>2
<1>13. CopyTrusted'
  <2> SUFFICES ASSUME Fc7, NEW c \in Cbc, NEW r \in Reg, fRegMap'[c][r] # chip'[c][r]
               PROVE  <<c, r>> \in suspect'
    BY DEF CopyTrusted, Fc7
  <2>1. {call.cbc} \X Named(call.req) \subseteq suspect
    BY <1>1, <1>4 DEF CallInv, InCall, Regs, Writes
  <2>2. CASE c # call.cbc \/ r \notin Settled(call.req)
    <3>1. fRegMap'[c][r] = fRegMap[c][r]
      BY <1>4, <1>5, <1>6, <2>2 DEF TypeOK
    <3>2. <<c, r>> \in suspect
      BY <1>1, <3>1 DEF CopyTrusted
    <3> QED BY <1>3, <2>2, <3>2
  <2>3. CASE c = call.cbc /\ r \in Settled(call.req)
    <3>1. PICK i \in 1..Len(call.req) : call.req[i][1] = r /\ IsLast(call.req, i)
      BY <2>3, SettledNamed
    <3>2. ~(Succeeds /\ call.readback /\ ~outOfRange)
      BY <1>1, <1>11, <2>3, <3>1
    <3>3. r \in Named(call.req)
      BY <2>3, SettledNamed
    <3> QED BY <1>3, <2>1, <2>3, <3>2, <3>3
  <2> QED BY <2>2, <2>3
<1> QED BY <1>8, <1>9, <1>10, <1>12, <1>13

LEMMA WriteThrowsStep ==
  ASSUME IInv, WriteThrows
  PROVE  IInv'
<1> USE DEF IInv
<1>1. /\ pc' = "idle" /\ last'.ret = "thrown"
      /\ UNCHANGED <<chip, fRegMap, host, suspect, outOfRange>>
  BY DEF WriteThrows, Return
<1>2. TypeOK'
  BY <1>1 DEF TypeOK, host
<1>3. CallInv' /\ WriteInv' /\ CompareInv' /\ ReadInv'
  BY <1>1 DEF CallInv, WriteInv, CompareInv, ReadInv, InCall
<1>4. AttemptInv'
  BY <1>1 DEF AttemptInv, InCall, host
<1>5. VerifiedWrite'
  BY <1>1 DEF VerifiedWrite
<1>6. CopyTrusted'
  BY <1>1 DEF CopyTrusted
<1> QED BY <1>2, <1>3, <1>4, <1>5, <1>6

\* A register that is answered gets the value of a reply at one of its positions.
LEMMA UpdatedReg ==
  ASSUME NEW m, NEW r \in Reg
  PROVE  /\ r \in Answered => \E i \in 1..Len(replies) :
              Stores(r, i) /\ Updated(m)[r] = replies[i].val
         /\ r \notin Answered => Updated(m)[r] = m[r]
<1>1. ASSUME r \in Answered
      PROVE  \E i \in 1..Len(replies) : Stores(r, i) /\ Updated(m)[r] = replies[i].val
  <2> DEFINE i == CHOOSE i \in 1..Len(replies) : LastStore(r, i)
  <2>1. \E j \in 1..Len(replies) : LastStore(r, j)
    BY <1>1 DEF Answered
  <2>2. i \in 1..Len(replies) /\ LastStore(r, i)
    BY <2>1, Zenon
  <2>3. Updated(m)[r] = replies[i].val
    BY <1>1, Zenon DEF Updated
  <2> QED BY <2>2, <2>3, Zenon DEF LastStore
<1> QED BY <1>1, Zenon DEF Updated

LEMMA ReadReturnsStep ==
  ASSUME IInv, ReadReturns
  PROVE  IInv'
<1> USE DEF IInv
<1>1. /\ pc = "bus" /\ pos = Len(vec) /\ call.op \in {"read", "readall"}
      /\ UNCHANGED <<chip, host>>
      /\ suspect' = IF Len(replies) = Len(vec) THEN suspect \ ({call.cbc} \X Answered)
                    ELSE suspect \cup ({call.cbc} \X Named(call.req))
      /\ pc' \in {"idle", "dead"}
  BY DEF ReadReturns, Return
<1>2. /\ outOfRange' \in BOOLEAN
      /\ Len(replies) = Len(vec) => outOfRange' = FALSE
  <2>1. outOfRange' = (call.op = "read" /\ Len(replies) < Len(vec))
    BY Zenon DEF ReadReturns
  <2>2. Len(vec) \in Nat
    BY DEF TypeOK
  <2>3. ~(Len(vec) < Len(vec))
    BY <2>2
  <2>4. outOfRange' \in BOOLEAN
    BY <2>1, Zenon
  <2>5. ASSUME Len(replies) = Len(vec) PROVE outOfRange' = FALSE
    <3>1. ~outOfRange'
      BY <2>1, <2>3, <2>5, Zenon
    <3> QED BY <2>4, <3>1, Zenon
  <2> QED BY <2>4, <2>5, Zenon
<1> DEFINE missing == IF outOfRange' THEN {call.req[i][1] : i \in Len(replies)+1..Len(vec)} ELSE {}
<1>3. PICK junk \in SUBSET missing, v \in Val :
          fRegMap' = [fRegMap EXCEPT ![call.cbc] =
                        [r \in Reg |-> IF r \in junk THEN v ELSE Updated(fRegMap[call.cbc])[r]]]
  BY Zenon DEF ReadReturns
<1>4. call \in Call /\ call.cbc \in Cbc /\ call.req \in Seq(Reg \X Val)
  <2>1. call \in Call
    BY <1>1 DEF CallInv, InCall
  <2> QED BY <1>1, <2>1 DEF CallInv, InCall, Call
<1>5. depth = 0 /\ vec = EncodeReg(call)
  <2>1. ~(depth > 0)
    BY <1>1 DEF CallInv, InCall, Writes
  <2>2. depth \in Nat
    BY DEF TypeOK
  <2>3. depth = 0
    BY <2>1, <2>2
  <2> QED BY <1>1, <2>3 DEF CallInv, InCall
<1>6. Len(vec) = Len(call.req) /\ Len(vec) \in Nat
        /\ \A i \in 1..Len(vec) : vec[i].reg = call.req[i][1]
                                    /\ call.req[i][1] \in Reg /\ call.req[i][1] \in Named(call.req)
  BY <1>4, <1>5, EncodeWords DEF Named
<1>7. Len(replies) \in Nat /\ Len(replies) <= Len(vec) /\ replies \in Seq(Reply)
        /\ \A i \in 1..Len(replies) : replies[i] \in Reply
  BY <1>1 DEF ReadInv, TypeOK
<1>8. \A r \in Reg : r \in junk => r \in Named(call.req) /\ outOfRange'
  BY <1>3, <1>6, <1>7
<1>9. \A r \in Reg : r \in Answered =>
         \E i \in 1..Len(replies) : i \in 1..Len(vec) /\ call.req[i][1] = r /\ ~Failed(replies[i])
                                     /\ Updated(fRegMap[call.cbc])[r] = replies[i].val
  <2> SUFFICES ASSUME NEW r \in Reg, r \in Answered
               PROVE \E i \in 1..Len(replies) : i \in 1..Len(vec) /\ call.req[i][1] = r /\ ~Failed(replies[i])
                                     /\ Updated(fRegMap[call.cbc])[r] = replies[i].val
    OBVIOUS
  <2>1. PICK i \in 1..Len(replies) : Stores(r, i) /\ Updated(fRegMap[call.cbc])[r] = replies[i].val
    BY UpdatedReg
  <2>2. i \in 1..Len(vec)
    BY <1>6, <1>7
  <2> QED BY <2>1, <2>2, Zenon DEF Stores
<1>10. \A r \in Reg : r \notin Answered => Updated(fRegMap[call.cbc])[r] = fRegMap[call.cbc][r]
  BY UpdatedReg
<1>11. \A r \in Reg : Updated(fRegMap[call.cbc])[r] \in Val
  <2>1. \A i \in 1..Len(replies) : replies[i].val \in Val
    BY <1>7 DEF Reply
  <2>2. \A r \in Reg : fRegMap[call.cbc][r] \in Val
    BY <1>4 DEF TypeOK
  <2> QED BY <1>9, <1>10, <2>1, <2>2, Zenon
<1>12. /\ fRegMap' \in [Cbc -> [Reg -> Val]]
       /\ \A c \in Cbc : c # call.cbc => fRegMap'[c] = fRegMap[c]
       /\ \A r \in Reg : fRegMap'[call.cbc][r] =
              IF r \in junk THEN v ELSE Updated(fRegMap[call.cbc])[r]
  BY <1>3, <1>4, <1>11 DEF TypeOK
<1>13. Named(call.req) \subseteq Reg
  BY <1>4 DEF Named
<1>14. TypeOK'
  BY <1>1, <1>2, <1>4, <1>12, <1>13 DEF TypeOK, host
<1>15. CallInv' /\ WriteInv' /\ CompareInv' /\ ReadInv'
  BY <1>1 DEF CallInv, WriteInv, CompareInv, ReadInv, InCall
<1>16. AttemptInv'
  BY <1>1 DEF AttemptInv, InCall, host
<1>17. VerifiedWrite'
  <2>1. last'.op = call.op \/ last' = NoCall
    BY DEF ReadReturns, Return
  <2>2. call.op \notin Writes
    BY <1>1 DEF Writes
  <2> QED BY <2>1, <2>2, NothingReturned DEF VerifiedWrite
<1>18. CopyTrusted'
  <2> SUFFICES ASSUME Fc7, NEW c \in Cbc, NEW r \in Reg, fRegMap'[c][r] # chip[c][r]
               PROVE  <<c, r>> \in suspect'
    BY <1>1 DEF CopyTrusted, Fc7
  <2>1. CASE c # call.cbc
    BY <1>1, <1>12, <2>1 DEF CopyTrusted
  <2>2. CASE c = call.cbc /\ Len(replies) = Len(vec)
    <3>1. r \notin junk
      BY <1>2, <1>8, <2>2
    <3>2. r \notin Answered
      <4> SUFFICES ASSUME r \in Answered PROVE FALSE
        OBVIOUS
      <4>1. PICK i \in 1..Len(replies) : i \in 1..Len(vec) /\ call.req[i][1] = r /\ ~Failed(replies[i])
                                     /\ Updated(fRegMap[call.cbc])[r] = replies[i].val
        BY <1>9
      <4>2. ~replies[i].info
        BY <4>1, Zenon DEF Failed
      <4>3. replies[i].val = chip[call.cbc][vec[i].reg]
        BY <1>1, <2>2, <4>1, <4>2 DEF ReadInv
      <4> QED BY <1>6, <1>12, <2>2, <3>1, <4>1, <4>3
    <3>3. fRegMap'[c][r] = fRegMap[c][r]
      BY <1>10, <1>12, <2>2, <3>1, <3>2
    <3> QED BY <1>1, <2>2, <3>2, <3>3 DEF CopyTrusted
  <2>3. CASE c = call.cbc /\ Len(replies) # Len(vec)
    <3>1. CASE r \in Named(call.req)
      BY <1>1, <2>3, <3>1
    <3>2. CASE r \notin Named(call.req)
      <4>1. r \notin junk /\ r \notin Answered
        BY <1>6, <1>8, <1>9, <3>2
      <4>2. fRegMap'[c][r] = fRegMap[c][r]
        BY <1>10, <1>12, <2>3, <4>1
      <4> QED BY <1>1, <2>3, <4>2 DEF CopyTrusted
    <3> QED BY <3>1, <3>2
  <2> QED BY <2>1, <2>2, <2>3
<1> QED BY <1>14, <1>15, <1>16, <1>17, <1>18

LEMMA BroadcastReturnsStep ==
  ASSUME IInv, BroadcastReturns
  PROVE  IInv'
<1> USE DEF IInv
<1>1. /\ pc = "bus" /\ pos = Len(vec) /\ call.op = "broadcast" /\ pc' = "idle"
      /\ UNCHANGED <<chip, host, suspect, outOfRange>>
      /\ last'.op = call.op
  BY DEF BroadcastReturns, Return
<1>2. fRegMap' = fRegMap \/ fRegMap' = [c \in Cbc |-> SetRegs(fRegMap[c], call.req)]
  BY DEF BroadcastReturns
<1>3. call \in Call /\ call.req \in Seq(Reg \X Val) /\ Cbc \X Named(call.req) \subseteq suspect
  <2>1. call \in Call
    BY <1>1 DEF CallInv, InCall
  <2> QED BY <1>1, <2>1 DEF CallInv, InCall, Call, Regs
<1>4. \A c \in Cbc : /\ SetRegs(fRegMap[c], call.req) \in [Reg -> Val]
                     /\ \A r \in Reg : r \notin Settled(call.req) =>
                          SetRegs(fRegMap[c], call.req)[r] = fRegMap[c][r]
  <2>1. \A c \in Cbc : fRegMap[c] \in [Reg -> Val]
    BY DEF TypeOK
  <2> QED BY <1>3, <2>1, SetType
<1>5. /\ fRegMap' \in [Cbc -> [Reg -> Val]]
      /\ \A c \in Cbc, r \in Reg : r \notin Settled(call.req) => fRegMap'[c][r] = fRegMap[c][r]
  BY <1>2, <1>4 DEF TypeOK
<1>6. TypeOK'
  BY <1>1, <1>5 DEF TypeOK, host
<1>7. CallInv' /\ WriteInv' /\ CompareInv' /\ ReadInv'
  BY <1>1 DEF CallInv, WriteInv, CompareInv, ReadInv, InCall
<1>8. AttemptInv'
  BY <1>1 DEF AttemptInv, InCall, host
<1>9. VerifiedWrite'
  BY <1>1 DEF VerifiedWrite, Writes
<1>10. CopyTrusted'
  <2> SUFFICES ASSUME Fc7, NEW c \in Cbc, NEW r \in Reg, fRegMap'[c][r] # chip[c][r]
               PROVE  <<c, r>> \in suspect
    BY <1>1 DEF CopyTrusted, Fc7
  <2>1. CASE r \in Settled(call.req)
    BY <1>3, <2>1, SettledNamed
  <2>2. CASE r \notin Settled(call.req)
    BY <1>5, <2>2 DEF CopyTrusted
  <2> QED BY <2>1, <2>2
<1> QED BY <1>6, <1>7, <1>8, <1>9, <1>10

-----------------------------------------------------------------------------
(* The entries, the initial states and the whole next-state relation.      *)

LEMMA EntryProper ==
  ASSUME IInv,
         \/ \E c \in Cbc, req \in Requests, v \in BOOLEAN : WriteCbcMultReg(c, req, v)
         \/ \E c \in Cbc : ConfigureCbc(c) \/ ReadCbc(c)
         \/ \E c \in Cbc, names \in Readings : ReadCbcMultReg(c, names)
         \/ \E req \in Requests : WriteBroadcastMultReg(req)
  PROVE  IInv'
<1>1. ASSUME NEW c \in Cbc, NEW names \in Seq(Reg)
      PROVE  [i \in 1..Len(names) |-> <<names[i], fRegMap[c][names[i]]>>] \in Seq(Reg \X Val)
  <2>1. \A i \in 1..Len(names) : <<names[i], fRegMap[c][names[i]]>> \in Reg \X Val
    BY DEF IInv, TypeOK
  <2> QED BY <2>1, SeqDef
<1>2. ASSUME NEW op \in {"write", "configure", "broadcast", "read", "readall"},
             NEW cbc \in Cbc \cup {AllChips}, NEW req \in Seq(Reg \X Val), NEW b \in BOOLEAN
      PROVE  [op |-> op, cbc |-> cbc, req |-> req, readback |-> b] \in Call
  BY Zenon DEF Call
<1>3. ASSUME NEW c \in Cbc, NEW req \in Requests, NEW v \in BOOLEAN, WriteCbcMultReg(c, req, v)
      PROVE  IInv'
  <2> DEFINE k == [op |-> "write", cbc |-> c, req |-> req, readback |-> v]
  <2>1. req \in Seq(Reg \X Val) /\ Enter(k)
    BY <1>3, ChipAssumption DEF WriteCbcMultReg
  <2>2. k \in Call
    BY <1>2, <2>1
  <2>3. Proper(k)
    BY <2>2 DEF Proper
  <2> HIDE DEF k
  <2> QED BY <2>1, <2>3, EnterStep
<1>4. ASSUME NEW c \in Cbc, ConfigureCbc(c)
      PROVE  IInv'
  <2> DEFINE req == [i \in 1..Len(ConfigOrder) |-> <<ConfigOrder[i], fRegMap[c][ConfigOrder[i]]>>]
             k == [op |-> "configure", cbc |-> c, readback |-> TRUE, req |-> req]
  <2>1. req \in Seq(Reg \X Val) /\ Enter(k)
    BY <1>1, <1>4, ChipAssumption DEF ConfigureCbc
  <2>2. k \in Call
    BY <2>1, Zenon DEF Call
  <2>3. \A i \in 1..Len(req) : req[i][2] = fRegMap[c][req[i][1]]
    <3>1. Len(ConfigOrder) \in Nat
      BY ChipAssumption
    <3>2. Len(req) = Len(ConfigOrder)
      BY <3>1
    <3> QED BY <3>2
  <2> HIDE DEF req
  <2>4. Proper(k)
    BY <2>2, <2>3 DEF Proper
  <2> HIDE DEF k
  <2> QED BY <2>1, <2>4, EnterStep
<1>5. ASSUME NEW c \in Cbc, NEW names \in Seq(Reg), NEW op \in {"read", "readall"},
             Enter([op |-> op, cbc |-> c, readback |-> FALSE,
                    req |-> [i \in 1..Len(names) |-> <<names[i], fRegMap[c][names[i]]>>]])
      PROVE  IInv'
  <2> DEFINE req == [i \in 1..Len(names) |-> <<names[i], fRegMap[c][names[i]]>>]
             k == [op |-> op, cbc |-> c, readback |-> FALSE, req |-> req]
  <2>1. req \in Seq(Reg \X Val) /\ Enter(k)
    BY <1>1, <1>5
  <2> HIDE DEF req
  <2>2. k \in Call
    BY <2>1, Zenon DEF Call
  <2>3. Proper(k)
    BY <2>2 DEF Proper
  <2> HIDE DEF k
  <2> QED BY <2>1, <2>3, EnterStep
<1>6. ASSUME NEW c \in Cbc, ReadCbc(c)
      PROVE  IInv'
  BY <1>5, <1>6, ChipAssumption DEF ReadCbc
<1>7. ASSUME NEW c \in Cbc, NEW names \in Readings, ReadCbcMultReg(c, names)
      PROVE  IInv'
  BY <1>5, <1>7, ChipAssumption DEF ReadCbcMultReg
<1>8. ASSUME NEW req \in Requests, WriteBroadcastMultReg(req)
      PROVE  IInv'
  <2> DEFINE k == [op |-> "broadcast", cbc |-> AllChips, req |-> req, readback |-> FALSE]
  <2>1. req \in Seq(Reg \X Val) /\ Enter(k)
    BY <1>8, ChipAssumption DEF WriteBroadcastMultReg
  <2>2. k \in Call
    BY <2>1, Zenon DEF Call
  <2>3. Proper(k)
    BY <2>2 DEF Proper
  <2> HIDE DEF k
  <2> QED BY <2>1, <2>3, EnterStep
<1> QED BY <1>3, <1>4, <1>6, <1>7, <1>8

LEMMA InitInv == Init => IInv
<1> SUFFICES ASSUME Init PROVE IInv
  OBVIOUS
<1> USE DEF Init
<1>1. chip \in [Cbc -> [Reg -> Val]]
  BY ChipAssumption
<1>2. fRegMap \in [Cbc -> [Reg -> Val]]
  OBVIOUS
<1>3. outOfRange \in BOOLEAN
  BY Zenon
<1>4. TypeOK
  BY <1>1, <1>2, <1>3, EmptySeq, LimitAssumption DEF TypeOK
<1>5. CallInv /\ WriteInv /\ CompareInv /\ ReadInv
  BY DEF CallInv, WriteInv, CompareInv, ReadInv, InCall
<1>6. AttemptInv
  BY LimitAssumption DEF AttemptInv
<1>7. VerifiedWrite
  BY NothingReturned
<1>8. CopyTrusted
  BY DEF CopyTrusted
<1> QED BY <1>4, <1>5, <1>6, <1>7, <1>8 DEF IInv

LEMMA StepInv == IInv /\ [Next]_vars => IInv'
<1> SUFFICES ASSUME IInv, [Next]_vars PROVE IInv'
  OBVIOUS
<1>1. CASE UNCHANGED vars
  BY <1>1 DEF IInv, vars, host, TypeOK, CallInv, WriteInv, CompareInv, ReadInv, AttemptInv,
              VerifiedWrite, CopyTrusted, InCall, Verified, Regs, LastOf
<1>2. CASE Next
  BY <1>2, EntryProper, ResetStep, FwWriteStep, FwReadStep, FwBroadcastStep, WriteRepliesStep,
     CompareStep, WriteAgainStep, WriteReturnsStep, WriteThrowsStep, ReadReturnsStep,
     BroadcastReturnsStep DEF Next
<1> QED BY <1>1, <1>2

\* The invariant holds of every behaviour.
THEOREM Invariance == Spec => []IInv
BY InitInv, StepInv, PTL DEF Spec

\* Every reachable state is well typed.
THEOREM TypeCorrect == Spec => []TypeOK
<1>1. IInv => TypeOK
  BY DEF IInv
<1> QED BY <1>1, Invariance, PTL

\* WriteCbcMultReg or ConfigureCbc with readback that reports success, having
\* looked only at replies that were there, has left every register it names at
\* the last value requested, in the chip and in the software copy.
THEOREM VerifiedWriteHolds == Spec => []VerifiedWrite
<1>1. IInv => VerifiedWrite
  BY DEF IInv
<1> QED BY <1>1, Invariance, PTL

\* Where copy and chip differ the code has had reason to doubt the copy.
THEOREM CopyIsTrusted == Spec => []CopyTrusted
<1>1. IInv => CopyTrusted
  BY DEF IInv
<1> QED BY <1>1, Invariance, PTL

\* The recursion of WriteCbcBlockReg is never deeper than the attempt limit.
THEOREM RecursionBounded == Spec => []RetryBounded
<1>1. IInv => RetryBounded
  BY DEF IInv, AttemptInv, RetryBounded
<1> QED BY <1>1, Invariance, PTL
=============================================================================
