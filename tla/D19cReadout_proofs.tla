------------------------ MODULE D19cReadout_proofs ------------------------
(***************************************************************************)
(* Theorems about D19cReadout, for every event size, set of boards, set of *)
(* calls and bound.                                                        *)
(***************************************************************************)
EXTENDS D19cReadout, SequenceTheorems, TLAPS

-----------------------------------------------------------------------------
(***************************************************************************)
(* Sequences of words.                                                     *)
(***************************************************************************)
\* Quotients and products of naturals are naturals.
LEMMA DivNat ==
    ASSUME NEW a \in Nat, NEW b \in Nat, b # 0
    PROVE  a \div b \in Nat
OBVIOUS

LEMMA MulNat ==
    ASSUME NEW a \in Nat, NEW b \in Nat
    PROVE  a * b \in Nat
OBVIOUS

\* The position in which a word of s \o t comes from s or from t.
LEMMA ConcatAt ==
    ASSUME NEW s \in Seq(Word), NEW t \in Seq(Word)
    PROVE  /\ s \o t \in Seq(Word)
           /\ Len(s) \in Nat /\ Len(t) \in Nat
           /\ Len(s \o t) = Len(s) + Len(t)
           /\ \A i \in 1 .. Len(s \o t) :
                \/ i \in 1 .. Len(s) /\ (s \o t)[i] = s[i]
                \/ i - Len(s) \in 1 .. Len(t) /\ (s \o t)[i] = t[i - Len(s)]
<1>1. /\ s \o t \in Seq(Word) /\ Len(s \o t) = Len(s) + Len(t)
      /\ Len(s) \in Nat /\ Len(t) \in Nat
      /\ \A i \in 1 .. Len(s) + Len(t) :
           (s \o t)[i] = IF i <= Len(s) THEN s[i] ELSE t[i - Len(s)]
  BY ConcatProperties, LenProperties
<1>2. QED
  BY <1>1

LEMMA PrecedeConcatLeft ==
    ASSUME NEW s \in Seq(Word), NEW t \in Seq(Word), NEW u \in Seq(Word),
           Precede(s, u), Precede(t, u)
    PROVE  Precede(s \o t, u)
<1> SUFFICES ASSUME NEW i \in 1 .. Len(s \o t), NEW j \in 1 .. Len(u),
                    (s \o t)[i] # Underrun, u[j] # Underrun
             PROVE  Before((s \o t)[i], u[j])
  BY DEF Precede
<1>1. CASE i \in 1 .. Len(s) /\ (s \o t)[i] = s[i]
  BY <1>1 DEF Precede
<1>2. CASE i - Len(s) \in 1 .. Len(t) /\ (s \o t)[i] = t[i - Len(s)]
  BY <1>2 DEF Precede
<1>3. QED
  BY <1>1, <1>2, ConcatAt

LEMMA PrecedeConcatRight ==
    ASSUME NEW s \in Seq(Word), NEW t \in Seq(Word), NEW u \in Seq(Word),
           Precede(u, s), Precede(u, t)
    PROVE  Precede(u, s \o t)
<1> SUFFICES ASSUME NEW i \in 1 .. Len(s \o t), NEW j \in 1 .. Len(u),
                    (s \o t)[i] # Underrun, u[j] # Underrun
             PROVE  Before(u[j], (s \o t)[i])
  BY DEF Precede
<1>1. CASE i \in 1 .. Len(s) /\ (s \o t)[i] = s[i]
  BY <1>1 DEF Precede
<1>2. CASE i - Len(s) \in 1 .. Len(t) /\ (s \o t)[i] = t[i - Len(s)]
  BY <1>2 DEF Precede
<1>3. QED
  BY <1>1, <1>2, ConcatAt

LEMMA OrderedConcat ==
    ASSUME NEW s \in Seq(Word), NEW t \in Seq(Word),
           Ordered(s), Ordered(t), Precede(s, t)
    PROVE  Ordered(s \o t)
<1> SUFFICES ASSUME NEW i \in 1 .. Len(s \o t), NEW j \in 1 .. Len(s \o t),
                    i < j, (s \o t)[i] # Underrun, (s \o t)[j] # Underrun
             PROVE  Before((s \o t)[i], (s \o t)[j])
  BY DEF Ordered
<1>0. Len(s) \in Nat /\ Len(t) \in Nat
  BY ConcatAt
<1>1. CASE i \in 1 .. Len(s) /\ (s \o t)[i] = s[i]
  <2>1. CASE j \in 1 .. Len(s) /\ (s \o t)[j] = s[j]
    BY <1>1, <2>1 DEF Ordered
  <2>2. CASE j - Len(s) \in 1 .. Len(t) /\ (s \o t)[j] = t[j - Len(s)]
    BY <1>1, <2>2 DEF Precede
  <2>3. QED
    BY <2>1, <2>2, ConcatAt
<1>2. CASE i - Len(s) \in 1 .. Len(t) /\ (s \o t)[i] = t[i - Len(s)]
  <2>1. j - Len(s) \in 1 .. Len(t) /\ (s \o t)[j] = t[j - Len(s)]
    BY <1>0, <1>2, ConcatAt
  <2>2. i - Len(s) < j - Len(s)
    BY <1>0
  <2>3. QED
    BY <1>2, <2>1, <2>2 DEF Ordered
<1>3. QED
  BY <1>1, <1>2, ConcatAt

\* The empty sequence and a sequence of one word.
LEMMA EmptyOrder ==
    ASSUME NEW s \in Seq(Word)
    PROVE  /\ <<>> \in Seq(Word) /\ Ordered(<<>>)
           /\ Precede(<<>>, s) /\ Precede(s, <<>>)
BY EmptySeq DEF Ordered, Precede

LEMMA OneOrder ==
    ASSUME NEW w \in Word
    PROVE  /\ <<w>> \in Seq(Word) /\ Ordered(<<w>>)
           /\ Len(<<w>>) = 1 /\ <<w>>[1] = w
BY DEF Ordered

\* A block read takes the head of the FIFO and leaves its tail.
LEMMA BlockParts ==
    ASSUME fifo \in Seq(Word), NEW k \in Nat
    PROVE  /\ ReadBlock(k) \in Seq(Word) /\ Len(ReadBlock(k)) = k
           /\ \A i \in 1 .. k :
                ReadBlock(k)[i] = IF i <= Len(fifo) THEN fifo[i] ELSE Underrun
           /\ FifoAfter(k) \in Seq(Word)
           /\ \A i \in 1 .. Len(FifoAfter(k)) :
                k + i \in 1 .. Len(fifo) /\ FifoAfter(k)[i] = fifo[k + i]
<1>0. Len(fifo) \in Nat /\ Underrun \in Word
      /\ \A i \in 1 .. Len(fifo) : fifo[i] \in Word
  BY LenProperties, ElementOfSeq DEF Word
<1>1. \A i \in 1 .. k : (IF i <= Len(fifo) THEN fifo[i] ELSE Underrun) \in Word
  BY <1>0
<1>2. ReadBlock(k) \in Seq(Word) /\ Len(ReadBlock(k)) = k
  BY <1>1 DEF ReadBlock
<1>3. \A i \in 1 .. k :
        ReadBlock(k)[i] = IF i <= Len(fifo) THEN fifo[i] ELSE Underrun
  BY DEF ReadBlock
<1>4. FifoAfter(k) \in Seq(Word)
  BY <1>0 DEF FifoAfter
<1>5. \A i \in 1 .. Len(FifoAfter(k)) :
        k + i \in 1 .. Len(fifo) /\ FifoAfter(k)[i] = fifo[k + i]
  BY <1>0 DEF FifoAfter
<1>6. QED
  BY <1>2, <1>3, <1>4, <1>5

LEMMA BlockOrder ==
    ASSUME fifo \in Seq(Word), NEW k \in Nat, Ordered(fifo)
    PROVE  /\ Ordered(ReadBlock(k)) /\ Ordered(FifoAfter(k))
           /\ Precede(ReadBlock(k), FifoAfter(k))
<1> DEFINE B == ReadBlock(k)
           A == FifoAfter(k)
<1>0. /\ Len(fifo) \in Nat /\ Len(B) = k
      /\ \A i \in 1 .. k : B[i] = IF i <= Len(fifo) THEN fifo[i] ELSE Underrun
      /\ \A i \in 1 .. Len(A) : k + i \in 1 .. Len(fifo) /\ A[i] = fifo[k + i]
      /\ Len(A) \in Nat
  BY BlockParts, LenProperties
<1> HIDE DEF A, B
<1>1. Ordered(B)
  BY <1>0 DEF Ordered
<1>2. Ordered(A)
  BY <1>0 DEF Ordered
<1>3. Precede(B, A)
  <2> SUFFICES ASSUME NEW i \in 1 .. Len(B), NEW j \in 1 .. Len(A),
                      B[i] # Underrun, A[j] # Underrun
               PROVE  Before(B[i], A[j])
    BY DEF Precede
  <2>1. i <= Len(fifo) /\ B[i] = fifo[i] /\ i \in 1 .. Len(fifo)
    BY <1>0
  <2>2. k + j \in 1 .. Len(fifo) /\ A[j] = fifo[k + j] /\ i < k + j
    BY <1>0
  <2>3. QED
    BY <2>1, <2>2 DEF Ordered
<1>4. QED
  BY <1>1, <1>2, <1>3 DEF A, B

\* What precedes the FIFO, or follows it, does so with both parts of it.
LEMMA BlockPrecede ==
    ASSUME fifo \in Seq(Word), NEW k \in Nat, NEW s \in Seq(Word)
    PROVE  /\ Precede(s, fifo) => Precede(s, ReadBlock(k)) /\ Precede(s, FifoAfter(k))
           /\ Precede(fifo, s) => Precede(ReadBlock(k), s) /\ Precede(FifoAfter(k), s)
<1> DEFINE B == ReadBlock(k)
           A == FifoAfter(k)
<1>0. /\ Len(fifo) \in Nat /\ Len(B) = k
      /\ \A i \in 1 .. k : B[i] = IF i <= Len(fifo) THEN fifo[i] ELSE Underrun
      /\ \A i \in 1 .. Len(A) : k + i \in 1 .. Len(fifo) /\ A[i] = fifo[k + i]
  BY BlockParts, LenProperties
<1> HIDE DEF A, B
<1>1. ASSUME Precede(s, fifo) PROVE Precede(s, B) /\ Precede(s, A)
  <2>1. Precede(s, B)
    BY <1>0, <1>1 DEF Precede
  <2>2. Precede(s, A)
    BY <1>0, <1>1 DEF Precede
  <2>3. QED
    BY <2>1, <2>2
<1>2. ASSUME Precede(fifo, s) PROVE Precede(B, s) /\ Precede(A, s)
  <2>1. Precede(B, s)
    BY <1>0, <1>2 DEF Precede
  <2>2. Precede(A, s)
    BY <1>0, <1>2 DEF Precede
  <2>3. QED
    BY <2>1, <2>2
<1>3. QED
  BY <1>1, <1>2 DEF A, B

-----------------------------------------------------------------------------
(***************************************************************************)
(* What moves words along the stream keeps it in order.                    *)
(***************************************************************************)
\* Parts may be dropped, and the next word may move on.
LEMMA StreamDrop ==
    ASSUME NEW r \in Seq(Word), NEW t \in Seq(Word), NEW h \in Seq(Word),
           NEW f \in Seq(Word), NEW n \in Word, InStream(r, t, h, f, n),
           NEW u \in {t, <<>>}, NEW g \in {h, <<>>}, NEW e \in {f, <<>>}
    PROVE  InStream(r, u, g, e, n)
BY EmptyOrder, OneOrder DEF InStream

\* What comes before n comes before a word that is n or follows it.
LEMMA PrecedeLater ==
    ASSUME NEW s \in Seq(Word), NEW n \in Word, NEW m \in Word, n # Underrun,
           Precede(s, <<n>>), n = m \/ Before(n, m)
    PROVE  Precede(s, <<m>>)
<1> SUFFICES ASSUME NEW i \in 1 .. Len(s), s[i] # Underrun, m # Underrun
             PROVE  Before(s[i], m)
  BY OneOrder DEF Precede
<1>1. Before(s[i], n)
  BY OneOrder DEF Precede
<1>2. s[i] \in Word
  BY ElementOfSeq
<1>3. QED
  BY <1>1, <1>2 DEF Before, Word, Underrun

LEMMA StreamLater ==
    ASSUME NEW r \in Seq(Word), NEW t \in Seq(Word), NEW h \in Seq(Word),
           NEW f \in Seq(Word), NEW n \in Word, NEW m \in Word, n # Underrun,
           InStream(r, t, h, f, n), n = m \/ Before(n, m)
    PROVE  InStream(r, t, h, f, m)
BY PrecedeLater DEF InStream

\* The builder adds words.
LEMMA StreamBuild ==
    ASSUME NEW r \in Seq(Word), NEW t \in Seq(Word), NEW h \in Seq(Word),
           NEW f \in Seq(Word), NEW n \in Word, NEW a \in Seq(Word),
           InStream(r, t, h, f, n), Ordered(a), 
           Precede(r, a), Precede(t, a), Precede(h, a), Precede(f, a),
           NEW m \in Word, n # Underrun, Before(n, m), Precede(a, <<m>>)
    PROVE  InStream(r, t, h, f \o a, m)
<1>1. /\ Precede(r, <<m>>) /\ Precede(t, <<m>>)
      /\ Precede(h, <<m>>) /\ Precede(f, <<m>>)
  BY PrecedeLater DEF InStream
<1>2. Ordered(f \o a) /\ Precede(f \o a, <<m>>)
  BY <1>1, OrderedConcat, PrecedeConcatLeft, OneOrder DEF InStream
<1>3. Precede(r, f \o a) /\ Precede(t, f \o a) /\ Precede(h, f \o a)
  BY PrecedeConcatRight DEF InStream
<1>4. QED
  BY <1>1, <1>2, <1>3 DEF InStream

\* The call under way takes the held header and a block.
LEMMA StreamTake ==
    ASSUME NEW r \in Seq(Word), NEW t \in Seq(Word), NEW h \in Seq(Word),
           fifo \in Seq(Word), NEW n \in Word, NEW k \in Nat,
           InStream(r, t, h, fifo, n)
    PROVE  InStream(r, (t \o h) \o ReadBlock(k), <<>>, FifoAfter(k), n)
<1> DEFINE B == ReadBlock(k)
           A == FifoAfter(k)
           th == t \o h
           one == <<n>>
<1>0. A \in Seq(Word) /\ B \in Seq(Word) /\ th \in Seq(Word) /\ one \in Seq(Word)
      /\ th \o B \in Seq(Word)
  BY BlockParts, ConcatProperties, OneOrder
<1>1. Ordered(B) /\ Ordered(A) /\ Precede(B, A)
  BY BlockOrder DEF InStream
<1>2. /\ Precede(r, B) /\ Precede(r, A) /\ Precede(t, B) /\ Precede(t, A)
      /\ Precede(h, B) /\ Precede(h, A) /\ Precede(B, one) /\ Precede(A, one)
  BY <1>0, BlockPrecede DEF InStream
<1>a. /\ Ordered(r) /\ Ordered(t) /\ Ordered(h) /\ Precede(r, t) /\ Precede(r, h)
      /\ Precede(t, h) /\ Precede(r, one) /\ Precede(t, one) /\ Precede(h, one)
  BY DEF InStream
<1> HIDE DEF A, B, one
<1>3. /\ Ordered(th) /\ Precede(th, B) /\ Precede(th, A) /\ Precede(th, one)
      /\ Precede(r, th)
  BY <1>0, <1>2, <1>a, OrderedConcat, PrecedeConcatLeft, PrecedeConcatRight
<1> HIDE DEF th
<1>4. /\ Ordered(th \o B) /\ Precede(th \o B, A) /\ Precede(th \o B, one)
      /\ Precede(r, th \o B)
  BY <1>0, <1>1, <1>2, <1>3, OrderedConcat, PrecedeConcatLeft, PrecedeConcatRight
<1>5. InStream(r, th \o B, <<>>, A, n)
  BY <1>0, <1>1, <1>2, <1>4, <1>a, EmptyOrder DEF InStream, one
<1>6. QED
  BY <1>5 DEF A, B, th

\* A block becomes the held header.
LEMMA StreamHold ==
    ASSUME NEW r \in Seq(Word), NEW t \in Seq(Word), fifo \in Seq(Word),
           NEW n \in Word, NEW k \in Nat, InStream(r, t, <<>>, fifo, n)
    PROVE  InStream(r, t, ReadBlock(k), FifoAfter(k), n)
<1> DEFINE B == ReadBlock(k)
           A == FifoAfter(k)
           one == <<n>>
<1>0. A \in Seq(Word) /\ B \in Seq(Word) /\ one \in Seq(Word)
  BY BlockParts, OneOrder
<1>1. Ordered(B) /\ Ordered(A) /\ Precede(B, A)
  BY BlockOrder DEF InStream
<1>2. /\ Precede(r, B) /\ Precede(r, A) /\ Precede(t, B) /\ Precede(t, A)
      /\ Precede(B, one) /\ Precede(A, one)
  BY <1>0, BlockPrecede DEF InStream
<1>3. QED
  BY <1>1, <1>2 DEF InStream

\* What the call has taken is returned.
LEMMA StreamReturn ==
    ASSUME NEW r \in Seq(Word), NEW t \in Seq(Word), NEW f \in Seq(Word),
           NEW n \in Word, InStream(r, t, <<>>, f, n)
    PROVE  InStream(r \o t, <<>>, <<>>, f, n)
<1> DEFINE one == <<n>>
<1>0. one \in Seq(Word) /\ r \o t \in Seq(Word)
  BY OneOrder, ConcatProperties
<1>1. /\ Ordered(r) /\ Ordered(t) /\ Ordered(f) /\ Precede(r, t) /\ Precede(r, f)
      /\ Precede(t, f) /\ Precede(r, one) /\ Precede(t, one) /\ Precede(f, one)
  BY DEF InStream
<1> HIDE DEF one
<1>2. Ordered(r \o t) /\ Precede(r \o t, f) /\ Precede(r \o t, one)
  BY <1>0, <1>1, OrderedConcat, PrecedeConcatLeft
<1>3. QED
  BY <1>0, <1>1, <1>2, EmptyOrder DEF InStream, one

-----------------------------------------------------------------------------
(***************************************************************************)
(* The invariant holds initially.                                          *)
(***************************************************************************)
LEMMA InitInv == Init => IInv
<1> SUFFICES ASSUME Init PROVE IInv
  OBVIOUS
<1>1. <<>> \in Seq(Word) /\ Underrun \in Word /\ Len(<<>>) = 0
  BY EmptySeq, ReadoutAssumption DEF Word
<1>2. board \in Board
  BY ReadoutAssumption DEF Init
<1>3. NoResult \in Result /\ NoResult.call \in CallType
  BY <1>1 DEF NoResult, Call, Result, CallType, Stops
<1>4. config \in [packetNbr : Nat, handshake : BOOLEAN, accept : Nat]
  BY <1>2 DEF Init, Board
<1>5. TypeOK
  <2>1. FirmwareOK
    <3>1. 0 \in 0 .. EventSize - 1
      BY ReadoutAssumption
    <3>2. fsm \in BOOLEAN
      BY Zenon DEF Init
    <3>3. QED
      BY <1>1, <1>2, <1>4, <3>1, <3>2 DEF Init, FirmwareOK
  <2>2. ControlOK
    <3>1. call \in CallType
      BY <1>3 DEF Init
    <3>2. pc = "idle"
      BY DEF Init
    <3>3. calls = 0
      BY DEF Init
    <3>4. QED
      BY <3>1, <3>2, <3>3 DEF ControlOK
  <2>3. PollOK
    BY <1>1, ReadoutAssumption DEF Init, PollOK
  <2>4. ResultOK
    <3>1. pFailed \in BOOLEAN
      BY Zenon DEF Init
    <3>2. QED
      BY <1>1, <3>1 DEF Init, ResultOK
  <2>5. HistoryOK
    BY <1>1, <1>3 DEF Init, HistoryOK
  <2>6. QED
    BY <2>1, <2>2, <2>3, <2>4, <2>5 DEF TypeOK
<1>6. CallInv /\ BuildInv
  BY DEF Init, CallInv, BuildInv
<1>7. StreamInv
  <2>1. NextWord \in Word
    BY ReadoutAssumption DEF Init, NextWord, Word
  <2>2. returned = <<>> /\ Taken = <<>> /\ Held = <<>> /\ fifo = <<>>
    BY DEF Init, Taken, Held, Reading
  <2>3. QED
    BY <1>1, <2>1, <2>2, EmptyOrder, OneOrder DEF StreamInv, InStream
<1>8. SaveInv
  BY DEF Init, SaveInv
<1>9. QED
  BY <1>5, <1>6, <1>7, <1>8 DEF IInv

-----------------------------------------------------------------------------
(***************************************************************************)
(* Types.                                                                  *)
(***************************************************************************)
\* What is left alone keeps its type.
LEMMA KeptType ==
    ASSUME TypeOK
    PROVE  /\ UNCHANGED firmware => FirmwareOK'
           /\ UNCHANGED <<pc, callVars>> => ControlOK'
           /\ UNCHANGED pollVars => PollOK'
           /\ UNCHANGED resultVars => ResultOK'
           /\ UNCHANGED history => HistoryOK'
<1>1. UNCHANGED firmware => FirmwareOK'
  BY DEF TypeOK, FirmwareOK, firmware, builderVars, triggerVars
<1>2. UNCHANGED <<pc, callVars>> => ControlOK'
  BY DEF TypeOK, ControlOK, callVars
<1>3. UNCHANGED pollVars => PollOK'
  BY DEF TypeOK, PollOK, pollVars
<1>4. UNCHANGED resultVars => ResultOK'
  BY DEF TypeOK, ResultOK, resultVars
<1>5. UNCHANGED history => HistoryOK'
  BY DEF TypeOK, HistoryOK, history
<1>6. QED
  BY <1>1, <1>2, <1>3, <1>4, <1>5

LEMMA TypeStep == TypeOK /\ BuildInv /\ [Next]_vars => TypeOK'
<1> SUFFICES ASSUME TypeOK, BuildInv, Next \/ UNCHANGED vars PROVE TypeOK'
  OBVIOUS
<1>t. /\ FirmwareOK /\ ControlOK /\ PollOK /\ ResultOK /\ HistoryOK
      /\ UNCHANGED firmware => FirmwareOK'
      /\ UNCHANGED <<pc, callVars>> => ControlOK'
      /\ UNCHANGED pollVars => PollOK'
      /\ UNCHANGED resultVars => ResultOK'
      /\ UNCHANGED history => HistoryOK'
  BY KeptType DEF TypeOK
<1>a. /\ Len(fifo) \in Nat /\ <<>> \in Seq(Word) /\ EventSize \in Nat
      /\ EventSize > 1 /\ NEvents \subseteq Nat
  BY <1>t, ReadoutAssumption, LenProperties, EmptySeq DEF FirmwareOK
<1>b. \A k \in Nat : ReadBlock(k) \in Seq(Word) /\ FifoAfter(k) \in Seq(Word)
  BY <1>t, BlockParts DEF FirmwareOK
<1>c. Len(fifo) \div EventSize \in Nat
  BY <1>a, DivNat
<1>1. CASE Trigger
  <2>b. fsm' \in BOOLEAN
    BY <1>1, Zenon DEF Trigger, AcceptTrigger
  <2>1. /\ UNCHANGED pollVars /\ UNCHANGED resultVars
        /\ UNCHANGED history
    BY <1>1 DEF Trigger, AcceptTrigger
  <2>2. FirmwareOK'
    BY <1>1, <1>t, <1>a, <2>b DEF Trigger, AcceptTrigger, FirmwareOK
  <2>3. ControlOK'
    BY <1>1, <1>t, <1>a DEF Trigger, AcceptTrigger, ControlOK, callVars
  <2>4. QED
    BY <1>t, <2>1, <2>2, <2>3 DEF TypeOK
<1>2. CASE LoseTrigger
  <2>b. fsm' \in BOOLEAN
    BY <1>2, Zenon DEF LoseTrigger, AcceptTrigger
  <2>1. /\ UNCHANGED pollVars /\ UNCHANGED resultVars
        /\ UNCHANGED history
    BY <1>2 DEF LoseTrigger, AcceptTrigger
  <2>2. FirmwareOK'
    BY <1>2, <1>t, <1>a, <2>b
       DEF LoseTrigger, AcceptTrigger, FirmwareOK, builderVars
  <2>3. ControlOK'
    BY <1>2, <1>t, <1>a DEF LoseTrigger, AcceptTrigger, ControlOK, callVars
  <2>4. QED
    BY <1>t, <2>1, <2>2, <2>3 DEF TypeOK
<1>3. CASE Build
  <2> DEFINE k == IF board.streamed THEN 1 ELSE EventSize
             added == [i \in 1 .. k |->
                         [ev |-> nextEvent, ix |-> built + i - 1]]
  <2>c. k \in Nat /\ built + k \in 1 .. EventSize
    BY <1>t, <1>a DEF FirmwareOK, BuildInv
  <2>d. added \in Seq(Word)
    <3>1. \A i \in 1 .. k : [ev |-> nextEvent, ix |-> built + i - 1] \in Word
      BY <1>t, <1>a, <2>c DEF FirmwareOK, Word
    <3> HIDE DEF k
    <3>2. QED
      BY <2>c, <3>1
  <2>e. fifo' \in Seq(Word)
    <3>1. fifo' = fifo \o added
      BY <1>3 DEF Build
    <3> HIDE DEF added
    <3>2. QED
      BY <1>t, <2>d, <3>1, ConcatProperties DEF FirmwareOK
  <2>f. /\ nextEvent' \in Nat \ {0} /\ built' \in 0 .. EventSize - 1
        /\ pending' \in Nat
    <3>1. /\ pending > 0
          /\ \/ /\ built + k = EventSize
                /\ nextEvent' = nextEvent + 1 /\ built' = 0
                /\ pending' = pending - 1
             \/ /\ built + k # EventSize
                /\ built' = built + k
                /\ nextEvent' = nextEvent /\ pending' = pending
      BY <1>3 DEF Build
    <3> HIDE DEF k
    <3>2. QED
      BY <1>t, <1>a, <2>c, <3>1 DEF FirmwareOK
  <2> HIDE DEF k, added
  <2>1. /\ UNCHANGED pollVars /\ UNCHANGED resultVars
        /\ UNCHANGED history
    BY <1>3 DEF Build
  <2>2. FirmwareOK'
    BY <1>3, <1>t, <1>a, <2>e, <2>f DEF Build, FirmwareOK, triggerVars
  <2>3. ControlOK'
    BY <1>3, <1>t, <1>a DEF Build, ControlOK, callVars
  <2>4. QED
    BY <1>t, <2>1, <2>2, <2>3 DEF TypeOK
<1>4. CASE CallStart
  <2>c. PICK op \in Starts : Enter(op, 0, TRUE, "reset")
    BY <1>4 DEF CallStart
  <2>d. call' \in CallType
    BY <2>c DEF Enter, Call, CallType
  <2>e. pc' = "reset" /\ calls' \in Nat
    BY <1>t, <2>c DEF Enter, ControlOK
  <2>1. /\ UNCHANGED firmware /\ UNCHANGED pollVars
        /\ UNCHANGED resultVars /\ UNCHANGED history
    BY <1>4 DEF CallStart
  <2>2. ControlOK'
    BY <1>4, <1>t, <1>a, <2>d, <2>e DEF CallStart, ControlOK
  <2>3. QED
    BY <1>t, <2>1, <2>2 DEF TypeOK
<1>5. CASE CallStop
  <2>c. PICK op \in Stops : Enter(op, 0, TRUE, "idle")
    BY <1>5 DEF CallStop
  <2>d. call' \in CallType
    BY <2>c DEF Enter, Call, CallType
  <2>e. pc' = "idle" /\ calls' \in Nat
    BY <1>t, <2>c DEF Enter, ControlOK
  <2>1. /\ UNCHANGED pollVars /\ UNCHANGED resultVars
        /\ UNCHANGED history
    BY <1>5 DEF CallStop
  <2>2. FirmwareOK'
    BY <1>5, <1>t, <1>a DEF CallStop, FirmwareOK, StopTrigger, builderVars
  <2>3. ControlOK'
    BY <1>5, <1>t, <1>a, <2>d, <2>e DEF CallStop, ControlOK
  <2>4. QED
    BY <1>t, <2>1, <2>2, <2>3 DEF TypeOK
<1>6. CASE CallReadNEvents
  <2>c. PICK n \in NEvents : Enter("ReadNEvents", n, TRUE, "configure")
    BY <1>6 DEF CallReadNEvents
  <2>d. call' \in CallType
    BY <1>a, <2>c DEF Enter, Call, CallType, Reads
  <2>e. pc' = "configure" /\ calls' \in Nat
    BY <1>t, <2>c DEF Enter, ControlOK
  <2>1. /\ UNCHANGED firmware /\ UNCHANGED pollVars
        /\ UNCHANGED history
    BY <1>6 DEF CallReadNEvents
  <2>2. ControlOK'
    BY <1>6, <1>t, <1>a, <2>d, <2>e DEF CallReadNEvents, ControlOK
  <2>3. ResultOK'
    BY <1>6, <1>t, <1>a DEF CallReadNEvents, ResultOK
  <2>4. QED
    BY <1>t, <2>1, <2>2, <2>3 DEF TypeOK
<1>7. CASE CallReadData
  <2>c. PICK w \in BOOLEAN : Enter("ReadData", 0, w, "words")
    BY <1>7 DEF CallReadData
  <2>d. call' \in CallType
    BY <2>c DEF Enter, Call, CallType, Reads
  <2>e. pc' = "words" /\ calls' \in Nat
    BY <1>t, <2>c DEF Enter, ControlOK
  <2>1. /\ UNCHANGED firmware /\ UNCHANGED pollVars
        /\ UNCHANGED history
    BY <1>7 DEF CallReadData
  <2>2. ControlOK'
    BY <1>7, <1>t, <1>a, <2>d, <2>e DEF CallReadData, ControlOK
  <2>3. ResultOK'
    BY <1>7, <1>t, <1>a DEF CallReadData, ResultOK
  <2>4. QED
    BY <1>t, <2>1, <2>2, <2>3 DEF TypeOK
<1>8. CASE ResetReadout
  <2>1. /\ UNCHANGED pollVars /\ UNCHANGED resultVars
        /\ UNCHANGED history
    BY <1>8 DEF ResetReadout, ClearReadout
  <2>2. FirmwareOK'
    BY <1>8, <1>t, <1>a
       DEF ResetReadout, ClearReadout, FirmwareOK, triggerVars
  <2>3. ControlOK'
    BY <1>8, <1>t, <1>a DEF ResetReadout, ClearReadout, ControlOK, callVars
  <2>4. QED
    BY <1>t, <2>1, <2>2, <2>3 DEF TypeOK
<1>9. CASE StartTrigger
  <2>1. /\ UNCHANGED resultVars /\ UNCHANGED history
    BY <1>9 DEF StartTrigger
  <2>2. FirmwareOK'
    BY <1>9, <1>t, <1>a DEF StartTrigger, FirmwareOK, builderVars
  <2>3. ControlOK'
    BY <1>9, <1>t, <1>a DEF StartTrigger, ControlOK, callVars
  <2>4. PollOK'
    BY <1>9, <1>t, <1>a DEF StartTrigger, PollOK
  <2>5. QED
    BY <1>t, <2>1, <2>2, <2>3, <2>4 DEF TypeOK
<1>10. CASE Configure
  <2>c. call.n \in Nat
    BY <1>t DEF ControlOK, CallType
  <2>1. /\ UNCHANGED pollVars /\ UNCHANGED resultVars
        /\ UNCHANGED history
    BY <1>10 DEF Configure
  <2>2. FirmwareOK'
    BY <1>10, <1>t, <1>a, <2>c
       DEF Configure, FirmwareOK, builderVars, triggerVars
  <2>3. ControlOK'
    BY <1>10, <1>t, <1>a DEF Configure, ControlOK, callVars
  <2>4. QED
    BY <1>t, <2>1, <2>2, <2>3 DEF TypeOK
<1>11. CASE NextEvent
  <2>1. /\ UNCHANGED firmware /\ UNCHANGED resultVars
        /\ UNCHANGED history
    BY <1>11 DEF NextEvent
  <2>2. ControlOK'
    BY <1>11, <1>t, <1>a DEF NextEvent, ControlOK, callVars
  <2>3. PollOK'
    BY <1>11, <1>t, <1>a DEF NextEvent, PollOK
  <2>4. QED
    BY <1>t, <2>1, <2>2, <2>3 DEF TypeOK
<1>12. CASE PollWords
  <2>1. /\ UNCHANGED firmware /\ UNCHANGED resultVars
        /\ UNCHANGED history
    BY <1>12 DEF PollWords
  <2>2. ControlOK'
    BY <1>12, <1>t, <1>a DEF PollWords, ControlOK, callVars
  <2>3. PollOK'
    BY <1>12, <1>t, <1>a DEF PollWords, PollOK
  <2>4. QED
    BY <1>t, <2>1, <2>2, <2>3 DEF TypeOK
<1>13. CASE CheckFsm
  <2>1. /\ UNCHANGED firmware /\ UNCHANGED resultVars
        /\ UNCHANGED history
    BY <1>13 DEF CheckFsm
  <2>2. ControlOK'
    BY <1>13, <1>t, <1>a DEF CheckFsm, ControlOK, callVars
  <2>3. PollOK'
    BY <1>13, <1>t, <1>a DEF CheckFsm, PollOK
  <2>4. QED
    BY <1>t, <2>1, <2>2, <2>3 DEF TypeOK
<1>14. CASE ReadHeader
  <2>c. header1' \in Word
    <3>1. ReadBlock(1) \in Seq(Word) /\ 1 \in 1 .. Len(ReadBlock(1))
      BY <1>t, BlockParts DEF FirmwareOK
    <3>2. ReadBlock(1)[1] \in Word
      BY <3>1, ElementOfSeq
    <3>3. QED
      BY <1>14, <3>2 DEF ReadHeader
  <2>d. cEventSize' \in 0 .. EventSize
    BY <1>14, <1>a DEF ReadHeader, SizeField
  <2>1. /\ UNCHANGED resultVars /\ UNCHANGED history
    BY <1>14 DEF ReadHeader
  <2>2. FirmwareOK'
    BY <1>14, <1>t, <1>a, <1>b DEF ReadHeader, FirmwareOK, triggerVars
  <2>3. ControlOK'
    BY <1>14, <1>t, <1>a DEF ReadHeader, ControlOK, callVars
  <2>4. PollOK'
    BY <1>14, <1>t, <1>a, <2>c, <2>d DEF ReadHeader, PollOK
  <2>5. QED
    BY <1>t, <2>1, <2>2, <2>3, <2>4 DEF TypeOK
<1>15. CASE WaitRest
  <2>1. /\ UNCHANGED firmware /\ UNCHANGED resultVars
        /\ UNCHANGED history
    BY <1>15 DEF WaitRest
  <2>2. ControlOK'
    BY <1>15, <1>t, <1>a DEF WaitRest, ControlOK, callVars
  <2>3. PollOK'
    BY <1>15, <1>t, <1>a DEF WaitRest, PollOK
  <2>4. QED
    BY <1>t, <2>1, <2>2, <2>3 DEF TypeOK
<1>16. CASE ReadRest
  <2>c. cEventSize - 1 \in Nat
    BY <1>16, <1>t, <1>a DEF ReadRest, RestPresent, PollOK
  <2>d. <<header1>> \in Seq(Word)
    BY <1>t, OneOrder DEF PollOK
  <2>e. /\ (pData \o <<header1>>) \o ReadBlock(cEventSize - 1) \in Seq(Word)
        /\ FifoAfter(cEventSize - 1) \in Seq(Word)
    BY <1>t, <1>b, <2>c, <2>d, ConcatProperties DEF ResultOK
  <2>1. UNCHANGED history
    BY <1>16 DEF ReadRest
  <2>2. FirmwareOK'
    BY <1>16, <1>t, <1>a, <2>e DEF ReadRest, FirmwareOK, triggerVars
  <2>3. ControlOK'
    BY <1>16, <1>t, <1>a DEF ReadRest, ControlOK, callVars
  <2>4. PollOK'
    BY <1>16, <1>t, <1>a DEF ReadRest, PollOK
  <2>5. ResultOK'
    BY <1>16, <1>t, <1>a, <2>e DEF ReadRest, ResultOK
  <2>6. QED
    BY <1>t, <2>1, <2>2, <2>3, <2>4, <2>5 DEF TypeOK
<1>17. CASE Fail
  <2>1. /\ UNCHANGED pollVars /\ UNCHANGED history
    BY <1>17 DEF Fail, StopTrigger
  <2>2. FirmwareOK'
    BY <1>17, <1>t, <1>a DEF Fail, StopTrigger, FirmwareOK, builderVars
  <2>3. ControlOK'
    BY <1>17, <1>t, <1>a DEF Fail, StopTrigger, ControlOK, callVars
  <2>4. ResultOK'
    BY <1>17, <1>t, <1>a DEF Fail, StopTrigger, ResultOK
  <2>5. QED
    BY <1>t, <2>1, <2>2, <2>3, <2>4 DEF TypeOK
<1>18. CASE Retry
  <2>1. /\ UNCHANGED pollVars /\ UNCHANGED history
    BY <1>18 DEF Retry, ClearReadout
  <2>2. FirmwareOK'
    BY <1>18, <1>t, <1>a DEF Retry, ClearReadout, FirmwareOK, triggerVars
  <2>3. ControlOK'
    BY <1>18, <1>t, <1>a DEF Retry, ClearReadout, ControlOK, callVars
  <2>4. ResultOK'
    BY <1>18, <1>t, <1>a DEF Retry, ClearReadout, ResultOK
  <2>5. QED
    BY <1>t, <2>1, <2>2, <2>3, <2>4 DEF TypeOK
<1>19. CASE Save
  <2>c. log \o pData \in Seq(Word) /\ returned \o pData \in Seq(Word)
    BY <1>t, ConcatProperties DEF ResultOK, HistoryOK
  <2>d. Count \in Nat
    BY <1>t DEF Count, ControlOK, ResultOK, CallType
  <2>e. [call |-> call, count |-> Count, data |-> pData] \in Result
    BY <1>t, <2>d DEF ControlOK, ResultOK, Result
  <2>1. /\ UNCHANGED firmware /\ UNCHANGED pollVars
    BY <1>19 DEF Save
  <2>2. ControlOK'
    BY <1>19, <1>t, <1>a DEF Save, ControlOK, callVars
  <2>3. ResultOK'
    BY <1>19, <1>t, <1>a DEF Save, ResultOK
  <2>4. HistoryOK'
    BY <1>19, <1>t, <1>a, <2>c, <2>e DEF Save, HistoryOK
  <2>5. QED
    BY <1>t, <2>1, <2>2, <2>3, <2>4 DEF TypeOK
<1>20. CASE WordsPresent
  <2>1. /\ UNCHANGED firmware /\ UNCHANGED pollVars
        /\ UNCHANGED resultVars /\ UNCHANGED history
    BY <1>20 DEF WordsPresent
  <2>2. ControlOK'
    BY <1>20, <1>t, <1>a DEF WordsPresent, ControlOK, callVars
  <2>3. QED
    BY <1>t, <2>1, <2>2 DEF TypeOK
<1>21. CASE NothingYet
  <2>c. [call |-> call, count |-> 0, data |-> pData] \in Result
    BY <1>t DEF ControlOK, ResultOK, Result
  <2>1. /\ UNCHANGED firmware /\ UNCHANGED pollVars
    BY <1>21 DEF NothingYet, ReturnZero
  <2>2. ControlOK'
    BY <1>21, <1>t, <1>a DEF NothingYet, ReturnZero, ControlOK, callVars
  <2>3. ResultOK'
    BY <1>21, <1>t, <1>a DEF NothingYet, ReturnZero, ResultOK
  <2>4. HistoryOK'
    BY <1>21, <1>t, <1>a, <2>c DEF NothingYet, ReturnZero, HistoryOK
  <2>5. QED
    BY <1>t, <2>1, <2>2, <2>3, <2>4 DEF TypeOK
<1>22. CASE PackageRequested
  <2>1. /\ UNCHANGED firmware /\ UNCHANGED pollVars
        /\ UNCHANGED resultVars /\ UNCHANGED history
    BY <1>22 DEF PackageRequested
  <2>2. ControlOK'
    BY <1>22, <1>t, <1>a DEF PackageRequested, ControlOK, callVars
  <2>3. QED
    BY <1>t, <2>1, <2>2 DEF TypeOK
<1>23. CASE CountPackage
  <2>b. pFailed' \in BOOLEAN
    BY <1>23, Zenon DEF CountPackage
  <2>c. config.packetNbr + 1 \in Nat
    BY <1>t DEF FirmwareOK
  <2>1. /\ UNCHANGED firmware /\ UNCHANGED history
    BY <1>23 DEF CountPackage
  <2>2. ControlOK'
    BY <1>23, <1>t, <1>a DEF CountPackage, ControlOK, callVars
  <2>3. PollOK'
    BY <1>23, <1>t, <1>a DEF CountPackage, PollOK
  <2>4. ResultOK'
    BY <1>23, <1>t, <1>a, <1>c, <2>b, <2>c DEF CountPackage, ResultOK
  <2>5. QED
    BY <1>t, <2>1, <2>2, <2>3, <2>4 DEF TypeOK
<1>24. CASE ReadPackage
  <2>c. ReadBlock(cNWords) \in Seq(Word) /\ FifoAfter(cNWords) \in Seq(Word)
    BY <1>t, <1>b DEF PollOK
  <2>1. /\ UNCHANGED pollVars /\ UNCHANGED history
    BY <1>24 DEF ReadPackage
  <2>2. FirmwareOK'
    BY <1>24, <1>t, <1>a, <2>c DEF ReadPackage, FirmwareOK, triggerVars
  <2>3. ControlOK'
    BY <1>24, <1>t, <1>a DEF ReadPackage, ControlOK, callVars
  <2>4. ResultOK'
    BY <1>24, <1>t, <1>a, <2>c DEF ReadPackage, ResultOK
  <2>5. QED
    BY <1>t, <2>1, <2>2, <2>3, <2>4 DEF TypeOK
<1>25. CASE CountAvailable
  <2>1. /\ UNCHANGED firmware /\ UNCHANGED pollVars
        /\ UNCHANGED history
    BY <1>25 DEF CountAvailable
  <2>2. ControlOK'
    BY <1>25, <1>t, <1>a DEF CountAvailable, ControlOK, callVars
  <2>3. ResultOK'
    BY <1>25, <1>t, <1>a, <1>c DEF CountAvailable, ResultOK
  <2>4. QED
    BY <1>t, <2>1, <2>2, <2>3 DEF TypeOK
<1>26. CASE ReadAvailable
  <2>c. cNEvents * EventSize \in Nat
    BY <1>t, <1>a, MulNat DEF ResultOK
  <2> DEFINE k == cNEvents * EventSize
  <2>d. pData' = pData \o ReadBlock(k) /\ fifo' = FifoAfter(k)
    BY <1>26 DEF ReadAvailable
  <2>e. k \in Nat
    BY <2>c
  <2> HIDE DEF k
  <2>f. pData' \in Seq(Word) /\ fifo' \in Seq(Word)
    BY <1>t, <1>b, <2>d, <2>e, ConcatProperties DEF ResultOK
  <2>1. /\ UNCHANGED pollVars /\ UNCHANGED history
    BY <1>26 DEF ReadAvailable
  <2>2. FirmwareOK'
    BY <1>26, <1>t, <1>a, <2>f DEF ReadAvailable, FirmwareOK, triggerVars
  <2>3. ControlOK'
    BY <1>26, <1>t, <1>a DEF ReadAvailable, ControlOK, callVars
  <2>4. ResultOK'
    BY <1>26, <1>t, <1>a, <2>f DEF ReadAvailable, ResultOK
  <2>5. QED
    BY <1>t, <2>1, <2>2, <2>3, <2>4 DEF TypeOK
<1>27. CASE ExitZS
  <2>1. /\ UNCHANGED firmware /\ UNCHANGED pollVars
        /\ UNCHANGED resultVars /\ UNCHANGED history
    BY <1>27 DEF ExitZS
  <2>2. ControlOK'
    BY <1>27, <1>t, <1>a DEF ExitZS, ControlOK, callVars
  <2>3. QED
    BY <1>t, <2>1, <2>2 DEF TypeOK
<1>28. CASE Restart
  <2>1. /\ UNCHANGED pollVars /\ UNCHANGED history
    BY <1>28 DEF Restart, StopTrigger
  <2>2. FirmwareOK'
    BY <1>28, <1>t, <1>a DEF Restart, StopTrigger, FirmwareOK, builderVars
  <2>3. ControlOK'
    BY <1>28, <1>t, <1>a DEF Restart, StopTrigger, ControlOK, callVars
  <2>b. pFailed' \in BOOLEAN
    BY <1>28, Zenon DEF Restart
  <2>4. ResultOK'
    BY <1>28, <1>t, <1>a, <2>b DEF Restart, StopTrigger, ResultOK
  <2>5. QED
    BY <1>t, <2>1, <2>2, <2>3, <2>4 DEF TypeOK
<1>29. CASE UNCHANGED vars
  BY <1>29, <1>t DEF vars, TypeOK
<1>30. QED
  BY <1>1, <1>2, <1>3, <1>4, <1>5, <1>6, <1>7, <1>8, <1>9, <1>10, <1>11,
      <1>12, <1>13, <1>14, <1>15, <1>16, <1>17, <1>18, <1>19, <1>20, <1>21,
      <1>22, <1>23, <1>24, <1>25, <1>26, <1>27, <1>28, <1>29
     DEF Next, Firmware, Calls, CallStep, RunStart, ReadNEventsStep,
         ReadDataStep

-----------------------------------------------------------------------------
(***************************************************************************)
(* The call under way and the builder.                                     *)
(***************************************************************************)
LEMMA CallInvStep == CallInv /\ [Next]_vars => CallInv'
<1> SUFFICES ASSUME CallInv, Next \/ UNCHANGED vars PROVE CallInv'
  OBVIOUS
<1> USE DEF CallInv, Reads, Starts
<1>1. CASE Firmware \/ UNCHANGED vars
  BY <1>1 DEF Firmware, Trigger, LoseTrigger, Build, vars, callVars
<1>2. CASE CallStart
  BY <1>2 DEF CallStart, Enter, Call
<1>3. CASE CallStop
  BY <1>3 DEF CallStop, Enter
<1>4. CASE CallReadNEvents
  BY <1>4 DEF CallReadNEvents, Enter, Call
<1>5. CASE CallReadData
  BY <1>5 DEF CallReadData, Enter, Call
<1>6. CASE RunStart
  BY <1>6 DEF RunStart, ResetReadout, StartTrigger, callVars
<1>7. CASE ReadNEventsStep
  BY <1>7 DEF ReadNEventsStep, Configure, NextEvent, PollWords, CheckFsm,
     ReadHeader, WaitRest, ReadRest, Fail, Retry, callVars
<1>8. CASE ReadDataStep
  BY <1>8 DEF ReadDataStep, WordsPresent, NothingYet, ReturnZero,
     PackageRequested, CountPackage, ReadPackage, CountAvailable,
     ReadAvailable, ExitZS, Restart, callVars
<1>9. CASE Save
  BY <1>9 DEF Save, callVars
<1>10. QED
  BY <1>1, <1>2, <1>3, <1>4, <1>5, <1>6, <1>7, <1>8, <1>9
     DEF Next, Calls, CallStep

LEMMA BuildInvStep == TypeOK /\ BuildInv /\ [Next]_vars => BuildInv'
<1> SUFFICES ASSUME TypeOK, BuildInv, Next \/ UNCHANGED vars PROVE BuildInv'
  OBVIOUS
<1> USE DEF BuildInv
<1>1. EventSize \in Nat
  BY ReadoutAssumption
<1>2. CASE Build
  BY <1>1, <1>2 DEF Build, triggerVars
<1>3. CASE Trigger \/ LoseTrigger \/ UNCHANGED vars
  BY <1>3 DEF Trigger, LoseTrigger, builderVars, vars, firmware
<1>4. CASE Calls
  BY <1>4 DEF Calls, CallStart, CallStop, CallReadNEvents, CallReadData,
     firmware, builderVars
<1>5. CASE RunStart
  BY <1>5 DEF RunStart, ResetReadout, ClearReadout, StartTrigger, builderVars
<1>6. CASE ReadNEventsStep
  BY <1>6 DEF ReadNEventsStep, Configure, NextEvent, PollWords, CheckFsm,
     ReadHeader, WaitRest, ReadRest, Fail, Retry, ClearReadout, firmware,
     builderVars
<1>7. CASE ReadDataStep
  BY <1>7 DEF ReadDataStep, WordsPresent, NothingYet, ReturnZero,
     PackageRequested, CountPackage, ReadPackage, CountAvailable,
     ReadAvailable, ExitZS, Restart, firmware, builderVars
<1>8. CASE Save
  BY <1>8 DEF Save, firmware, builderVars
<1>9. QED
  BY <1>2, <1>3, <1>4, <1>5, <1>6, <1>7, <1>8 DEF Next, Firmware, CallStep

-----------------------------------------------------------------------------
(***************************************************************************)
(* The stream.                                                             *)
(***************************************************************************)
LEMMA StreamTyped ==
    ASSUME TypeOK
    PROVE  /\ returned \in Seq(Word) /\ pData \in Seq(Word) /\ fifo \in Seq(Word)
           /\ <<>> \in Seq(Word) /\ <<header1>> \in Seq(Word)
           /\ Taken \in Seq(Word) /\ Held \in Seq(Word)
           /\ NextWord \in Word /\ NextWord # Underrun
<1>1. /\ returned \in Seq(Word) /\ pData \in Seq(Word) /\ fifo \in Seq(Word)
      /\ <<>> \in Seq(Word) /\ <<header1>> \in Seq(Word)
  BY EmptySeq, OneOrder DEF TypeOK, FirmwareOK, PollOK, ResultOK, HistoryOK
<1>2. Taken \in Seq(Word) /\ Held \in Seq(Word)
  BY <1>1 DEF Taken, Held
<1>3. NextWord \in Word /\ NextWord # Underrun
  BY DEF TypeOK, FirmwareOK, NextWord, Word, Underrun
<1>4. QED
  BY <1>1, <1>2, <1>3

\* A step that returns nothing and takes nothing, but may drop what was
\* taken, is held or waits, and may skip words of the builder.
LEMMA StreamKept ==
    ASSUME TypeOK, TypeOK', StreamInv, returned' = returned,
           fifo' \in {fifo, <<>>}, Taken' \in {Taken, <<>>}, Held' \in {Held, <<>>},
           NextWord' = NextWord \/ Before(NextWord, NextWord')
    PROVE  StreamInv'
<1>1. NextWord' \in Word
  BY DEF TypeOK, FirmwareOK, NextWord, Word
<1>2. /\ returned \in Seq(Word) /\ fifo \in Seq(Word) /\ fifo' \in Seq(Word)
      /\ Taken \in Seq(Word) /\ Held \in Seq(Word)
      /\ Taken' \in Seq(Word) /\ Held' \in Seq(Word)
      /\ NextWord \in Word /\ NextWord # Underrun
  BY StreamTyped
<1>3. InStream(returned, Taken, Held, fifo, NextWord)
  BY DEF StreamInv
<1>4. InStream(returned, Taken', Held', fifo', NextWord)
  BY <1>2, <1>3, StreamDrop
<1>5. InStream(returned, Taken', Held', fifo', NextWord')
  BY <1>1, <1>2, <1>4, StreamLater
<1>6. QED
  BY <1>5 DEF StreamInv

LEMMA StreamStep ==
    TypeOK /\ TypeOK' /\ CallInv /\ BuildInv /\ StreamInv /\ [Next]_vars
        => StreamInv'
<1> SUFFICES ASSUME TypeOK, TypeOK', CallInv, BuildInv, StreamInv,
                    Next \/ UNCHANGED vars
             PROVE  StreamInv'
  OBVIOUS
<1>t. /\ returned \in Seq(Word) /\ pData \in Seq(Word) /\ fifo \in Seq(Word)
      /\ <<>> \in Seq(Word) /\ <<header1>> \in Seq(Word)
      /\ Taken \in Seq(Word) /\ Held \in Seq(Word)
      /\ NextWord \in Word /\ NextWord # Underrun
  BY StreamTyped
<1>s. InStream(returned, Taken, Held, fifo, NextWord)
  BY DEF StreamInv
<1>n. /\ EventSize \in Nat /\ EventSize > 1 /\ nextEvent \in Nat
      /\ built \in 0 .. EventSize - 1
  BY ReadoutAssumption DEF TypeOK, FirmwareOK
<1>1. CASE Trigger \/ LoseTrigger \/ UNCHANGED vars
  <2>1. returned' = returned /\ fifo' \in {fifo, <<>>}
    BY <1>1
       DEF Trigger, LoseTrigger, vars, firmware, builderVars, callVars,
           pollVars, resultVars, history
  <2>2. Taken' \in {Taken, <<>>}
    BY <1>1
       DEF Taken, Reading, Reads, Starts, Stops, Trigger, LoseTrigger, vars,
           firmware, builderVars, callVars, pollVars, resultVars, history
  <2>3. Held' \in {Held, <<>>}
    BY <1>1
       DEF Held, Trigger, LoseTrigger, vars, firmware, builderVars, callVars,
           pollVars, resultVars, history
  <2>4. NextWord' = NextWord \/ Before(NextWord, NextWord')
    BY <1>1, <1>n
       DEF NextWord, Before, Trigger, LoseTrigger, vars, firmware,
           builderVars, callVars, pollVars, resultVars, history
  <2>5. QED
    BY <2>1, <2>2, <2>3, <2>4, StreamKept
<1>2. CASE Build
  <2> DEFINE k == IF board.streamed THEN 1 ELSE EventSize
             added == [i \in 1 .. k |->
                         [ev |-> nextEvent, ix |-> built + i - 1]]
  <2>1. k \in Nat /\ k > 0 /\ built + k \in 1 .. EventSize
    BY <1>n DEF BuildInv
  <2>2. NextWord' = [ev |-> nextEvent', ix |-> built'] /\ NextWord' \in Word
    BY DEF TypeOK, FirmwareOK, NextWord, Word
  <2>3. /\ returned' = returned /\ Taken' = Taken /\ Held' = Held
        /\ fifo' = fifo \o added
    BY <1>2 DEF Build, Taken, Held, Reading, callVars, pollVars, resultVars,
       history
  <2>4. \/ built + k = EventSize /\ nextEvent' = nextEvent + 1 /\ built' = 0
        \/ built + k < EventSize /\ nextEvent' = nextEvent /\ built' = built + k
    <3>1. \/ built + k = EventSize /\ nextEvent' = nextEvent + 1 /\ built' = 0
          \/ built + k # EventSize /\ nextEvent' = nextEvent /\ built' = built + k
      BY <1>2 DEF Build
    <3> HIDE DEF k
    <3>2. QED
      BY <1>n, <2>1, <3>1
  <2> HIDE DEF k
  <2>5. /\ added \in Seq(Word) /\ Len(added) = k
        /\ \A i \in 1 .. k : added[i] = [ev |-> nextEvent, ix |-> built + i - 1]
    <3>1. \A i \in 1 .. k : [ev |-> nextEvent, ix |-> built + i - 1] \in Word
      BY <1>n, <2>1 DEF Word, TypeOK, FirmwareOK
    <3>2. QED
      BY <2>1, <3>1
  <2> HIDE DEF added
  <2>6. \A i \in 1 .. Len(added) :
          added[i].ev = nextEvent /\ added[i].ix = built + i - 1
    BY <2>5
  <2>7. Ordered(added)
    BY <1>n, <2>1, <2>5, <2>6 DEF Ordered, Before
  <2>8. Before(NextWord, NextWord') /\ Precede(added, <<NextWord'>>)
    <3>1. Before(NextWord, NextWord')
      BY <1>n, <2>1, <2>2, <2>4 DEF NextWord, Before
    <3>2. \A i \in 1 .. Len(added) : Before(added[i], NextWord')
      BY <1>n, <2>1, <2>2, <2>4, <2>5, <2>6 DEF Before
    <3>3. QED
      BY <2>2, <3>1, <3>2, OneOrder DEF Precede
  <2>9. \A s \in Seq(Word) : Precede(s, <<NextWord>>) => Precede(s, added)
    <3> SUFFICES ASSUME NEW s \in Seq(Word), Precede(s, <<NextWord>>),
                        NEW i \in 1 .. Len(s), NEW j \in 1 .. Len(added),
                        s[i] # Underrun
                 PROVE  Before(s[i], added[j])
      BY DEF Precede
    <3>1. Before(s[i], NextWord)
      BY <1>t, OneOrder DEF Precede
    <3>2. s[i] \in Word
      BY ElementOfSeq
    <3>3. NextWord.ev = nextEvent /\ NextWord.ix = built
      BY DEF NextWord
    <3>4. s[i].ev \in Nat /\ s[i].ix \in Nat
      BY <1>n, <3>2 DEF Word, Underrun
    <3>5. QED
      BY <1>n, <2>1, <2>5, <2>6, <3>1, <3>3, <3>4 DEF Before
  <2>10. /\ Precede(returned, added) /\ Precede(Taken, added)
         /\ Precede(Held, added) /\ Precede(fifo, added)
    BY <1>t, <1>s, <2>9 DEF InStream
  <2>11. InStream(returned, Taken, Held, fifo \o added, NextWord')
    BY <1>t, <1>s, <2>2, <2>5, <2>7, <2>8, <2>10, StreamBuild
  <2>12. QED
    BY <2>3, <2>11 DEF StreamInv
<1>3. CASE Calls
  <2>1. returned' = returned /\ fifo' \in {fifo, <<>>}
    BY <1>3
       DEF Calls, CallStart, CallStop, CallReadNEvents, CallReadData, Enter,
           Call, firmware, builderVars, callVars, pollVars, resultVars, history
  <2>2. Taken' \in {Taken, <<>>}
    BY <1>3
       DEF Taken, Reading, Reads, Starts, Stops, Calls, CallStart, CallStop,
           CallReadNEvents, CallReadData, Enter, Call, firmware, builderVars,
           callVars, pollVars, resultVars, history
  <2>3. Held' \in {Held, <<>>}
    BY <1>3
       DEF Held, Calls, CallStart, CallStop, CallReadNEvents, CallReadData,
           Enter, Call, firmware, builderVars, callVars, pollVars, resultVars,
           history
  <2>4. NextWord' = NextWord \/ Before(NextWord, NextWord')
    BY <1>3, <1>n
       DEF NextWord, Before, Calls, CallStart, CallStop, CallReadNEvents,
           CallReadData, Enter, Call, firmware, builderVars, callVars, pollVars,
           resultVars, history
  <2>5. QED
    BY <2>1, <2>2, <2>3, <2>4, StreamKept
<1>4. CASE RunStart
  <2>1. returned' = returned /\ fifo' \in {fifo, <<>>}
    BY <1>4
       DEF RunStart, ResetReadout, ClearReadout, StartTrigger, firmware,
           builderVars, callVars, pollVars, resultVars, history
  <2>2. Taken' \in {Taken, <<>>}
    BY <1>4
       DEF Taken, Reading, Reads, Starts, Stops, RunStart, ResetReadout,
           ClearReadout, StartTrigger, firmware, builderVars, callVars, pollVars,
           resultVars, history
  <2>3. Held' \in {Held, <<>>}
    BY <1>4
       DEF Held, RunStart, ResetReadout, ClearReadout, StartTrigger,
           firmware, builderVars, callVars, pollVars, resultVars, history
  <2>4. NextWord' = NextWord \/ Before(NextWord, NextWord')
    BY <1>4, <1>n
       DEF NextWord, Before, RunStart, ResetReadout, ClearReadout,
           StartTrigger, firmware, builderVars, callVars, pollVars, resultVars,
           history
  <2>5. QED
    BY <2>1, <2>2, <2>3, <2>4, StreamKept
<1>5. CASE \/ Configure \/ NextEvent \/ PollWords \/ CheckFsm
          \/ WaitRest \/ Fail \/ Retry
  <2>1. returned' = returned /\ fifo' \in {fifo, <<>>}
    BY <1>5
       DEF Configure, NextEvent, PollWords, CheckFsm, WaitRest, Fail, Retry,
           ClearReadout, firmware, builderVars, callVars, pollVars, resultVars,
           history
  <2>2. Taken' \in {Taken, <<>>}
    BY <1>5
       DEF Taken, Reading, Reads, Starts, Stops, Configure, NextEvent,
           PollWords, CheckFsm, WaitRest, Fail, Retry, ClearReadout, firmware,
           builderVars, callVars, pollVars, resultVars, history
  <2>3. Held' \in {Held, <<>>}
    BY <1>5
       DEF Held, Configure, NextEvent, PollWords, CheckFsm, WaitRest, Fail,
           Retry, ClearReadout, firmware, builderVars, callVars, pollVars,
           resultVars, history
  <2>4. NextWord' = NextWord \/ Before(NextWord, NextWord')
    BY <1>5, <1>n
       DEF NextWord, Before, Configure, NextEvent, PollWords, CheckFsm,
           WaitRest, Fail, Retry, ClearReadout, firmware, builderVars, callVars,
           pollVars, resultVars, history
  <2>5. QED
    BY <2>1, <2>2, <2>3, <2>4, StreamKept
<1>6. CASE ReadHeader
  <2>1. ReadBlock(1) \in Seq(Word) /\ Len(ReadBlock(1)) = 1
    BY <1>t, BlockParts
  <2>2. ReadBlock(1) = <<ReadBlock(1)[1]>>
    BY <2>1
  <2>3. Held' = ReadBlock(1) /\ Held = <<>>
    BY <1>6, <2>2 DEF ReadHeader, Held
  <2>4. /\ returned' = returned /\ Taken' = Taken /\ fifo' = FifoAfter(1)
        /\ NextWord' = NextWord
    BY <1>6 DEF ReadHeader, Taken, Reading, NextWord, callVars, resultVars, history
  <2>5. InStream(returned, Taken, ReadBlock(1), FifoAfter(1), NextWord)
    BY <1>t, <1>s, <2>3, StreamHold
  <2>6. QED
    BY <2>3, <2>4, <2>5 DEF StreamInv
<1>7. CASE ReadRest
  <2> DEFINE k == cEventSize - 1
  <2>1. k \in Nat
    BY <1>n, <1>7 DEF ReadRest, RestPresent, TypeOK, PollOK
  <2>2. /\ Taken' = (Taken \o Held) \o ReadBlock(k) /\ fifo' = FifoAfter(k)
        /\ Held' = <<>> /\ returned' = returned /\ NextWord' = NextWord
    BY <1>7 DEF ReadRest, Taken, Held, Reading, CallInv, NextWord, callVars, history
  <2> HIDE DEF k
  <2>3. InStream(returned, (Taken \o Held) \o ReadBlock(k), <<>>, FifoAfter(k),
                 NextWord)
    BY <1>t, <1>s, <2>1, StreamTake
  <2>4. QED
    BY <2>2, <2>3 DEF StreamInv
<1>8. CASE \/ WordsPresent \/ NothingYet \/ PackageRequested
          \/ CountPackage \/ CountAvailable \/ ExitZS \/ Restart
  <2>1. returned' = returned /\ fifo' \in {fifo, <<>>}
    BY <1>8
       DEF WordsPresent, NothingYet, ReturnZero, PackageRequested,
           CountPackage, CountAvailable, ExitZS, Restart, firmware, builderVars,
           callVars, pollVars, resultVars, history
  <2>2. Taken' \in {Taken, <<>>}
    BY <1>8
       DEF Taken, Reading, Reads, Starts, Stops, WordsPresent, NothingYet,
           ReturnZero, PackageRequested, CountPackage, CountAvailable, ExitZS,
           Restart, firmware, builderVars, callVars, pollVars, resultVars,
           history
  <2>3. Held' \in {Held, <<>>}
    BY <1>8
       DEF Held, WordsPresent, NothingYet, ReturnZero, PackageRequested,
           CountPackage, CountAvailable, ExitZS, Restart, firmware, builderVars,
           callVars, pollVars, resultVars, history
  <2>4. NextWord' = NextWord \/ Before(NextWord, NextWord')
    BY <1>8, <1>n
       DEF NextWord, Before, WordsPresent, NothingYet, ReturnZero,
           PackageRequested, CountPackage, CountAvailable, ExitZS, Restart,
           firmware, builderVars, callVars, pollVars, resultVars, history
  <2>5. QED
    BY <2>1, <2>2, <2>3, <2>4, StreamKept
<1>9. CASE ReadPackage
  <2>1. cNWords \in Nat
    BY DEF TypeOK, PollOK
  <2>2. InStream(returned, <<>>, <<>>, fifo, NextWord)
    BY <1>t, <1>s, StreamDrop
  <2>3. InStream(returned, (<<>> \o <<>>) \o ReadBlock(cNWords), <<>>,
                 FifoAfter(cNWords), NextWord)
    BY <1>t, <2>1, <2>2, StreamTake
  <2>4. (<<>> \o <<>>) \o ReadBlock(cNWords) = ReadBlock(cNWords)
    BY <1>t, <2>1, BlockParts, ConcatEmptySeq
  <2>5. /\ Taken' = ReadBlock(cNWords) /\ Held' = <<>> /\ fifo' = FifoAfter(cNWords)
        /\ returned' = returned /\ NextWord' = NextWord
    BY <1>9 DEF ReadPackage, Taken, Held, Reading, CallInv, NextWord, callVars, history
  <2>6. QED
    BY <2>3, <2>4, <2>5 DEF StreamInv
<1>10. CASE ReadAvailable
  <2> DEFINE k == cNEvents * EventSize
  <2>1. k \in Nat
    BY <1>n, MulNat DEF TypeOK, ResultOK
  <2>2. /\ Taken' = Taken \o ReadBlock(k) /\ fifo' = FifoAfter(k) /\ Held = <<>>
        /\ Held' = <<>> /\ returned' = returned /\ NextWord' = NextWord
    BY <1>10 DEF ReadAvailable, Taken, Held, Reading, CallInv, NextWord, callVars, history
  <2> HIDE DEF k
  <2>3. InStream(returned, (Taken \o Held) \o ReadBlock(k), <<>>, FifoAfter(k),
                 NextWord)
    BY <1>t, <1>s, <2>1, StreamTake
  <2>4. Taken \o Held = Taken
    BY <1>t, <2>2, ConcatEmptySeq
  <2>5. QED
    BY <2>2, <2>3, <2>4 DEF StreamInv
<1>11. CASE Save
  <2>0. fifo' = fifo /\ NextWord' = NextWord /\ Held = <<>> /\ Held' = <<>>
    BY <1>11 DEF Save, Held, NextWord, firmware, builderVars
  <2>1. CASE depth > 0
    <3>1. returned' = returned /\ Taken' = Taken
      BY <1>11, <2>1 DEF Save, Taken, Reading, callVars
    <3>2. QED
      BY <1>s, <2>0, <3>1 DEF StreamInv
  <2>2. CASE ~(depth > 0)
    <3>1. returned' = returned \o Taken /\ Taken' = <<>>
      BY <1>11, <2>2 DEF Save, Taken, Reading, CallInv
    <3>2. InStream(returned \o Taken, <<>>, <<>>, fifo, NextWord)
      BY <1>t, <1>s, <2>0, StreamReturn
    <3>3. QED
      BY <2>0, <3>1, <3>2 DEF StreamInv
  <2>3. QED
    BY <2>1, <2>2
<1>12. QED
  BY <1>1, <1>2, <1>3, <1>4, <1>5, <1>6, <1>7, <1>8, <1>9, <1>10, <1>11
     DEF Next, Firmware, CallStep, ReadNEventsStep, ReadDataStep

-----------------------------------------------------------------------------
(***************************************************************************)
(* The file.                                                               *)
(***************************************************************************)
LEMMA ToSetConcat ==
    ASSUME NEW s \in Seq(Word), NEW t \in Seq(Word)
    PROVE  ToSet(s \o t) = ToSet(s) \cup ToSet(t)
<1>1. /\ s \o t \in Seq(Word) /\ Len(s) \in Nat /\ Len(t) \in Nat
      /\ Len(s \o t) = Len(s) + Len(t)
      /\ \A i \in 1 .. Len(s) + Len(t) :
           (s \o t)[i] = IF i <= Len(s) THEN s[i] ELSE t[i - Len(s)]
  BY ConcatProperties, LenProperties
<1>2. DOMAIN s = 1 .. Len(s) /\ DOMAIN t = 1 .. Len(t)
      /\ DOMAIN (s \o t) = 1 .. Len(s) + Len(t)
  BY <1>1, LenProperties
<1>3. ASSUME NEW w \in ToSet(s \o t) PROVE w \in ToSet(s) \cup ToSet(t)
  <2>1. PICK i \in 1 .. Len(s) + Len(t) : w = (s \o t)[i]
    BY <1>2, <1>3 DEF ToSet
  <2>2. CASE i <= Len(s)
    BY <1>1, <1>2, <2>1, <2>2 DEF ToSet
  <2>3. CASE ~(i <= Len(s))
    BY <1>1, <1>2, <2>1, <2>3 DEF ToSet
  <2>4. QED
    BY <2>2, <2>3
<1>4. ASSUME NEW w \in ToSet(s) PROVE w \in ToSet(s \o t)
  <2>1. PICK i \in 1 .. Len(s) : w = s[i]
    BY <1>2, <1>4 DEF ToSet
  <2>2. i \in 1 .. Len(s) + Len(t) /\ (s \o t)[i] = w
    BY <1>1, <2>1
  <2>3. QED
    BY <1>2, <2>2 DEF ToSet
<1>5. ASSUME NEW w \in ToSet(t) PROVE w \in ToSet(s \o t)
  <2>1. PICK i \in 1 .. Len(t) : w = t[i]
    BY <1>2, <1>5 DEF ToSet
  <2>2. Len(s) + i \in 1 .. Len(s) + Len(t) /\ (s \o t)[Len(s) + i] = w
    BY <1>1, <2>1
  <2>3. QED
    BY <1>2, <2>2 DEF ToSet
<1>6. QED
  BY <1>3, <1>4, <1>5

LEMMA SaveInvStep == TypeOK /\ SaveInv /\ [Next]_vars => SaveInv'
<1> SUFFICES ASSUME TypeOK, SaveInv, Next \/ UNCHANGED vars PROVE SaveInv'
  OBVIOUS
<1>1. CASE Save
  <2>1. log' = log \o pData /\ pData' = pData
    BY <1>1 DEF Save
  <2>2. ToSet(log') = ToSet(log) \cup ToSet(pData)
    BY <2>1, ToSetConcat DEF TypeOK, ResultOK, HistoryOK
  <2>3. ToSet(log) \subseteq ToSet(returned) \cup ToSet(pData)
        /\ ToSet(returned) \subseteq ToSet(log)
    BY <1>1 DEF Save, SaveInv
  <2>4. CASE depth > 0
    <3>1. returned' = returned /\ pc' = "save"
      BY <1>1, <2>4 DEF Save
    <3>2. QED
      BY <2>1, <2>2, <2>3, <3>1 DEF SaveInv
  <2>5. CASE ~(depth > 0)
    <3>1. returned' = returned \o pData
      BY <1>1, <2>5 DEF Save
    <3>2. ToSet(returned') = ToSet(returned) \cup ToSet(pData)
      BY <3>1, ToSetConcat DEF TypeOK, ResultOK, HistoryOK
    <3>3. QED
      BY <2>2, <2>3, <3>2 DEF SaveInv
  <2>6. QED
    BY <2>4, <2>5
<1>2. CASE returned' = returned /\ log' = log /\ pc # "save"
  BY <1>2 DEF SaveInv
<1>3. CASE returned' = returned /\ log' = log /\ pc' = pc /\ pData' = pData
  BY <1>3 DEF SaveInv
<1>4. CASE Firmware \/ UNCHANGED vars
  <2>1. returned' = returned /\ log' = log /\ pc' = pc /\ pData' = pData
    BY <1>4 DEF Firmware, Trigger, LoseTrigger, Build, vars, history, resultVars
  <2>2. QED
    BY <1>3, <2>1
<1>5. CASE Calls
  <2>1. returned' = returned /\ log' = log /\ pc # "save"
    BY <1>5 DEF Calls, CallStart, CallStop, CallReadNEvents, CallReadData,
       Enter, history
  <2>2. QED
    BY <1>2, <2>1
<1>6. CASE RunStart \/ ReadNEventsStep
  <2>1. returned' = returned /\ log' = log /\ pc # "save"
    BY <1>6 DEF RunStart, ResetReadout, StartTrigger, ReadNEventsStep,
       Configure, NextEvent, PollWords, CheckFsm, ReadHeader, WaitRest,
       ReadRest, Fail, Retry, history
  <2>2. QED
    BY <1>2, <2>1
<1>7. CASE ReadDataStep
  <2>1. returned' = returned /\ log' = log /\ pc # "save"
    BY <1>7 DEF ReadDataStep, WordsPresent, NothingYet, ReturnZero,
       PackageRequested, CountPackage, ReadPackage, CountAvailable,
       ReadAvailable, ExitZS, Restart, history
  <2>2. QED
    BY <1>2, <2>1
<1>8. QED
  BY <1>1, <1>4, <1>5, <1>6, <1>7 DEF Next, CallStep

-----------------------------------------------------------------------------
(***************************************************************************)
(* Theorems.                                                               *)
(***************************************************************************)
\* The conjuncts of IInv are inductive together: types, the call under way,
\* the builder, the order of the stream and the contents of the file.
THEOREM Invariance == Spec => []IInv
<1>1. Init => IInv
  BY InitInv
<1>2. IInv /\ [Next]_vars => IInv'
  <2> SUFFICES ASSUME IInv, [Next]_vars PROVE IInv'
    OBVIOUS
  <2>1. TypeOK'
    BY TypeStep DEF IInv
  <2>2. CallInv' /\ BuildInv'
    BY CallInvStep, BuildInvStep DEF IInv
  <2>3. StreamInv'
    BY <2>1, StreamStep DEF IInv
  <2>4. SaveInv'
    BY SaveInvStep DEF IInv
  <2>5. QED
    BY <2>1, <2>2, <2>3, <2>4 DEF IInv
<1>3. QED
  BY <1>1, <1>2, PTL DEF Spec

\* Every variable keeps its type: no count of words or events is negative,
\* no block is cut from outside the stream.
THEOREM TypeCorrect == Spec => []TypeOK
<1>1. IInv => TypeOK
  BY DEF IInv
<1>2. QED
  BY <1>1, Invariance, PTL

\* For any number of calls, resets, failed attempts and lost triggers, and
\* for every board, callers get each word of the stream at most once and in
\* the order in which the firmware wrote it.
THEOREM DeliveryInOrder == Spec => []OnceInOrder
<1>1. IInv => OnceInOrder
  BY DEF IInv, StreamInv, InStream, OnceInOrder
<1>2. QED
  BY <1>1, Invariance, PTL

\* Between calls the file handler was given exactly the words the callers
\* got, whatever the recursion of the failed attempts did.
THEOREM FileHoldsWhatCallersGot == Spec => []SavedIsReturned
<1>1. IInv => SavedIsReturned
  BY DEF IInv, SaveInv, SavedIsReturned
<1>2. QED
  BY <1>1, Invariance, PTL

-----------------------------------------------------------------------------

(***************************************************************************)
(* Whole events.                                                           *)
(***************************************************************************)
\* A number has one quotient and one remainder.
LEMMA OneQuotient ==
    ASSUME NEW b \in Nat, NEW q \in Nat, NEW r \in 0 .. b - 1,
           NEW p \in Nat, NEW s \in 0 .. b - 1, q * b + r = p * b + s
    PROVE  q = p /\ r = s
<1>1. ASSUME NEW x \in Nat, NEW y \in Nat, NEW u \in 0 .. b - 1, NEW v \in 0 .. b - 1,
             x * b + u = y * b + v, x < y
      PROVE  FALSE
  <2>1. PICK d \in Nat : y = x + 1 + d
    BY <1>1
  <2>2. y * b = x * b + b + d * b
    BY <2>1
  <2>3. d * b \in Nat /\ x * b \in Nat
    OBVIOUS
  <2>4. QED
    BY <1>1, <2>2, <2>3
<1>2. q = p
  BY <1>1
<1>3. QED
  BY <1>2

\* The words of events.
LEMMA Size == EventSize \in Nat /\ EventSize > 1 /\ Words(0) = 0 /\ Words(1) = EventSize
BY ReadoutAssumption DEF Words

\* Products with the size of an event are hidden behind Words: these are
\* what the proofs know of them.
LEMMA WordsOf ==
    ASSUME NEW q \in Nat
    PROVE  /\ Words(q) \in Nat /\ q <= Words(q)
           /\ Words(q + 1) = Words(q) + EventSize
BY ReadoutAssumption DEF Words

LEMMA WordsSum ==
    ASSUME NEW q \in Nat, NEW p \in Nat
    PROVE  Words(q + p) = Words(q) + Words(p)
BY ReadoutAssumption DEF Words

LEMMA WordsLess ==
    ASSUME NEW q \in Nat, NEW p \in Nat, q < p
    PROVE  Words(q) + EventSize <= Words(p)
<1>1. PICK d \in Nat : p = (q + 1) + d
  OBVIOUS
<1>2. Words(p) = (Words(q) + EventSize) + Words(d)
  BY <1>1, WordsSum, WordsOf, q + 1 \in Nat
<1>3. Words(q) \in Nat /\ Words(d) \in Nat
  BY WordsOf
<1>4. QED
  BY <1>2, <1>3, Size

\* A place in an event.
LEMMA PlaceIn ==
    ASSUME NEW r \in 0 .. EventSize - 1
    PROVE  r \in Nat /\ r < EventSize
BY Size

\* A number has one quotient and one remainder by the size of an event.
LEMMA OneQuotientOf ==
    ASSUME NEW q \in Nat, NEW r \in 0 .. EventSize - 1,
           NEW p \in Nat, NEW s \in 0 .. EventSize - 1, Words(q) + r = Words(p) + s
    PROVE  q = p /\ r = s
BY Size, OneQuotient DEF Words

\* Quotient and remainder by the size of an event.
LEMMA Divided ==
    ASSUME NEW n \in Nat
    PROVE  /\ n \div EventSize \in Nat /\ n % EventSize \in 0 .. EventSize - 1
           /\ n = Words(n \div EventSize) + (n % EventSize)
<1>1. EventSize \in Nat \ {0}
  BY ReadoutAssumption
<1>2. /\ n \div EventSize \in Nat /\ n % EventSize \in 0 .. EventSize - 1
      /\ n = EventSize * (n \div EventSize) + (n % EventSize)
  BY <1>1
<1>3. \A q \in Nat : Words(q) = EventSize * q
  BY <1>1 DEF Words
<1>4. QED
  BY <1>2, <1>3

\* The two parts of a sequence.
LEMMA Joined ==
    ASSUME NEW s \in Seq(Word), NEW t \in Seq(Word)
    PROVE  /\ s \o t \in Seq(Word) /\ Len(s) \in Nat /\ Len(t) \in Nat
           /\ Len(s \o t) = Len(s) + Len(t)
           /\ \A i \in 1 .. Len(s) : (s \o t)[i] = s[i]
           /\ \A i \in 1 .. Len(t) : (s \o t)[Len(s) + i] = t[i]
<1>1. /\ s \o t \in Seq(Word) /\ Len(s \o t) = Len(s) + Len(t)
      /\ Len(s) \in Nat /\ Len(t) \in Nat
      /\ \A i \in 1 .. Len(s) + Len(t) :
           (s \o t)[i] = IF i <= Len(s) THEN s[i] ELSE t[i - Len(s)]
  BY ConcatProperties, LenProperties
<1>2. QED
  BY <1>1

\* The quantifiers of InPlace reach every place of the sequence.
LEMMA Place ==
    ASSUME NEW s \in Seq(Word), InPlace(s), NEW q \in Nat, NEW r \in 0 .. EventSize - 1,
           Words(q) + r < Len(s)
    PROVE  /\ s[Words(q) + r + 1].ix = r
           /\ s[Words(q) + r + 1].ev = s[Words(q) + 1].ev
<1>1. Words(q) \in Nat /\ q <= Words(q) /\ r \in Nat /\ Len(s) \in Nat
  BY WordsOf, PlaceIn, LenProperties
<1>2. q \in 0 .. Len(s)
  BY <1>1
<1>3. QED
  BY <1>2 DEF InPlace

\* Whole events, in the form of the property.
LEMMA EventsWhole ==
    ASSUME NEW s \in Seq(Word), InPlace(s), NEW n, Sized(Len(s), n)
    PROVE  WholeEvents(s)
<1>0. n \in Nat /\ Len(s) \in Nat /\ Len(s) = Words(n)
  BY LenProperties DEF Sized, Words
<1>1. Len(s) % EventSize = 0
  <2>1. 0 \in 0 .. EventSize - 1 /\ Words(n) \in Nat
    BY <1>0, Size, WordsOf
  <2>2. /\ Len(s) \div EventSize \in Nat /\ Len(s) % EventSize \in 0 .. EventSize - 1
        /\ Words(n) + 0 = Words(Len(s) \div EventSize) + (Len(s) % EventSize)
    BY <1>0, <2>1, Divided
  <2>3. QED
    BY <1>0, <2>1, <2>2, OneQuotientOf
<1>2. ASSUME NEW i \in 1 .. Len(s)
      PROVE  LET place == (i - 1) % EventSize IN
             s[i].ix = place /\ s[i].ev = s[i - place].ev
  <2>1. PICK j \in Nat : i = j + 1 /\ j < Len(s) /\ i - 1 = j
    BY <1>0
  <2>2. PICK q \in Nat, r \in 0 .. EventSize - 1 : r = j % EventSize /\ j = Words(q) + r
    BY Divided
  <2>3. Words(q) \in Nat /\ r \in Nat
    BY WordsOf, PlaceIn
  <2>4. i = Words(q) + r + 1 /\ i - r = Words(q) + 1 /\ Words(q) + r < Len(s)
    BY <2>1, <2>2, <2>3
  <2>5. s[i].ix = r /\ s[i].ev = s[i - r].ev
    BY <2>4, Place
  <2>6. QED
    BY <2>1, <2>2, <2>5
<1>3. QED
  BY <1>1, <1>2 DEF WholeEvents

\* How to show that words are in place.
LEMMA ToPlace ==
    ASSUME NEW s \in Seq(Word),
           ASSUME NEW q \in Nat, NEW r \in Nat, r < EventSize, Words(q) \in Nat,
                  Words(q) + r < Len(s)
           PROVE  /\ s[Words(q) + r + 1].ix = r
                  /\ s[Words(q) + r + 1].ev = s[Words(q) + 1].ev
    PROVE  InPlace(s)
<1> SUFFICES ASSUME NEW q \in 0 .. Len(s), NEW r \in 0 .. EventSize - 1,
                    Words(q) + r < Len(s)
             PROVE  /\ s[Words(q) + r + 1].ix = r
                    /\ s[Words(q) + r + 1].ev = s[Words(q) + 1].ev
  BY DEF InPlace
<1>1. q \in Nat /\ r \in Nat /\ r < EventSize
  BY PlaceIn, LenProperties
<1>2. Words(q) \in Nat
  BY <1>1, WordsOf
<1>3. QED
  BY <1>1, <1>2

\* Words after whole events.
LEMMA AfterEvents ==
    ASSUME NEW s \in Seq(Word), NEW t \in Seq(Word), InPlace(s), InPlace(t),
           NEW n, Sized(Len(s), n)
    PROVE  InPlace(s \o t)
<1> DEFINE u == s \o t
<1>0. n \in Nat /\ Len(s) = Words(n)
  BY DEF Sized, Words
<1>1. /\ u \in Seq(Word) /\ Len(s) \in Nat /\ Len(t) \in Nat /\ Len(u) = Len(s) + Len(t)
      /\ \A i \in 1 .. Len(s) : u[i] = s[i]
      /\ \A i \in 1 .. Len(t) : u[Len(s) + i] = t[i]
  BY Joined
<1> HIDE DEF u
<1>2. ASSUME NEW q \in Nat, NEW r \in Nat, r < EventSize, Words(q) \in Nat,
             Words(q) + r < Len(u)
      PROVE  u[Words(q) + r + 1].ix = r /\ u[Words(q) + r + 1].ev = u[Words(q) + 1].ev
  <2>0. r \in 0 .. EventSize - 1
    BY <1>2, Size
  <2>1. CASE q < n
    <3>1. Words(q) + EventSize <= Words(n)
      BY <1>0, <2>1, WordsLess
    <3>2. /\ Words(q) + r < Len(s) /\ Words(q) + r + 1 \in 1 .. Len(s)
          /\ Words(q) + 1 \in 1 .. Len(s)
      BY <1>0, <1>1, <1>2, <3>1, Size
    <3>3. QED
      BY <1>1, <2>0, <3>2, Place
  <2>2. CASE ~(q < n)
    <3>1. PICK p \in Nat : q = n + p
      BY <1>0, <2>2
    <3>2. Words(q) = Len(s) + Words(p) /\ Words(p) \in Nat
      BY <1>0, <3>1, WordsSum, WordsOf
    <3>3. /\ Words(p) + r < Len(t) /\ Words(p) + r + 1 \in 1 .. Len(t)
          /\ Words(p) + 1 \in 1 .. Len(t)
          /\ Words(q) + r + 1 = Len(s) + (Words(p) + r + 1)
          /\ Words(q) + 1 = Len(s) + (Words(p) + 1)
      BY <1>1, <1>2, <3>2
    <3>4. /\ u[Words(q) + r + 1] = t[Words(p) + r + 1]
          /\ u[Words(q) + 1] = t[Words(p) + 1]
      BY <1>1, <3>3
    <3>5. QED
      BY <2>0, <3>3, <3>4, Place
  <2>3. QED
    BY <2>1, <2>2
<1>3. InPlace(u)
  BY <1>1, <1>2, ToPlace
<1>4. QED
  BY <1>3 DEF u

\* The builder goes on with one word.
LEMMA OneWord ==
    ASSUME NEW s \in Seq(Word), NEW ev \in Nat, NEW place \in 0 .. EventSize - 1,
           Continues(s, ev, place),
           NEW a \in Seq(Word), Len(a) = 1, a[1].ev = ev, a[1].ix = place
    PROVE  /\ place + 1 < EventSize => Continues(s \o a, ev, place + 1)
           /\ place + 1 = EventSize => \A other \in Nat : Continues(s \o a, other, 0)
<1> DEFINE u == s \o a
<1>0. /\ u \in Seq(Word) /\ Len(s) \in Nat /\ Len(u) = Len(s) + 1
      /\ \A i \in 1 .. Len(s) : u[i] = s[i]
      /\ u[Len(s) + 1] = a[1]
  <2>1. /\ u \in Seq(Word) /\ Len(s) \in Nat /\ Len(u) = Len(s) + Len(a)
        /\ \A i \in 1 .. Len(s) : u[i] = s[i]
        /\ \A i \in 1 .. Len(a) : u[Len(s) + i] = a[i]
    BY Joined
  <2>2. QED
    BY <2>1
<1> HIDE DEF u
<1>1. PICK n \in 0 .. Len(s) :
         /\ Len(s) = Words(n) + place
         /\ \A r \in 0 .. place - 1 : s[Words(n) + r + 1].ev = ev
  BY DEF Continues
<1>2. n \in Nat /\ place \in Nat /\ place < EventSize /\ InPlace(s)
  BY <1>0, <1>1, PlaceIn DEF Continues
<1>3. Words(n) \in Nat /\ n <= Words(n) /\ Words(n + 1) = Words(n) + EventSize
  BY <1>2, WordsOf
<1>4. ASSUME NEW r \in Nat, r <= place
      PROVE  u[Words(n) + r + 1].ev = ev /\ u[Words(n) + r + 1].ix = r
  <2>1. CASE r = place
    BY <1>0, <1>1, <2>1
  <2>2. CASE r # place
    <3>1. /\ r \in 0 .. place - 1 /\ r \in 0 .. EventSize - 1 /\ Words(n) + r < Len(s)
          /\ Words(n) + r + 1 \in 1 .. Len(s)
      BY <1>0, <1>1, <1>2, <1>3, <1>4, <2>2, Size
    <3>2. s[Words(n) + r + 1].ix = r
      BY <1>2, <3>1, Place
    <3>3. QED
      BY <1>0, <1>1, <3>1, <3>2
  <2>3. QED
    BY <2>1, <2>2
<1>5. ASSUME NEW q \in Nat, NEW r \in Nat, r < EventSize, Words(q) \in Nat,
             Words(q) + r < Len(u)
      PROVE  u[Words(q) + r + 1].ix = r /\ u[Words(q) + r + 1].ev = u[Words(q) + 1].ev
  <2>0. r \in 0 .. EventSize - 1
    BY <1>5, Size
  <2>1. CASE Words(q) + r < Len(s)
    <3>1. Words(q) + r + 1 \in 1 .. Len(s) /\ Words(q) + 1 \in 1 .. Len(s)
      BY <1>0, <1>5, <2>1
    <3>2. QED
      BY <1>0, <1>2, <2>0, <2>1, <3>1, Place
  <2>2. CASE ~(Words(q) + r < Len(s))
    <3>1. Words(q) + r = Words(n) + place
      BY <1>0, <1>1, <1>2, <1>3, <1>5, <2>2
    <3>2. q = n /\ r = place
      BY <1>2, <2>0, <3>1, OneQuotientOf
    <3>3. u[Words(n) + place + 1].ev = ev /\ u[Words(n) + place + 1].ix = place
      BY <1>2, <1>4
    <3>4. Words(n) + 0 + 1 = Words(n) + 1
      BY <1>3
    <3>5. u[Words(n) + 1].ev = ev
      BY <1>2, <1>4, <3>4
    <3>6. QED
      BY <3>2, <3>3, <3>5
  <2>3. QED
    BY <2>1, <2>2
<1>6. InPlace(u)
  BY <1>0, <1>5, ToPlace
<1>7. ASSUME place + 1 < EventSize PROVE Continues(u, ev, place + 1)
  <2>1. n \in 0 .. Len(u) /\ Len(u) = Words(n) + (place + 1)
    BY <1>0, <1>1, <1>2, <1>3
  <2>2. \A r \in 0 .. (place + 1) - 1 : r \in Nat /\ r <= place
    BY <1>2
  <2>3. \A r \in 0 .. (place + 1) - 1 : u[Words(n) + r + 1].ev = ev
    BY <1>4, <2>2
  <2>4. QED
    BY <1>6, <2>1, <2>3 DEF Continues
<1>8. ASSUME place + 1 = EventSize, NEW other \in Nat PROVE Continues(u, other, 0)
  <2>1. Len(u) = Words(n + 1) + 0 /\ n + 1 \in 0 .. Len(u)
    BY <1>0, <1>1, <1>2, <1>3, <1>8
  <2>2. \A r \in 0 .. 0 - 1 : FALSE
    OBVIOUS
  <2>3. QED
    BY <1>6, <2>1, <2>2 DEF Continues
<1>9. QED
  BY <1>7, <1>8 DEF u

\* The builder goes on with a whole event.
LEMMA OneEvent ==
    ASSUME NEW s \in Seq(Word), NEW ev, Continues(s, ev, 0),
           NEW a \in Seq(Word), Len(a) = EventSize, NEW v,
           \A i \in 1 .. EventSize : a[i].ev = v /\ a[i].ix = i - 1
    PROVE  \A other \in Nat : Continues(s \o a, other, 0)
<1>0. s \o a \in Seq(Word) /\ Len(s) \in Nat /\ Len(s \o a) = Len(s) + EventSize
  BY Joined
<1>1. PICK n \in 0 .. Len(s) : Len(s) = Words(n) + 0
  BY DEF Continues
<1>2. /\ n \in Nat /\ Words(n) \in Nat /\ n <= Words(n)
      /\ Words(n + 1) = Words(n) + EventSize
  BY <1>0, <1>1, WordsOf
<1>3. InPlace(a)
  <2>1. ASSUME NEW q \in Nat, NEW r \in Nat, r < EventSize, Words(q) \in Nat,
               Words(q) + r < EventSize
        PROVE  /\ a[Words(q) + r + 1].ix = r
               /\ a[Words(q) + r + 1].ev = a[Words(q) + 1].ev
    <3>1. ~(0 < q)
      BY <2>1, Size, WordsLess
    <3>2. q = 0 /\ Words(q) = 0
      BY <3>1, Size
    <3>3. Words(q) + r + 1 = r + 1 /\ r + 1 \in 1 .. EventSize /\ 1 \in 1 .. EventSize
          /\ Words(q) + 1 = 1
      BY <2>1, <3>2, Size
    <3>4. QED
      BY <3>3
  <2>2. QED
    BY <2>1, ToPlace
<1>4. InPlace(s \o a)
  BY <1>1, <1>2, <1>3, AfterEvents DEF Continues, Sized, Words
<1>5. Len(s \o a) = Words(n + 1) + 0 /\ n + 1 \in 0 .. Len(s \o a)
  BY <1>0, <1>1, <1>2, Size
<1>6. \A r \in 0 .. 0 - 1 : FALSE
  OBVIOUS
<1>7. QED
  BY <1>4, <1>5, <1>6 DEF Continues

\* Whole events taken from the head of what continues leave what continues.
LEMMA EventsTaken ==
    ASSUME NEW v \in Seq(Word), NEW ev, NEW place \in 0 .. EventSize - 1,
           Continues(v, ev, place),
           NEW a \in Seq(Word), NEW b \in Seq(Word), NEW n, Sized(Len(a), n),
           Len(v) = Len(a) + Len(b),
           \A i \in 1 .. Len(a) : a[i] = v[i],
           \A i \in 1 .. Len(b) : b[i] = v[Len(a) + i]
    PROVE  InPlace(a) /\ Continues(b, ev, place)
<1>0. n \in Nat /\ Len(a) = Words(n) /\ Len(a) \in Nat /\ Len(b) \in Nat
      /\ Len(v) \in Nat /\ InPlace(v) /\ place \in Nat /\ place < EventSize
  BY LenProperties, PlaceIn DEF Sized, Continues, Words
<1>1. PICK m \in 0 .. Len(v) :
         /\ Len(v) = Words(m) + place
         /\ \A r \in 0 .. place - 1 : v[Words(m) + r + 1].ev = ev
  BY DEF Continues
<1>2. m \in Nat /\ Words(m) \in Nat
  BY <1>0, <1>1, WordsOf
<1>3. PICK k \in Nat : m = n + k
  <2>1. ASSUME m < n PROVE FALSE
    <3>1. Words(m) + EventSize <= Words(n)
      BY <1>0, <1>2, <2>1, WordsLess
    <3>2. QED
      BY <1>0, <1>1, <1>2, <3>1, Size
  <2>2. QED
    BY <1>0, <1>2, <2>1
<1>4. /\ Words(m) = Len(a) + Words(k) /\ Words(k) \in Nat /\ k <= Words(k)
  <2>1. Words(m) = Words(n) + Words(k)
    BY <1>0, <1>3, WordsSum
  <2>2. Words(k) \in Nat /\ k <= Words(k)
    BY WordsOf
  <2>3. QED
    BY <1>0, <2>1, <2>2
<1>5. Len(b) = Words(k) + place
  BY <1>0, <1>1, <1>4
<1>6. InPlace(a)
  <2>1. ASSUME NEW q \in Nat, NEW r \in Nat, r < EventSize, Words(q) \in Nat,
               Words(q) + r < Len(a)
        PROVE  /\ a[Words(q) + r + 1].ix = r
               /\ a[Words(q) + r + 1].ev = a[Words(q) + 1].ev
    <3>1. /\ r \in 0 .. EventSize - 1 /\ Words(q) + r < Len(v)
          /\ Words(q) + r + 1 \in 1 .. Len(a) /\ Words(q) + 1 \in 1 .. Len(a)
      BY <1>0, <2>1, Size
    <3>2. QED
      BY <1>0, <3>1, Place
  <2>2. QED
    BY <2>1, ToPlace
<1>7. InPlace(b)
  <2>1. ASSUME NEW q \in Nat, NEW r \in Nat, r < EventSize, Words(q) \in Nat,
               Words(q) + r < Len(b)
        PROVE  /\ b[Words(q) + r + 1].ix = r
               /\ b[Words(q) + r + 1].ev = b[Words(q) + 1].ev
    <3>1. PICK p \in Nat : p = n + q
      BY <1>0
    <3>2. Words(p) = Len(a) + Words(q)
      BY <1>0, <3>1, WordsSum
    <3>3. /\ r \in 0 .. EventSize - 1 /\ Words(p) + r < Len(v)
          /\ Words(q) + r + 1 \in 1 .. Len(b) /\ Words(q) + 1 \in 1 .. Len(b)
          /\ Words(p) + r + 1 = Len(a) + (Words(q) + r + 1)
          /\ Words(p) + 1 = Len(a) + (Words(q) + 1)
          /\ p \in Nat /\ Words(p) \in Nat
      <4>1. r \in 0 .. EventSize - 1
        BY <2>1, Size
      <4>2. p \in Nat
        BY <1>0, <3>1
      <4>3. Words(p) \in Nat
        BY <4>2, WordsOf
      <4>4. Words(p) + r < Len(v)
        BY <1>0, <2>1, <3>2, <4>3
      <4>5. Words(q) + r + 1 \in 1 .. Len(b) /\ Words(q) + 1 \in 1 .. Len(b)
        BY <1>0, <2>1
      <4>6. /\ Words(p) + r + 1 = Len(a) + (Words(q) + r + 1)
            /\ Words(p) + 1 = Len(a) + (Words(q) + 1)
        BY <1>0, <2>1, <3>2, <4>3
      <4>7. QED
        BY <4>1, <4>2, <4>3, <4>4, <4>5, <4>6
    <3>4. /\ b[Words(q) + r + 1] = v[Words(p) + r + 1]
          /\ b[Words(q) + 1] = v[Words(p) + 1]
      BY <3>3
    <3>5. v[Words(p) + r + 1].ix = r /\ v[Words(p) + r + 1].ev = v[Words(p) + 1].ev
      BY <1>0, <3>3, Place
    <3>6. QED
      BY <3>4, <3>5
  <2>2. QED
    BY <2>1, ToPlace
<1>8. ASSUME NEW r \in 0 .. place - 1 PROVE b[Words(k) + r + 1].ev = ev
  <2>1. /\ Words(k) + r + 1 \in 1 .. Len(b)
        /\ Words(m) + r + 1 = Len(a) + (Words(k) + r + 1)
    BY <1>0, <1>4, <1>5
  <2>2. b[Words(k) + r + 1] = v[Words(m) + r + 1]
    BY <2>1
  <2>3. QED
    BY <1>1, <2>2
<1>9. k \in 0 .. Len(b)
  BY <1>0, <1>4, <1>5
<1>10. QED
  BY <1>5, <1>6, <1>7, <1>8, <1>9 DEF Continues

-----------------------------------------------------------------------------
(***************************************************************************)
(* Calls, packages and counts.                                             *)
(***************************************************************************)
\* Which call is at which point.
LEMMA PointInvStep == TypeOK /\ CallInv /\ PointInv /\ [Next]_vars => PointInv'
<1> SUFFICES ASSUME TypeOK, CallInv, PointInv, Next \/ UNCHANGED vars PROVE PointInv'
  OBVIOUS
<1> USE DEF PointInv, Reads, Starts
<1>1. CASE Firmware \/ UNCHANGED vars
  BY <1>1 DEF Firmware, Trigger, LoseTrigger, Build, vars, firmware, callVars, resultVars
<1>2. CASE CallStart
  BY <1>2 DEF CallStart, Enter, Call, firmware, resultVars
<1>3. CASE CallStop
  BY <1>3 DEF CallStop, Enter, Call, Stops, resultVars
<1>4. CASE CallReadNEvents
  BY <1>4 DEF CallReadNEvents, Enter, Call, firmware
<1>5. CASE CallReadData
  BY <1>5 DEF CallReadData, Enter, Call, firmware
<1>6. CASE RunStart
  BY <1>6 DEF RunStart, ResetReadout, StartTrigger, CallInv, callVars, resultVars
<1>7. CASE Configure
  BY <1>7 DEF Configure, callVars, resultVars
<1>8. CASE NextEvent \/ PollWords \/ CheckFsm \/ ReadHeader \/ WaitRest \/ ReadRest \/ Fail \/ Retry
  BY <1>8 DEF NextEvent, PollWords, CheckFsm, ReadHeader, WaitRest, ReadRest, Fail, Retry,
     firmware, callVars, resultVars
<1>9. CASE ReadDataStep
  BY <1>9 DEF ReadDataStep, WordsPresent, NothingYet, ReturnZero, PackageRequested,
     CountPackage, ReadPackage, CountAvailable, ReadAvailable, ExitZS, Restart,
     firmware, callVars, resultVars
<1>10. CASE Save
  BY <1>10 DEF Save, firmware, callVars
<1>11. QED
  BY <1>1, <1>2, <1>3, <1>4, <1>5, <1>6, <1>7, <1>8, <1>9, <1>10
     DEF Next, Calls, CallStep, ReadNEventsStep

\* Multiples of the size of an event.
LEMMA Multiples ==
    ASSUME NEW n \in Nat, Multiple(n)
    PROVE  /\ Multiple(n + EventSize)
           /\ \A m \in 0 .. n : Multiple(m) => Multiple(n - m)
           /\ \A p \in Nat : n < Words(p) => n + EventSize <= Words(p)
<1>1. PICK k \in Nat : n = Words(k)
  BY DEF Multiple, Sized, Words
<1>2. ASSUME NEW j \in Nat PROVE Multiple(Words(j))
  <2>1. j \in 0 .. Words(j)
    BY WordsOf
  <2>2. QED
    BY <2>1 DEF Multiple, Sized, Words
<1>3. Multiple(n + EventSize)
  <2>1. n + EventSize = Words(k + 1) /\ k + 1 \in Nat
    BY <1>1, WordsOf
  <2>2. QED
    BY <1>2, <2>1
<1>4. ASSUME NEW m \in 0 .. n, Multiple(m) PROVE Multiple(n - m)
  <2>1. PICK j \in Nat : m = Words(j)
    BY <1>4 DEF Multiple, Sized, Words
  <2>2. ~(k < j)
    <3>1. Words(k) \in Nat /\ Words(j) \in Nat
      BY WordsOf
    <3>2. ASSUME k < j PROVE FALSE
      BY <1>1, <2>1, <3>1, <3>2, WordsLess, Size
    <3>3. QED
      BY <3>2
  <2>3. PICK i \in Nat : k = j + i
    BY <2>2
  <2>4. Words(k) = Words(j) + Words(i) /\ Words(i) \in Nat /\ Words(j) \in Nat
    BY <2>3, WordsSum, WordsOf
  <2>5. n - m = Words(i)
    BY <1>1, <2>1, <2>4
  <2>6. QED
    BY <1>2, <2>5
<1>5. ASSUME NEW p \in Nat, n < Words(p) PROVE n + EventSize <= Words(p)
  <2>1. ~(p <= k)
    <3>1. ASSUME p <= k PROVE FALSE
      <4>1. PICK d \in Nat : k = p + d
        BY <3>1
      <4>2. Words(k) = Words(p) + Words(d) /\ Words(d) \in Nat /\ Words(p) \in Nat
        BY <4>1, WordsSum, WordsOf
      <4>3. QED
        BY <1>1, <1>5, <4>2
    <3>2. QED
      BY <3>1
  <2>2. k < p
    BY <2>1
  <2>3. QED
    BY <1>1, <2>2, WordsLess
<1>6. QED
  BY <1>3, <1>4, <1>5

\* The FIFO after a read of words it holds.
LEMMA LenAfter ==
    ASSUME fifo \in Seq(Word), NEW k \in Nat, k <= Len(fifo)
    PROVE  Len(FifoAfter(k)) = Len(fifo) - k
BY LenProperties DEF FifoAfter

\* The FIFO after the builder has written.
LEMMA LenBuilt ==
    ASSUME TypeOK, BuildInv, Build
    PROVE  /\ Len(fifo') = Len(fifo) + (IF board.streamed THEN 1 ELSE EventSize)
           /\ Len(fifo) \in Nat
<1> DEFINE k == IF board.streamed THEN 1 ELSE EventSize
           added == [i \in 1 .. k |-> [ev |-> nextEvent, ix |-> built + i - 1]]
<1>0. k \in Nat
  BY Size
<1>1. /\ built \in Nat /\ nextEvent \in Nat \ {0} /\ built + k <= EventSize
      /\ fifo \in Seq(Word)
  BY Size DEF TypeOK, FirmwareOK, BuildInv
<1>2. fifo' = fifo \o added
  BY DEF Build
<1> HIDE DEF k
<1>3. added \in Seq(Word) /\ Len(added) = k
  <2>1. \A i \in 1 .. k : [ev |-> nextEvent, ix |-> built + i - 1] \in Word
    BY <1>0, <1>1, Size DEF Word
  <2>2. QED
    BY <1>0, <2>1
<1> HIDE DEF added
<1>4. Len(fifo') = Len(fifo) + k /\ Len(fifo) \in Nat
  BY <1>1, <1>2, <1>3, Joined
<1>5. QED
  BY <1>4 DEF k

\* How much is in the FIFO of a board with the handshake.
LEMMA HoldInvStep ==
    TypeOK /\ BuildInv /\ PointInv /\ CountInv /\ HoldInv /\ [Next]_vars => HoldInv'
<1> SUFFICES ASSUME TypeOK, BuildInv, PointInv, CountInv, HoldInv, Next \/ UNCHANGED vars
             PROVE  HoldInv'
  OBVIOUS
<1>t. /\ fifo \in Seq(Word) /\ Len(fifo) \in Nat /\ cNWords \in Nat
      /\ config.packetNbr \in Nat /\ config.handshake \in BOOLEAN
      /\ config.packetNbr + 1 \in Nat
  BY LenProperties DEF TypeOK, FirmwareOK, PollOK
<1>z. Multiple(0) /\ \A p \in Nat : 0 <= Words(p)
  BY Size, WordsOf DEF Multiple, Sized
<1>1. CASE Build
  <2>1. /\ board' = board /\ config' = config /\ pc' = pc /\ cNWords' = cNWords
        /\ ~(board.holds /\ ReadoutReq)
    BY <1>1 DEF Build, pollVars
  <2>2. Len(fifo') = Len(fifo) + (IF board.streamed THEN 1 ELSE EventSize)
    BY <1>1, LenBuilt
  <2>3. config.handshake /\ ~board.streamed => Multiple(Len(fifo'))
    BY <1>t, <2>2, Multiples DEF HoldInv
  <2>4. ASSUME config.handshake, board.holds PROVE Len(fifo') <= Words(config.packetNbr + 1)
    <3>1. Len(fifo) < Words(config.packetNbr + 1)
      <4>1. ~(Len(fifo) >= Words(config.packetNbr + 1))
        BY <2>1, <2>4 DEF ReadoutReq, Words
      <4>2. Words(config.packetNbr + 1) \in Nat
        BY <1>t, WordsOf
      <4>3. QED
        BY <1>t, <4>1, <4>2
    <3>2. CASE board.streamed
      <4>1. Words(config.packetNbr + 1) \in Nat
        BY <1>t, WordsOf
      <4>2. QED
        BY <1>t, <2>2, <3>1, <3>2, <4>1
    <3>3. CASE ~board.streamed
      BY <1>t, <2>2, <2>4, <3>1, <3>3, Multiples DEF HoldInv
    <3>4. QED
      BY <3>2, <3>3
  <2>5. QED
    BY <2>1, <2>3, <2>4 DEF HoldInv
<1>2. CASE fifo' = fifo /\ config' = config /\ board' = board /\ (pc' = "block" => pc = "block")
           /\ (pc = "block" => cNWords' = cNWords)
  BY <1>2 DEF HoldInv
<1>3. CASE fifo' = <<>> /\ config' = config /\ board' = board /\ pc' # "block"
  BY <1>3, <1>t, <1>z DEF HoldInv
<1>4. CASE ~config'.handshake
  BY <1>4 DEF HoldInv
<1>5. CASE Trigger \/ LoseTrigger \/ UNCHANGED vars
  BY <1>2, <1>5 DEF Trigger, LoseTrigger, vars, firmware, builderVars, pollVars
<1>6. CASE Calls
  BY <1>2, <1>6 DEF Calls, CallStart, CallStop, CallReadNEvents, CallReadData, Enter, firmware,
     builderVars
<1>7. CASE ResetReadout \/ Retry
  BY <1>3, <1>7 DEF ResetReadout, Retry, ClearReadout
<1>8. CASE \/ StartTrigger \/ NextEvent \/ PollWords \/ CheckFsm \/ WaitRest \/ Fail
           \/ WordsPresent \/ NothingYet \/ PackageRequested \/ CountAvailable \/ ExitZS
           \/ Restart \/ Save
  BY <1>2, <1>8 DEF StartTrigger, NextEvent, PollWords, CheckFsm, WaitRest, Fail, WordsPresent,
     NothingYet, ReturnZero, PackageRequested, CountAvailable, ExitZS, Restart, Save, firmware,
     builderVars, pollVars
<1>9. CASE Configure
  BY <1>4, <1>9 DEF Configure
<1>10. CASE ReadHeader \/ ReadRest \/ ReadAvailable
  <2>1. ~config.handshake /\ config' = config
    BY <1>10 DEF ReadHeader, ReadRest, ReadAvailable, PointInv
  <2>2. QED
    BY <1>4, <2>1
<1>11. CASE CountPackage
  BY <1>11 DEF CountPackage, HoldInv, firmware, builderVars
<1>12. CASE ReadPackage
  <2>1. /\ fifo' = FifoAfter(cNWords) /\ config' = config /\ board' = board /\ pc' # "block"
        /\ pc = "block" /\ cNWords <= Len(fifo)
    BY <1>12 DEF ReadPackage, CountInv
  <2>2. Len(fifo') = Len(fifo) - cNWords
    BY <1>t, <2>1, LenAfter
  <2>3. config.handshake /\ ~board.streamed => Multiple(Len(fifo'))
    <3>1. cNWords \in 0 .. Len(fifo)
      BY <1>t, <2>1
    <3>2. QED
      BY <1>t, <2>1, <2>2, <3>1, Multiples DEF HoldInv
  <2>4. ASSUME config.handshake, board.holds PROVE Len(fifo') <= Words(config.packetNbr + 1)
    <3>1. Len(fifo) <= Words(config.packetNbr + 1) /\ Words(config.packetNbr + 1) \in Nat
      BY <1>t, <2>4, WordsOf DEF HoldInv
    <3>2. QED
      BY <1>t, <2>1, <2>2, <3>1
  <2>5. QED
    BY <2>1, <2>3, <2>4 DEF HoldInv
<1>13. QED
  BY <1>1, <1>5, <1>6, <1>7, <1>8, <1>9, <1>10, <1>11, <1>12
     DEF Next, Firmware, CallStep, RunStart, ReadNEventsStep, ReadDataStep

\* What was counted is still there.
LEMMA CountInvStep ==
    TypeOK /\ BuildInv /\ PointInv /\ HoldInv /\ CountInv /\ [Next]_vars => CountInv'
<1> SUFFICES ASSUME TypeOK, BuildInv, PointInv, HoldInv, CountInv, Next \/ UNCHANGED vars
             PROVE  CountInv'
  OBVIOUS
<1>t. /\ fifo \in Seq(Word) /\ Len(fifo) \in Nat /\ cNWords \in Nat /\ cNEvents \in Nat
      /\ config.packetNbr \in Nat /\ config.packetNbr + 1 \in Nat
      /\ event \in Nat /\ call.n \in Nat
  BY LenProperties DEF TypeOK, FirmwareOK, PollOK, ResultOK, ControlOK, CallType
<1>1. CASE Build
  <2>1. /\ config' = config /\ pc' = pc /\ UNCHANGED pollVars /\ UNCHANGED resultVars
        /\ call' = call
    BY <1>1 DEF Build, callVars
  <2>2. Len(fifo') \in Nat /\ Len(fifo) <= Len(fifo')
    BY <1>1, <1>t, LenBuilt, Size
  <2>3. ReadoutReq => ReadoutReq'
    <3>1. Words(config.packetNbr + 1) \in Nat
      BY <1>t, WordsOf
    <3>2. QED
      BY <1>t, <2>1, <2>2, <3>1 DEF ReadoutReq, Words
  <2>4. pc = "block" => cNWords <= Len(fifo')
    BY <1>t, <2>2 DEF CountInv
  <2>5. pc = "take" => Words(cNEvents) <= Len(fifo')
    <3>1. Words(cNEvents) \in Nat
      BY <1>t, WordsOf
    <3>2. QED
      BY <1>t, <2>2, <3>1 DEF CountInv
  <2>6. QED
    BY <2>1, <2>3, <2>4, <2>5 DEF CountInv, pollVars, resultVars
<1>2. CASE /\ pc' \notin {"package", "block", "take", "rest"}
           /\ pc' = "event" => event' <= call'.n
           /\ pc' = "poll" => event' < call'.n
  BY <1>2 DEF CountInv
<1>3. CASE /\ fifo' = fifo /\ config' = config /\ pc' = pc /\ event' = event /\ call' = call
           /\ cEventSize' = cEventSize /\ header1' = header1 /\ UNCHANGED resultVars
           /\ (pc = "block" => cNWords' = cNWords)
  BY <1>3 DEF CountInv, ReadoutReq, resultVars
<1>4. CASE Trigger \/ LoseTrigger \/ UNCHANGED vars
  BY <1>3, <1>4 DEF Trigger, LoseTrigger, vars, firmware, builderVars, pollVars, callVars
<1>5. CASE Calls
  BY <1>2, <1>5 DEF Calls, CallStart, CallStop, CallReadNEvents, CallReadData, Enter
<1>6. CASE \/ ResetReadout \/ Retry \/ Configure \/ Fail \/ WordsPresent \/ NothingYet
           \/ ReadPackage \/ ReadAvailable \/ ExitZS \/ Restart \/ Save
  BY <1>2, <1>6 DEF ResetReadout, Retry, Configure, Fail, WordsPresent, NothingYet, ReturnZero,
     ReadPackage, ReadAvailable, ExitZS, Restart, Save
<1>7. CASE StartTrigger
  <2>1. /\ pc' \notin {"package", "block", "take", "rest", "poll"} /\ event' = 0
        /\ call' = call
    BY <1>7 DEF StartTrigger, callVars
  <2>2. QED
    BY <1>2, <1>t, <2>1
<1>8. CASE NextEvent
  BY <1>2, <1>8 DEF NextEvent, callVars
<1>9. CASE PollWords \/ WaitRest
  BY <1>3, <1>9 DEF PollWords, WaitRest, firmware, builderVars, callVars
<1>10. CASE CheckFsm
  BY <1>2, <1>3, <1>10 DEF CheckFsm, firmware, builderVars, callVars
<1>11. CASE ReadHeader
  <2>1. /\ pc' = "rest" /\ event' = event /\ call' = call /\ pc = "poll"
        /\ cEventSize' \in SizeField(header1')
    BY <1>11 DEF ReadHeader, callVars
  <2>2. header1'.ix = 0 => cEventSize' = EventSize
    BY <2>1 DEF SizeField
  <2>3. QED
    BY <2>1, <2>2 DEF CountInv
<1>12. CASE ReadRest
  <2>1. pc = "rest" /\ pc' = "event" /\ event' = event + 1 /\ call' = call
    BY <1>12 DEF ReadRest, callVars
  <2>2. event + 1 <= call.n
    BY <1>t, <2>1 DEF CountInv
  <2>3. QED
    BY <1>2, <2>1, <2>2
<1>13. CASE PackageRequested
  BY <1>13 DEF PackageRequested, CountInv, ReadoutReq, firmware, builderVars
<1>14. CASE CountPackage
  <2>1. pc = "package" /\ pc' = "block" /\ cNWords' = Len(fifo) /\ fifo' = fifo
    BY <1>14 DEF CountPackage, firmware, builderVars
  <2>2. CASE board.type = "VR"
    <3>1. /\ cNEvents' = Len(fifo) \div EventSize
          /\ pFailed' = (Len(fifo) % EventSize # 0)
      BY <1>14, <2>2 DEF CountPackage
    <3>2. /\ Len(fifo) \div EventSize \in Nat /\ Len(fifo) % EventSize \in 0 .. EventSize - 1
          /\ Len(fifo) = Words(Len(fifo) \div EventSize) + (Len(fifo) % EventSize)
          /\ Words(Len(fifo) \div EventSize) \in Nat
      BY <1>t, Divided, WordsOf
    <3>3. ~pFailed' => Len(fifo) % EventSize = 0
      BY <3>1
    <3>4. ~pFailed' => Sized(cNWords', cNEvents')
      BY <2>1, <3>1, <3>2, <3>3 DEF Sized, Words
    <3>5. QED
      BY <1>t, <2>1, <3>4 DEF CountInv
  <2>3. CASE board.type # "VR"
    <3>1. cNEvents' = config.packetNbr + 1
      BY <1>14, <2>3 DEF CountPackage
    <3>2. board.type = "ZS" /\ config.handshake
      BY <2>1, <2>3 DEF CountInv, ReadoutReq, TypeOK, FirmwareOK, Board
    <3>3. board.holds
      BY <3>2, PackageAssumption DEF PointInv
    <3>4. /\ Len(fifo) <= Words(config.packetNbr + 1) /\ Words(config.packetNbr + 1) \in Nat
          /\ Len(fifo) >= Words(config.packetNbr + 1)
      BY <1>t, <2>1, <3>2, <3>3, WordsOf DEF HoldInv, CountInv, ReadoutReq, Words
    <3>5. Len(fifo) = Words(config.packetNbr + 1)
      BY <1>t, <3>4
    <3>6. Sized(cNWords', cNEvents')
      BY <1>t, <2>1, <3>1, <3>5 DEF Sized, Words
    <3>7. QED
      BY <1>t, <2>1, <3>6 DEF CountInv
  <2>4. QED
    BY <2>2, <2>3
<1>15. CASE CountAvailable
  <2>1. pc' = "take" /\ cNEvents' = Len(fifo) \div EventSize /\ fifo' = fifo
    BY <1>15 DEF CountAvailable, firmware, builderVars
  <2>2. /\ Len(fifo) \div EventSize \in Nat /\ Len(fifo) % EventSize \in 0 .. EventSize - 1
        /\ Len(fifo) = Words(Len(fifo) \div EventSize) + (Len(fifo) % EventSize)
        /\ Words(Len(fifo) \div EventSize) \in Nat
    BY <1>t, Divided, WordsOf
  <2>3. Words(cNEvents') <= Len(fifo')
    BY <1>t, <2>1, <2>2, PlaceIn
  <2>4. QED
    BY <2>1, <2>3 DEF CountInv
<1>16. QED
  BY <1>1, <1>4, <1>5, <1>6, <1>7, <1>8, <1>9, <1>10, <1>11, <1>12, <1>13, <1>14, <1>15
     DEF Next, Firmware, CallStep, RunStart, ReadNEventsStep, ReadDataStep

-----------------------------------------------------------------------------
(***************************************************************************)
(* Places.                                                                 *)
(***************************************************************************)
\* Of two sequences both are clean if they are clean one after the other.
LEMMA CleanParts ==
    ASSUME NEW s \in Seq(Word), NEW t \in Seq(Word), Clean(s \o t)
    PROVE  Clean(s) /\ Clean(t)
<1>0. /\ Len(s) \in Nat /\ Len(t) \in Nat /\ Len(s \o t) = Len(s) + Len(t)
      /\ \A i \in 1 .. Len(s) : (s \o t)[i] = s[i]
      /\ \A i \in 1 .. Len(t) : (s \o t)[Len(s) + i] = t[i]
  BY Joined
<1>1. ASSUME NEW i \in 1 .. Len(s) PROVE s[i] # Underrun
  BY <1>0 DEF Clean
<1>2. ASSUME NEW i \in 1 .. Len(t) PROVE t[i] # Underrun
  <2>1. Len(s) + i \in 1 .. Len(s \o t)
    BY <1>0
  <2>2. QED
    BY <1>0, <2>1 DEF Clean
<1>3. QED
  BY <1>1, <1>2 DEF Clean

\* A clean block is all of the FIFO.
LEMMA CleanBlock ==
    ASSUME fifo \in Seq(Word), NEW k \in Nat, Clean(ReadBlock(k))
    PROVE  k <= Len(fifo)
<1>1. /\ Len(fifo) \in Nat /\ Len(ReadBlock(k)) = k
      /\ \A i \in 1 .. k :
           ReadBlock(k)[i] = IF i <= Len(fifo) THEN fifo[i] ELSE Underrun
  BY BlockParts, LenProperties
<1>2. ASSUME ~(k <= Len(fifo)) PROVE FALSE
  <2>1. k \in 1 .. k /\ ~(k <= Len(fifo))
    BY <1>1, <1>2
  <2>2. ReadBlock(k)[k] = Underrun
    BY <1>1, <2>1
  <2>3. QED
    BY <1>1, <2>1, <2>2 DEF Clean
<1>3. QED
  BY <1>2

\* No words are whole events, and whole events of nothing continue.
LEMMA NoEvents ==
    /\ <<>> \in Seq(Word) /\ Clean(<<>>) /\ InPlace(<<>>) /\ Sized(Len(<<>>), 0)
    /\ \A ev : Continues(<<>>, ev, 0)
<1>1. <<>> \in Seq(Word) /\ Len(<<>>) = 0
  BY EmptySeq
<1>2. Clean(<<>>)
  BY <1>1 DEF Clean
<1>3. InPlace(<<>>)
  <2>1. ASSUME NEW q \in Nat, NEW r \in Nat, r < EventSize, Words(q) \in Nat,
               Words(q) + r < Len(<<>>)
        PROVE  /\ <<>>[Words(q) + r + 1].ix = r
               /\ <<>>[Words(q) + r + 1].ev = <<>>[Words(q) + 1].ev
    BY <1>1, <2>1
  <2>2. QED
    BY <1>1, <2>1, ToPlace
<1>4. Sized(Len(<<>>), 0) /\ Len(<<>>) = Words(0) + 0 /\ 0 \in 0 .. Len(<<>>)
  BY <1>1, Size DEF Sized
<1>5. \A ev : Continues(<<>>, ev, 0)
  <2>1. \A r \in 0 .. 0 - 1 : FALSE
    OBVIOUS
  <2>2. QED
    BY <1>3, <1>4, <2>1 DEF Continues
<1>6. QED
  BY <1>1, <1>2, <1>3, <1>4, <1>5

\* A block read of whole events, out of a FIFO that holds them.
LEMMA BlockTaken ==
    ASSUME fifo \in Seq(Word), NEW ev, NEW place \in 0 .. EventSize - 1,
           NEW h \in Seq(Word), Continues(h \o fifo, ev, place),
           NEW k \in Nat, k <= Len(fifo), NEW n, Sized(Len(h) + k, n)
    PROVE  /\ h \o ReadBlock(k) \in Seq(Word) /\ InPlace(h \o ReadBlock(k))
           /\ Sized(Len(h \o ReadBlock(k)), n)
           /\ Continues(FifoAfter(k), ev, place)
<1> DEFINE v == h \o fifo
           a == h \o ReadBlock(k)
           b == FifoAfter(k)
<1>1. /\ v \in Seq(Word) /\ Len(h) \in Nat /\ Len(fifo) \in Nat /\ Len(v) = Len(h) + Len(fifo)
      /\ \A i \in 1 .. Len(h) : v[i] = h[i]
      /\ \A i \in 1 .. Len(fifo) : v[Len(h) + i] = fifo[i]
  BY Joined
<1>2. /\ ReadBlock(k) \in Seq(Word) /\ Len(ReadBlock(k)) = k
      /\ \A i \in 1 .. k : ReadBlock(k)[i] = IF i <= Len(fifo) THEN fifo[i] ELSE Underrun
      /\ b \in Seq(Word)
      /\ \A i \in 1 .. Len(b) : k + i \in 1 .. Len(fifo) /\ b[i] = fifo[k + i]
  BY BlockParts
<1>3. Len(b) = Len(fifo) - k
  BY LenAfter
<1>4. /\ a \in Seq(Word) /\ Len(a) = Len(h) + k
      /\ \A i \in 1 .. Len(h) : a[i] = h[i]
      /\ \A i \in 1 .. k : a[Len(h) + i] = ReadBlock(k)[i]
  <2>1. /\ a \in Seq(Word) /\ Len(a) = Len(h) + Len(ReadBlock(k))
        /\ \A i \in 1 .. Len(h) : a[i] = h[i]
        /\ \A i \in 1 .. Len(ReadBlock(k)) : a[Len(h) + i] = ReadBlock(k)[i]
    BY <1>2, Joined
  <2>2. QED
    BY <1>2, <2>1
<1> HIDE DEF v, a, b
<1>5. ASSUME NEW i \in 1 .. Len(a) PROVE a[i] = v[i]
  <2>1. CASE i <= Len(h)
    BY <1>1, <1>4, <2>1
  <2>2. CASE ~(i <= Len(h))
    <3>1. PICK j \in 1 .. k : i = Len(h) + j
      <4>1. i - Len(h) \in 1 .. k /\ i = Len(h) + (i - Len(h))
        BY <1>1, <1>4, <2>2
      <4>2. QED
        BY <4>1
    <3>2. j \in 1 .. Len(fifo)
      BY <1>1
    <3>3. a[Len(h) + j] = ReadBlock(k)[j] /\ v[Len(h) + j] = fifo[j]
      BY <1>1, <1>4, <3>2
    <3>4. ReadBlock(k)[j] = fifo[j]
      BY <1>1, <1>2, <3>2
    <3>5. QED
      BY <3>1, <3>3, <3>4
  <2>3. QED
    BY <2>1, <2>2
<1>6. ASSUME NEW i \in 1 .. Len(b) PROVE b[i] = v[Len(a) + i]
  <2>1. Len(a) + i = Len(h) + (k + i) /\ k + i \in 1 .. Len(fifo)
    BY <1>1, <1>2, <1>3, <1>4
  <2>2. QED
    BY <1>1, <1>2, <2>1
<1>7. Continues(v, ev, place) /\ Sized(Len(a), n) /\ Len(v) = Len(a) + Len(b)
  BY <1>1, <1>3, <1>4 DEF v
<1>8. InPlace(a) /\ Continues(b, ev, place)
  BY <1>1, <1>2, <1>4, <1>5, <1>6, <1>7, EventsTaken
<1>9. QED
  BY <1>4, <1>7, <1>8 DEF a, b

\* Nothing that is held and not in the FIFO came from elsewhere: a header
\* that is held stands where the FIFO had it.
LEMMA HeaderHeld ==
    ASSUME fifo \in Seq(Word), NEW ev, NEW place \in 0 .. EventSize - 1,
           Continues(fifo, ev, place), Clean(<<ReadBlock(1)[1]>>)
    PROVE  Continues(<<ReadBlock(1)[1]>> \o FifoAfter(1), ev, place)
<1> DEFINE h == <<ReadBlock(1)[1]>>
           u == h \o FifoAfter(1)
<1>1. /\ Len(fifo) \in Nat /\ ReadBlock(1)[1] \in Word /\ FifoAfter(1) \in Seq(Word)
      /\ ReadBlock(1)[1] = IF 1 <= Len(fifo) THEN fifo[1] ELSE Underrun
      /\ \A i \in 1 .. Len(FifoAfter(1)) : FifoAfter(1)[i] = fifo[1 + i]
  <2>1. /\ ReadBlock(1) \in Seq(Word) /\ Len(ReadBlock(1)) = 1 /\ FifoAfter(1) \in Seq(Word)
        /\ \A i \in 1 .. 1 : ReadBlock(1)[i] = IF i <= Len(fifo) THEN fifo[i] ELSE Underrun
        /\ \A i \in 1 .. Len(FifoAfter(1)) :
             1 + i \in 1 .. Len(fifo) /\ FifoAfter(1)[i] = fifo[1 + i]
    BY BlockParts
  <2>2. 1 \in 1 .. 1 /\ 1 \in 1 .. Len(ReadBlock(1))
    BY <2>1
  <2>3. ReadBlock(1)[1] \in Word
    BY <2>1, <2>2, ElementOfSeq
  <2>4. QED
    BY <2>1, <2>2, <2>3, LenProperties
<1>2. ReadBlock(1)[1] # Underrun
  BY <1>1, OneOrder DEF Clean
<1>3. 1 <= Len(fifo) /\ ReadBlock(1)[1] = fifo[1]
  BY <1>1, <1>2
<1>4. Len(FifoAfter(1)) = Len(fifo) - 1
  BY <1>3, LenAfter
<1>5. h \in Seq(Word) /\ Len(h) = 1 /\ h[1] = fifo[1]
  BY <1>1, <1>3, OneOrder
<1> HIDE DEF h
<1>6. /\ u \in Seq(Word) /\ Len(u) = Len(fifo)
      /\ \A i \in 1 .. 1 : u[i] = h[i]
      /\ \A i \in 1 .. Len(FifoAfter(1)) : u[1 + i] = FifoAfter(1)[i]
  <2>1. /\ u \in Seq(Word) /\ Len(u) = Len(h) + Len(FifoAfter(1))
        /\ \A i \in 1 .. Len(h) : u[i] = h[i]
        /\ \A i \in 1 .. Len(FifoAfter(1)) : u[Len(h) + i] = FifoAfter(1)[i]
    BY <1>1, <1>5, Joined
  <2>2. QED
    BY <1>1, <1>4, <1>5, <2>1
<1> HIDE DEF u
<1>7. ASSUME NEW i \in 1 .. Len(u) PROVE u[i] = fifo[i]
  <2>1. CASE i = 1
    BY <1>5, <1>6, <2>1
  <2>2. CASE i # 1
    <3>1. PICK j \in 1 .. Len(FifoAfter(1)) : i = 1 + j
      <4>1. i - 1 \in 1 .. Len(FifoAfter(1)) /\ i = 1 + (i - 1)
        BY <1>1, <1>4, <1>6, <2>2
      <4>2. QED
        BY <4>1
    <3>2. QED
      BY <1>1, <1>6, <3>1
  <2>3. QED
    BY <2>1, <2>2
<1>8. u = fifo
  BY <1>6, <1>7, SeqEqual
<1>9. QED
  BY <1>8 DEF u, h

\* Every step leaves the words where they should be.
LEMMA PlaceInvStep ==
    TypeOK /\ TypeOK' /\ CallInv /\ BuildInv /\ PointInv /\ CountInv /\ PlaceInv /\ [Next]_vars
        => PlaceInv'
<1> SUFFICES ASSUME TypeOK, TypeOK', CallInv, BuildInv, PointInv, CountInv, PlaceInv,
                    Next \/ UNCHANGED vars
             PROVE  PlaceInv'
  OBVIOUS
<1>t. /\ returned \in Seq(Word) /\ pData \in Seq(Word) /\ fifo \in Seq(Word)
      /\ <<>> \in Seq(Word) /\ <<header1>> \in Seq(Word)
      /\ Taken \in Seq(Word) /\ Held \in Seq(Word)
  BY StreamTyped
<1>n. /\ nextEvent \in Nat /\ nextEvent' \in Nat /\ built \in 0 .. EventSize - 1
      /\ event \in Nat /\ cNEvents \in Nat /\ cNWords \in Nat
      /\ cEventSize \in 0 .. EventSize
  BY DEF TypeOK, FirmwareOK, PollOK, ResultOK
<1>e. <<>> \o fifo = fifo
  BY <1>t, ConcatEmptySeq
\* What an action that leaves the history alone has to show.
<1>k. ASSUME returned' = returned, last' = last,
             Sane' /\ Fresh' => Continues(Held' \o fifo', nextEvent', built'),
             Sane' /\ pc' \in {"event", "poll", "rest"}
                => InPlace(pData') /\ Sized(Len(pData'), event'),
             Sane' /\ pc' = "save" => InPlace(pData') /\ Sized(Len(pData'), Count')
      PROVE  PlaceInv'
  BY <1>k DEF PlaceInv
\* An action that only goes to another point.
<1>m. ASSUME returned' = returned, last' = last, fifo' = fifo, nextEvent' = nextEvent,
             built' = built, Held' = Held, Sane' /\ Fresh' => Sane /\ Fresh,
             pc' \notin {"event", "poll", "rest", "save"}
      PROVE  PlaceInv'
  BY <1>k, <1>m DEF PlaceInv
<1>1. CASE Trigger \/ LoseTrigger \/ UNCHANGED vars
  <2>1. /\ UNCHANGED <<fifo, nextEvent, built, pc, call>> /\ UNCHANGED pollVars
        /\ UNCHANGED resultVars /\ UNCHANGED history
    BY <1>1 DEF Trigger, LoseTrigger, vars, firmware, builderVars, callVars
  <2>2. QED
    BY <2>1 DEF PlaceInv, Sane, Fresh, Taken, Held, Reading, Count, pollVars, resultVars, history
<1>2. CASE Build
  <2> DEFINE k == IF board.streamed THEN 1 ELSE EventSize
             added == [i \in 1 .. k |-> [ev |-> nextEvent, ix |-> built + i - 1]]
             v == Held \o fifo
  <2>0. k \in Nat
    BY Size
  <2>1. /\ UNCHANGED <<pc, call>> /\ UNCHANGED pollVars /\ UNCHANGED resultVars
        /\ UNCHANGED history /\ fifo' = fifo \o added
    BY <1>2 DEF Build, callVars
  <2>2. Held' = Held /\ Taken' = Taken /\ Count' = Count
    BY <2>1 DEF Held, Taken, Reading, Count, pollVars, resultVars
  <2>3. Sane' => Sane
    BY <2>1, <2>2 DEF Sane, history
  <2>4. nextEvent \in Nat \ {0} /\ built \in Nat /\ built + k <= EventSize
        /\ (~board.streamed => built = 0)
    BY <1>n, Size DEF TypeOK, FirmwareOK, BuildInv
  <2>5. IF built + k = EventSize THEN nextEvent' = nextEvent + 1 /\ built' = 0
                                 ELSE nextEvent' = nextEvent /\ built' = built + k
    BY <1>2 DEF Build
  <2>6. /\ k = 1 \/ (k = EventSize /\ built = 0)
    BY <2>4
  <2> HIDE DEF k
  <2>7. \A i \in 1 .. k : [ev |-> nextEvent, ix |-> built + i - 1] \in Word
    BY <2>0, <2>4, Size DEF Word
  <2>8. added \in Seq(Word) /\ Len(added) = k
        /\ \A i \in 1 .. k : added[i] = [ev |-> nextEvent, ix |-> built + i - 1]
    BY <2>0, <2>7
  <2> HIDE DEF added
  <2>9. \A i \in 1 .. k : added[i].ev = nextEvent /\ added[i].ix = built + i - 1
    BY <2>8
  <2>10. Held \o fifo' = v \o added /\ v \in Seq(Word)
    <3>1. v \in Seq(Word)
      BY <1>t, Joined
    <3>2. (Held \o fifo) \o added = Held \o (fifo \o added)
      BY <1>t, <2>8, ConcatAssociative
    <3>3. QED
      BY <2>1, <3>1, <3>2
  <2> HIDE DEF v
  <2>11. ASSUME Continues(v, nextEvent, built) PROVE Continues(v \o added, nextEvent', built')
    <3>1. CASE k = 1
      <4>1. added[1].ev = nextEvent /\ added[1].ix = built /\ Len(added) = 1
        BY <2>4, <2>8, <2>9, <3>1
      <4>2. /\ built + 1 < EventSize => Continues(v \o added, nextEvent, built + 1)
            /\ built + 1 = EventSize => Continues(v \o added, nextEvent', 0)
        BY <1>n, <2>8, <2>10, <2>11, <4>1, OneWord
      <4>3. built + 1 < EventSize \/ built + 1 = EventSize
        BY <2>4, <3>1, Size
      <4>4. QED
        BY <2>5, <3>1, <4>2, <4>3, Size
    <3>2. CASE k # 1
      <4>1. k = EventSize /\ built = 0
        BY <2>6, <3>2
      <4>2. \A i \in 1 .. EventSize : added[i].ev = nextEvent /\ added[i].ix = i - 1
        BY <2>9, <4>1, Size
      <4>3. Continues(v \o added, nextEvent', 0)
        BY <1>n, <2>8, <2>10, <2>11, <4>1, <4>2, OneEvent
      <4>4. built' = 0
        BY <2>5, <4>1, Size
      <4>5. QED
        BY <4>3, <4>4
    <3>3. QED
      BY <3>1, <3>2
  <2>12. Fresh' => Fresh
    BY <2>1 DEF Fresh
  <2>13. Sane' /\ Fresh' => Continues(Held' \o fifo', nextEvent', built')
    BY <2>2, <2>3, <2>10, <2>11, <2>12 DEF PlaceInv, v
  <2>14. pData' = pData /\ event' = event /\ last' = last /\ returned' = returned /\ pc' = pc
    BY <2>1 DEF pollVars, resultVars, history
  <2>15. QED
    BY <1>k, <2>2, <2>3, <2>13, <2>14 DEF PlaceInv
<1>3. CASE Calls
  <2>1. /\ returned' = returned /\ last' = last /\ fifo' = fifo /\ nextEvent' = nextEvent
        /\ built' = built /\ pc = "idle" /\ pc' \in {"idle", "reset", "configure", "words"}
    BY <1>3 DEF Calls, CallStart, CallStop, CallReadNEvents, CallReadData, Enter, firmware,
       builderVars, history
  <2>2. Held = <<>> /\ Held' = <<>> /\ Taken = <<>> /\ Fresh
    BY <2>1 DEF Held, Taken, Reading, Fresh
  <2>3. Sane' => Sane
    BY <2>1, <2>2, NoEvents DEF Sane
  <2>4. QED
    BY <1>m, <2>1, <2>2, <2>3
<1>4. CASE ResetReadout
  <2>1. /\ returned' = returned /\ last' = last /\ fifo' = <<>> /\ built' = 0 /\ pc' = "start"
    BY <1>4 DEF ResetReadout, ClearReadout, history
  <2>2. Held' \o fifo' = <<>>
    BY <1>t, <2>1, ConcatEmptySeq DEF Held
  <2>3. Continues(Held' \o fifo', nextEvent', built')
    BY <2>1, <2>2, NoEvents
  <2>4. QED
    BY <1>k, <2>1, <2>3
<1>5. CASE StartTrigger
  <2>1. /\ returned' = returned /\ last' = last /\ fifo' = fifo /\ nextEvent' = nextEvent
        /\ built' = built /\ pc = "start" /\ pc' \in {"idle", "event", "words"} /\ event' = 0
        /\ pData' = pData /\ call' = call
    BY <1>5 DEF StartTrigger, builderVars, resultVars, callVars, history
  <2>2. Held = <<>> /\ Held' = <<>> /\ Fresh
    BY <2>1 DEF Held, Fresh
  <2>3. Taken = <<>>
    BY <2>1 DEF Taken, Reading, PointInv
  <2>4. Sane' => Sane
    BY <2>1, <2>2, <2>3, NoEvents DEF Sane
  <2>5. pc' = "event" => pData' = <<>>
    BY <1>5, <2>1 DEF StartTrigger, PointInv, CallInv, Reads, Starts
  <2>6. pc' = "event" => InPlace(pData') /\ Sized(Len(pData'), event')
    BY <2>1, <2>5, NoEvents
  <2>7. pc' \notin {"poll", "rest", "save"}
    BY <2>1
  <2>8. Sane' /\ Fresh' => Continues(Held' \o fifo', nextEvent', built')
    BY <2>1, <2>2, <2>4 DEF PlaceInv
  <2>9. QED
    BY <1>k, <2>1, <2>6, <2>7, <2>8
<1>6. CASE Configure \/ Fail \/ Retry \/ Restart \/ ExitZS
  <2>1. /\ returned' = returned /\ last' = last
        /\ pc' \in {"configure", "reset", "retry", "exited"}
    BY <1>6 DEF Configure, Fail, Retry, Restart, ExitZS, history
  <2>2. ~Fresh' /\ pc' \notin {"event", "poll", "rest", "save"}
    BY <2>1 DEF Fresh
  <2>3. QED
    BY <1>k, <2>1, <2>2
<1>7. CASE NextEvent
  <2>1. /\ returned' = returned /\ last' = last /\ fifo' = fifo /\ nextEvent' = nextEvent
        /\ built' = built /\ pc = "event" /\ pc' \in {"poll", "save"} /\ event' = event
        /\ pData' = pData /\ call' = call /\ (pc' = "save" => ~(event < call.n))
    BY <1>7 DEF NextEvent, firmware, builderVars, resultVars, callVars, history
  <2>2. Held = <<>> /\ Held' = <<>> /\ Fresh
    BY <2>1 DEF Held, Fresh
  <2>3. Taken' = Taken
    BY <2>1 DEF Taken, Reading
  <2>4. Sane' => Sane
    BY <2>1, <2>2, <2>3 DEF Sane
  <2>5. pc' = "save" => Count' = event
    <3>1. pc' = "save" => call.n = event
      BY <1>n, <2>1 DEF CountInv, TypeOK, ControlOK, CallType
    <3>2. call'.op = "ReadNEvents"
      BY <2>1 DEF PointInv
    <3>3. QED
      BY <2>1, <3>1, <3>2 DEF Count
  <2>6. Sane' => InPlace(pData') /\ Sized(Len(pData'), event)
    BY <2>1, <2>4 DEF PlaceInv
  <2>7. Sane' /\ Fresh' => Continues(Held' \o fifo', nextEvent', built')
    BY <2>1, <2>2, <2>4 DEF PlaceInv
  <2>8. QED
    BY <1>k, <2>1, <2>5, <2>6, <2>7
<1>8. CASE PollWords \/ WaitRest \/ CheckFsm
  <2>1. /\ returned' = returned /\ last' = last /\ fifo' = fifo /\ nextEvent' = nextEvent
        /\ built' = built /\ event' = event /\ pData' = pData /\ call' = call
        /\ header1' = header1 /\ cNEvents' = cNEvents
        /\ pc' = pc \/ pc' = "failed"
    BY <1>8 DEF PollWords, WaitRest, CheckFsm, firmware, builderVars, resultVars, callVars, history
  <2>2. CASE pc' = "failed"
    BY <1>k, <2>1, <2>2 DEF Fresh
  <2>3. CASE pc' = pc
    <3>1. Held' = Held /\ Taken' = Taken /\ (Fresh' => Fresh) /\ Count' = Count
      BY <2>1, <2>3 DEF Held, Taken, Reading, Fresh, Count
    <3>2. Sane' => Sane
      BY <2>1, <3>1 DEF Sane
    <3>3. QED
      BY <1>k, <2>1, <2>3, <3>1, <3>2 DEF PlaceInv
  <2>4. QED
    BY <2>1, <2>2, <2>3
<1>9. CASE ReadHeader
  <2>1. /\ returned' = returned /\ last' = last /\ fifo' = FifoAfter(1)
        /\ nextEvent' = nextEvent /\ built' = built /\ event' = event /\ pData' = pData
        /\ call' = call /\ header1' = ReadBlock(1)[1] /\ pc = "poll" /\ pc' = "rest"
    BY <1>9 DEF ReadHeader, resultVars, callVars, history
  <2>2. Held = <<>> /\ Held' = <<ReadBlock(1)[1]>> /\ Taken' = Taken /\ Fresh
    BY <2>1 DEF Held, Taken, Reading, Fresh
  <2>3. Sane' => Sane
    BY <2>1, <2>2, NoEvents DEF Sane
  <2>4. ASSUME Sane' PROVE Continues(Held' \o fifo', nextEvent', built')
    <3>1. Clean(<<ReadBlock(1)[1]>>)
      BY <2>2, <2>4 DEF Sane
    <3>2. Continues(fifo, nextEvent, built)
      BY <1>e, <2>2, <2>3, <2>4 DEF PlaceInv
    <3>3. QED
      BY <1>t, <1>n, <2>1, <2>2, <3>1, <3>2, HeaderHeld
  <2>5. Sane' => InPlace(pData') /\ Sized(Len(pData'), event')
    BY <2>1, <2>3 DEF PlaceInv
  <2>6. QED
    BY <1>k, <2>1, <2>4, <2>5
<1>10. CASE ReadRest
  <2> DEFINE k == cEventSize - 1
             B == ReadBlock(k)
             h == <<header1>>
  <2>1. /\ returned' = returned /\ last' = last /\ fifo' = FifoAfter(k)
        /\ nextEvent' = nextEvent /\ built' = built /\ event' = event + 1
        /\ pData' = (pData \o h) \o B /\ cEventSize # 0
        /\ call' = call /\ pc = "rest" /\ pc' = "event"
    BY <1>10 DEF ReadRest, RestPresent, callVars, history
  <2>2. k \in Nat
    BY <1>n, <2>1, Size
  <2> HIDE DEF k
  <2>3. /\ Held = h /\ Held' = <<>> /\ Fresh /\ h \in Seq(Word) /\ Len(h) = 1
        /\ h[1] = header1
    BY <1>t, <2>1 DEF Held, Fresh
  <2>4. B \in Seq(Word) /\ FifoAfter(k) \in Seq(Word)
    BY <1>t, <2>2, BlockParts
  <2>5. Taken = pData /\ Taken' = pData'
    BY <2>1 DEF Taken, Reading, PointInv, Reads
  <2> HIDE DEF B, h
  <2>6. ASSUME Sane'
        PROVE  /\ InPlace(pData') /\ Sized(Len(pData'), event')
               /\ Continues(Held' \o fifo', nextEvent', built')
    <3>1. Clean((pData \o h) \o B)
      BY <2>1, <2>5, <2>6 DEF Sane
    <3>2. pData \o h \in Seq(Word)
      BY <1>t, <2>3, Joined
    <3>3. Clean(pData \o h) /\ Clean(B)
      BY <2>4, <3>1, <3>2, CleanParts
    <3>4. Clean(pData) /\ Clean(h)
      BY <1>t, <2>3, <3>3, CleanParts
    <3>5. Sane
      BY <2>1, <2>3, <2>5, <2>6, <3>4 DEF Sane
    <3>6. Continues(h \o fifo, nextEvent, built)
      BY <2>3, <3>5 DEF PlaceInv
    <3>7. k <= Len(fifo)
      BY <1>t, <2>2, <3>3, CleanBlock DEF B
    <3>8. header1.ix = 0
      <4>1. /\ h \o fifo \in Seq(Word) /\ Len(h \o fifo) = 1 + Len(fifo) /\ Len(fifo) \in Nat
            /\ \A i \in 1 .. 1 : (h \o fifo)[i] = h[i]
        BY <1>t, <2>3, Joined
      <4>2. Words(0) + 0 < Len(h \o fifo) /\ 0 \in 0 .. EventSize - 1 /\ Words(0) + 0 + 1 = 1
        BY <4>1, Size
      <4>3. (h \o fifo)[Words(0) + 0 + 1].ix = 0
        BY <3>6, <4>1, <4>2, Place DEF Continues
      <4>4. QED
        BY <2>3, <4>1, <4>2, <4>3
    <3>9. Sized(Len(h) + k, 1)
      <4>1. cEventSize = EventSize
        BY <2>1, <3>8 DEF CountInv
      <4>2. QED
        BY <2>3, <4>1, Size DEF k, Sized, Words
    <3>10. /\ h \o B \in Seq(Word) /\ InPlace(h \o B) /\ Sized(Len(h \o B), 1)
           /\ Continues(FifoAfter(k), nextEvent, built)
      BY <1>t, <1>n, <2>2, <2>3, <3>6, <3>7, <3>9, BlockTaken DEF B
    <3>11. InPlace(pData) /\ Sized(Len(pData), event)
      BY <2>1, <3>5 DEF PlaceInv
    <3>12. pData' = pData \o (h \o B)
      <4>1. pData \in Seq(Word) /\ h \in Seq(Word) /\ B \in Seq(Word)
        BY <1>t, <2>3, <2>4
      <4>2. (pData \o h) \o B = pData \o (h \o B)
        BY <4>1, ConcatAssociative
      <4>3. QED
        BY <2>1, <4>2
    <3>13. InPlace(pData')
      BY <1>t, <3>10, <3>11, <3>12, AfterEvents
    <3>14. Sized(Len(pData'), event')
      <4>1. Len(pData') = Words(event) + Words(1)
        <5>1. Len(pData \o (h \o B)) = Len(pData) + Len(h \o B)
          BY <1>t, <3>10, Joined
        <5>2. Len(pData) = Words(event) /\ Len(h \o B) = Words(1)
          BY <3>10, <3>11 DEF Sized, Words
        <5>3. QED
          BY <3>12, <5>1, <5>2
      <4>2. Words(event + 1) = Words(event) + EventSize /\ event + 1 \in Nat
        BY <1>n, WordsOf
      <4>3. QED
        BY <2>1, <4>1, <4>2, Size DEF Sized, Words
    <3>15. Held' \o fifo' = FifoAfter(k)
      BY <2>1, <2>3, <2>4, ConcatEmptySeq
    <3>16. QED
      BY <2>1, <3>10, <3>13, <3>14, <3>15
  <2>7. QED
    BY <1>k, <2>1, <2>6
<1>11. CASE Save
  <2>1. /\ fifo' = fifo /\ nextEvent' = nextEvent /\ built' = built /\ pData' = pData
        /\ cNEvents' = cNEvents /\ call' = call /\ pc = "save"
    BY <1>11 DEF Save, firmware, builderVars, callVars
  <2>2. Held = <<>> /\ Fresh /\ Taken = pData
    BY <2>1 DEF Held, Fresh, Taken, Reading, CallInv
  <2>3. CASE depth > 0
    <3>1. pc' = pc /\ last' = last /\ returned' = returned
      BY <1>11, <2>3 DEF Save
    <3>2. Held' = Held /\ Taken' = Taken /\ Count' = Count
      BY <2>1, <3>1 DEF Held, Taken, Reading, Count
    <3>3. Sane' => Sane
      BY <3>1, <3>2 DEF Sane
    <3>4. Sane' /\ Fresh' => Continues(Held' \o fifo', nextEvent', built')
      BY <2>1, <2>2, <3>2, <3>3 DEF PlaceInv
    <3>5. pc' \notin {"event", "poll", "rest"}
      BY <2>1, <3>1
    <3>6. Sane' => InPlace(pData') /\ Sized(Len(pData'), Count')
      BY <2>1, <3>2, <3>3 DEF PlaceInv
    <3>7. QED
      BY <1>k, <3>1, <3>4, <3>5, <3>6
  <2>4. CASE ~(depth > 0)
    <3>1. /\ pc' = "idle" /\ returned' = returned \o pData
          /\ last'.data = pData /\ last'.count = Count
      BY <1>11, <2>4 DEF Save
    <3>2. Held' = <<>>
      BY <3>1 DEF Held
    <3>3. Clean(returned') => Clean(returned) /\ Clean(pData)
      BY <1>t, <3>1, CleanParts
    <3>4. Clean(returned') => Sane
      BY <2>2, <3>3, NoEvents DEF Sane
    <3>5. Clean(returned') => InPlace(last'.data) /\ Sized(Len(last'.data), last'.count)
      BY <2>1, <3>1, <3>4 DEF PlaceInv
    <3>6. Sane' => Continues(Held' \o fifo', nextEvent', built')
      BY <2>1, <2>2, <3>2, <3>4 DEF PlaceInv, Sane
    <3>7. pc' \notin {"event", "poll", "rest", "save"}
      BY <3>1
    <3>8. QED
      BY <3>5, <3>6, <3>7 DEF PlaceInv
  <2>5. QED
    BY <2>3, <2>4
<1>12. CASE WordsPresent \/ PackageRequested \/ CountPackage \/ CountAvailable
  <2>1. /\ returned' = returned /\ last' = last /\ fifo' = fifo /\ nextEvent' = nextEvent
        /\ built' = built /\ pData' = pData /\ call' = call
        /\ pc \in {"words", "request", "package", "available"}
        /\ pc' \in {"request", "available", "package", "block", "take"}
    BY <1>12 DEF WordsPresent, PackageRequested, CountPackage, CountAvailable, firmware,
       builderVars, resultVars, callVars, history
  <2>2. Held = <<>> /\ Held' = <<>> /\ Fresh /\ Taken' = Taken
    BY <2>1 DEF Held, Taken, Reading, Fresh
  <2>3. Sane' => Sane
    BY <2>1, <2>2 DEF Sane
  <2>4. QED
    BY <1>m, <2>1, <2>2, <2>3
<1>13. CASE NothingYet
  <2>1. /\ returned' = returned /\ fifo' = fifo /\ nextEvent' = nextEvent /\ cNEvents' = 0
        /\ built' = built /\ pData' = pData /\ call' = call
        /\ pc \in {"words", "request", "available"}
    BY <1>13 DEF NothingYet, ReturnZero, firmware, builderVars, callVars
  <2>2. pc' = "save" \/ pc' = "idle"
    BY <1>13 DEF NothingYet, ReturnZero
  <2>3. \/ last' = last
        \/ last'.data = pData /\ last'.count = 0
    BY <1>13 DEF NothingYet, ReturnZero
  <2>4. pData = <<>> /\ call.op = "ReadData"
    BY <2>1 DEF PointInv, Reads
  <2>5. Held = <<>> /\ Held' = <<>> /\ Fresh /\ Taken = <<>>
    BY <2>1, <2>2, <2>4 DEF Held, Taken, Fresh
  <2>6. Sane' => Sane
    BY <2>1, <2>5, NoEvents DEF Sane
  <2>7. Sane' /\ Fresh' => Continues(Held' \o fifo', nextEvent', built')
    BY <2>1, <2>5, <2>6 DEF PlaceInv
  <2>8. InPlace(pData') /\ Sized(Len(pData'), Count')
    BY <2>1, <2>4, NoEvents DEF Count
  <2>9. Clean(returned') => InPlace(last'.data) /\ Sized(Len(last'.data), last'.count)
    BY <2>1, <2>3, <2>4, NoEvents DEF PlaceInv
  <2>10. pc' \notin {"event", "poll", "rest"}
    BY <2>2
  <2>11. QED
    BY <2>7, <2>8, <2>9, <2>10 DEF PlaceInv
<1>14. CASE ReadPackage
  <2> DEFINE B == ReadBlock(cNWords)
  <2>1. /\ returned' = returned /\ last' = last /\ fifo' = FifoAfter(cNWords)
        /\ nextEvent' = nextEvent /\ built' = built /\ cNEvents' = cNEvents /\ call' = call
        /\ pData' = B /\ pc = "block"
        /\ pc' = IF pFailed THEN "restart" ELSE "save"
    BY <1>14 DEF ReadPackage, callVars, history
  <2>2. pData = <<>> /\ call.op = "ReadData" /\ cNWords <= Len(fifo)
    BY <2>1 DEF PointInv, Reads, CountInv
  <2>3. Held = <<>> /\ Held' = <<>> /\ Fresh /\ Taken = <<>>
    BY <2>1, <2>2 DEF Held, Taken, Fresh
  <2>4. Sane' => Sane
    BY <2>1, <2>3, NoEvents DEF Sane
  <2>5. CASE pFailed
    BY <1>k, <2>1, <2>5 DEF Fresh
  <2>6. CASE ~pFailed
    <3>1. pc' = "save" /\ Count' = cNEvents
      BY <2>1, <2>2, <2>6 DEF Count
    <3>2. ASSUME Sane'
          PROVE  /\ InPlace(pData') /\ Sized(Len(pData'), Count')
                 /\ Continues(Held' \o fifo', nextEvent', built')
      <4>1. Continues(<<>> \o fifo, nextEvent, built)
        BY <2>3, <2>4, <3>2 DEF PlaceInv
      <4>2. Sized(Len(<<>>) + cNWords, cNEvents)
        <5>1. Len(<<>>) + cNWords = cNWords
          BY <1>n, EmptySeq
        <5>2. QED
          BY <2>1, <2>6, <5>1 DEF CountInv
      <4>3. /\ InPlace(<<>> \o B) /\ Sized(Len(<<>> \o B), cNEvents)
            /\ Continues(FifoAfter(cNWords), nextEvent, built)
        BY <1>t, <1>n, <2>2, <4>1, <4>2, BlockTaken
      <4>4. B \in Seq(Word) /\ FifoAfter(cNWords) \in Seq(Word)
        BY <1>t, <1>n, BlockParts
      <4>5. <<>> \o B = B /\ Held' \o fifo' = FifoAfter(cNWords)
        BY <2>1, <2>3, <4>4, ConcatEmptySeq
      <4>6. QED
        BY <2>1, <3>1, <4>3, <4>5
    <3>3. pc' \notin {"event", "poll", "rest"}
      BY <3>1
    <3>4. QED
      BY <1>k, <2>1, <3>2, <3>3
  <2>7. QED
    BY <2>5, <2>6
<1>15. CASE ReadAvailable
  <2> DEFINE k == Words(cNEvents)
             B == ReadBlock(k)
  <2>1. /\ returned' = returned /\ last' = last /\ fifo' = FifoAfter(k)
        /\ nextEvent' = nextEvent /\ built' = built /\ cNEvents' = cNEvents /\ call' = call
        /\ pData' = pData \o B /\ pc = "take" /\ pc' = "save"
    BY <1>15 DEF ReadAvailable, callVars, history, Words
  <2>2. /\ pData = <<>> /\ call.op = "ReadData" /\ k <= Len(fifo) /\ k \in Nat
        /\ Sized(k, cNEvents)
    BY <1>n, <2>1, WordsOf DEF PointInv, Reads, CountInv, Sized, Words
  <2>3. Held = <<>> /\ Held' = <<>> /\ Fresh /\ Taken = <<>> /\ Count' = cNEvents
    BY <2>1, <2>2 DEF Held, Taken, Fresh, Count
  <2>4. Sane' => Sane
    BY <2>1, <2>3, NoEvents DEF Sane
  <2> HIDE DEF k
  <2>5. ASSUME Sane'
        PROVE  /\ InPlace(pData') /\ Sized(Len(pData'), Count')
               /\ Continues(Held' \o fifo', nextEvent', built')
    <3>1. Continues(<<>> \o fifo, nextEvent, built)
      BY <2>3, <2>4, <2>5 DEF PlaceInv
    <3>2. Sized(Len(<<>>) + k, cNEvents)
      <4>1. Len(<<>>) + k = k
        BY <2>2, EmptySeq
      <4>2. QED
        BY <2>2, <4>1
    <3>3. /\ InPlace(<<>> \o B) /\ Sized(Len(<<>> \o B), cNEvents)
          /\ Continues(FifoAfter(k), nextEvent, built)
      BY <1>t, <1>n, <2>2, <3>1, <3>2, BlockTaken
    <3>4. B \in Seq(Word) /\ FifoAfter(k) \in Seq(Word)
      BY <1>t, <2>2, BlockParts
    <3>5. pData' = <<>> \o B /\ Held' \o fifo' = FifoAfter(k)
      BY <2>1, <2>2, <2>3, <3>4, ConcatEmptySeq
    <3>6. QED
      BY <2>1, <2>3, <3>3, <3>5
  <2>6. pc' \notin {"event", "poll", "rest"}
    BY <2>1
  <2>7. QED
    BY <1>k, <2>1, <2>5, <2>6
<1>16. QED
  BY <1>1, <1>2, <1>3, <1>4, <1>5, <1>6, <1>7, <1>8, <1>9, <1>10, <1>11, <1>12, <1>13, <1>14,
      <1>15
     DEF Next, Firmware, CallStep, RunStart, ReadNEventsStep, ReadDataStep

\* The invariant holds initially.
LEMMA DeliveryInit == Init => DeliveryInv
<1> SUFFICES ASSUME Init PROVE DeliveryInv
  OBVIOUS
<1>1. TypeOK /\ CallInv /\ BuildInv
  BY InitInv DEF IInv
<1>2. PointInv
  BY DEF Init, PointInv, NoResult, Call, Reads
<1>3. HoldInv
  <2>1. fifo = <<>> /\ Len(fifo) = 0 /\ pc = "idle" /\ config.packetNbr + 1 \in Nat
    BY <1>1 DEF Init, TypeOK, FirmwareOK
  <2>2. Multiple(0)
    BY Size DEF Multiple, Sized
  <2>3. 0 <= Words(config.packetNbr + 1)
    <3>1. Words(config.packetNbr + 1) \in Nat
      BY <2>1, WordsOf
    <3>2. QED
      BY <3>1
  <2>4. QED
    BY <2>1, <2>2, <2>3 DEF HoldInv
<1>4. CountInv
  BY DEF Init, CountInv
<1>5. PlaceInv
  <2>1. /\ fifo = <<>> /\ Held = <<>> /\ built = 0 /\ pc = "idle"
        /\ last.data = <<>> /\ last.count = 0
    BY DEF Init, Held, NoResult
  <2>2. Held \o fifo = <<>>
    BY <2>1, NoEvents, ConcatEmptySeq
  <2>3. QED
    BY <2>1, <2>2, NoEvents DEF PlaceInv
<1>6. QED
  BY <1>1, <1>2, <1>3, <1>4, <1>5 DEF DeliveryInv

\* DeliveryInv is inductive.
THEOREM DeliveryInvariance == Spec => []DeliveryInv
<1>1. Init => DeliveryInv
  BY DeliveryInit
<1>2. DeliveryInv /\ [Next]_vars => DeliveryInv'
  <2> SUFFICES ASSUME DeliveryInv, [Next]_vars PROVE DeliveryInv'
    OBVIOUS
  <2>1. TypeOK' /\ CallInv' /\ BuildInv'
    BY TypeStep, CallInvStep, BuildInvStep DEF DeliveryInv
  <2>2. PointInv' /\ HoldInv' /\ CountInv'
    BY PointInvStep, HoldInvStep, CountInvStep DEF DeliveryInv
  <2>3. PlaceInv'
    BY <2>1, PlaceInvStep DEF DeliveryInv
  <2>4. QED
    BY <2>1, <2>2, <2>3 DEF DeliveryInv
<1>3. QED
  BY <1>1, <1>2, PTL DEF Spec

\* Whatever attempts failed before, and however the builder goes on while
\* the code reads, a read that found its words in the FIFO gave its caller
\* whole events, as many as it says.
THEOREM DeliveryOfWholeEvents == Spec => []Delivered
<1>1. DeliveryInv => Delivered
  <2> SUFFICES ASSUME DeliveryInv, NoUnderrun PROVE Exact(last)
    BY DEF Delivered
  <2>1. returned \in Seq(Word) /\ last.data \in Seq(Word)
    BY DEF DeliveryInv, TypeOK, HistoryOK, Result
  <2>2. DOMAIN returned = 1 .. Len(returned)
    BY <2>1, LenProperties
  <2>3. Clean(returned)
    BY <2>2 DEF NoUnderrun, Clean
  <2>4. InPlace(last.data) /\ Sized(Len(last.data), last.count)
    BY <2>3 DEF DeliveryInv, PlaceInv
  <2>5. WholeEvents(last.data)
    BY <2>1, <2>4, EventsWhole
  <2>6. Len(last.data) = last.count * EventSize
    BY <2>4 DEF Sized, Words
  <2>7. QED
    BY <2>5, <2>6 DEF Exact
<1>2. QED
  BY <1>1, DeliveryInvariance, PTL

=============================================================================
