------------------------ MODULE PacketReadout_proofs ------------------------
(***************************************************************************)
(* Proofs about PacketReadout, with the I2C path of PacketI2c in its way:  *)
(* ReadNEvents() returns what NEventsRight says, on every board and for    *)
(* any numbers of modules, words, events and calls, and no call returns    *)
(* words that the firmware has not written; and about the I2C path: the    *)
(* replies fit, writes heal, and reads tell what the registers hold, for   *)
(* any chips and registers.                                                *)
(*                                                                         *)
(* The invariant of the data is PacketInv.  Its arithmetic is that of the  *)
(* size of an event: the first word of an event is a multiple of it, and   *)
(* so are the words of whole events.  That of the I2C path is OrderInv.    *)
(***************************************************************************)
EXTENDS PacketI2c, FiniteSetTheorems, TLAPS
-----------------------------------------------------------------------------
(* Quotients, remainders and multiples. *)

\* A quotient and a remainder are the only ones.
LEMMA Quotient ==
    ASSUME NEW E \in Nat \ {0}, NEW a \in Nat, NEW q \in Nat, NEW r \in Nat,
           r < E, a = E * q + r
    PROVE  a \div E = q /\ a % E = r
OBVIOUS

\* Every number has a quotient and a remainder.
LEMMA Divided ==
    ASSUME NEW E \in Nat \ {0}, NEW a \in Nat
    PROVE  /\ a \div E \in Nat /\ a % E \in Nat /\ a % E < E
           /\ a = E * (a \div E) + (a % E)
<1>1. /\ a \div E \in Nat /\ E * (a \div E) \in Nat
      /\ E * (a \div E) <= a /\ a < E * (a \div E) + E
  OBVIOUS
<1>2. a % E = a - E * (a \div E)
  OBVIOUS
<1> DEFINE p == E * (a \div E)
           r == a % E
<1>3. p \in Nat /\ p <= a /\ a < p + E /\ r = a - p
  BY <1>1, <1>2
<1> HIDE DEF p, r
<1>4. r \in Nat /\ r < E /\ a = p + r
  BY <1>3
<1> QED
  BY <1>1, <1>4 DEF p, r

\* A multiple.
LEMMA Multiple ==
    ASSUME NEW E \in Nat \ {0}, NEW q \in Nat
    PROVE  E * q \in Nat /\ (E * q) % E = 0 /\ (E * q) \div E = q
<1>1. E * q \in Nat
  OBVIOUS
<1> QED
  BY <1>1, Quotient, E * q = E * q + 0

\* Sums and differences of multiples are multiples.
LEMMA Multiples ==
    ASSUME NEW E \in Nat \ {0}, NEW a \in Nat, NEW b \in Nat, a % E = 0, b % E = 0
    PROVE  /\ (a + b) % E = 0 /\ (a + b) \div E = (a \div E) + (b \div E)
           /\ b <= a => (a - b) % E = 0
<1> DEFINE p == a \div E
           q == b \div E
<1>1. p \in Nat /\ q \in Nat /\ a = E * p /\ b = E * q
  BY Divided
<1> HIDE DEF p, q
<1>2. a + b = E * (p + q) /\ p + q \in Nat
  BY <1>1
<1>3. (a + b) % E = 0 /\ (a + b) \div E = p + q
  BY <1>2, Multiple
<1>4. ASSUME b <= a PROVE (a - b) % E = 0
  <2>1. q <= p
    BY <1>1, <1>4
  <2>2. a - b = E * (p - q) /\ p - q \in Nat
    BY <1>1, <2>1
  <2> QED
    BY <2>2, Multiple
<1> QED
  BY <1>3, <1>4 DEF p, q

\* As many whole events as there are words for.
LEMMA AtLeast ==
    ASSUME NEW E \in Nat \ {0}, NEW a \in Nat, NEW n \in Nat, E * n <= a
    PROVE  n <= a \div E
<1> DEFINE p == a \div E
<1>1. p \in Nat /\ a < E * p + E
  BY Divided
<1> HIDE DEF p
<1>2. E * n < E * (p + 1)
  BY <1>1
<1>3. n < p + 1
  BY <1>1, <1>2
<1> QED
  BY <1>1, <1>3 DEF p

\* The words of whole events.
LEMMA Wholes ==
    ASSUME NEW E \in Nat \ {0}, NEW w \in Nat
    PROVE  /\ E * (w \div E) \in Nat /\ (E * (w \div E)) % E = 0
           /\ E * (w \div E) <= w
<1>1. w \div E \in Nat /\ w % E \in Nat /\ w = E * (w \div E) + (w % E)
  BY Divided
<1> QED
  BY <1>1, Multiple

\* The first word of the next whole event.
LEMMA Beyond ==
    ASSUME NEW E \in Nat \ {0}, NEW w \in Nat
    PROVE  /\ E * ((w + E - 1) \div E) \in Nat
           /\ (E * ((w + E - 1) \div E)) % E = 0
           /\ w <= E * ((w + E - 1) \div E)
           /\ w % E = 0 => E * ((w + E - 1) \div E) = w
           /\ w % E # 0 => E * ((w + E - 1) \div E) = E * (w \div E) + E
<1> DEFINE q == w \div E
           r == w % E
<1>1. q \in Nat /\ r \in Nat /\ r < E /\ w = E * q + r
  BY Divided
<1> HIDE DEF q, r
<1>2. CASE r = 0
  <2>1. w + E - 1 = E * q + (E - 1) /\ E - 1 \in Nat /\ w + E - 1 \in Nat
    BY <1>1, <1>2
  <2>2. (w + E - 1) \div E = q
    BY <1>1, <2>1, Quotient
  <2> QED
    BY <1>1, <1>2, <2>2, Multiple DEF q, r
<1>3. CASE r # 0
  <2>0. q + 1 \in Nat /\ E * (q + 1) = E * q + E
    BY <1>1
  <2>1. w + E - 1 = E * (q + 1) + (r - 1) /\ r - 1 \in Nat /\ r - 1 < E /\ w + E - 1 \in Nat
    BY <1>1, <1>3, <2>0
  <2>2. (w + E - 1) \div E = q + 1
    BY <1>1, <2>0, <2>1, Quotient
  <2>3. E * (q + 1) \in Nat /\ (E * (q + 1)) % E = 0
    BY <2>0, Multiple
  <2>4. w <= E * (q + 1)
    BY <1>1, <2>0
  <2> QED
    BY <1>3, <2>0, <2>2, <2>3, <2>4 DEF q, r
<1> QED
  BY <1>2, <1>3

\* A word more begins an event or goes on with it.
LEMMA OneMore ==
    ASSUME NEW E \in Nat \ {0}, NEW w \in Nat
    PROVE  E * ((w + 1 + E - 1) \div E)
              = IF w % E = 0 THEN E * ((w + E - 1) \div E) + E ELSE E * ((w + E - 1) \div E)
<1> DEFINE q == w \div E
           r == w % E
<1>1. q \in Nat /\ r \in Nat /\ r < E /\ w = E * q + r
  BY Divided
<1> HIDE DEF q, r
<1>2. w + 1 + E - 1 = E * (q + 1) + r /\ q + 1 \in Nat /\ w + 1 + E - 1 \in Nat
  <2>1. E * (q + 1) = E * q + E
    BY <1>1
  <2> QED
    BY <1>1, <2>1
<1>3. (w + 1 + E - 1) \div E = q + 1
  BY <1>1, <1>2, Quotient
<1>4. E * (q + 1) = E * q + E /\ E * q \in Nat
  BY <1>1
<1>5. (w + E - 1) \div E = IF r = 0 THEN q ELSE q + 1
  <2>1. CASE r = 0
    <3>1. w + E - 1 = E * q + (E - 1) /\ E - 1 \in Nat /\ w + E - 1 \in Nat
      BY <1>1, <2>1
    <3> QED
      BY <1>1, <2>1, <3>1, Quotient
  <2>2. CASE r # 0
    <3>1. w + E - 1 = E * (q + 1) + (r - 1) /\ r - 1 \in Nat /\ r - 1 < E
      BY <1>1, <1>4, <2>2
    <3>2. w + E - 1 \in Nat /\ q + 1 \in Nat
      BY <1>1
    <3> QED
      BY <2>2, <3>1, <3>2, Quotient
  <2> QED
    BY <2>1, <2>2
<1> QED
  BY <1>3, <1>4, <1>5 DEF r

\* A difference, or 0 if it is negative.
LEMMA MaxOfTwo ==
    ASSUME NEW a \in Int
    PROVE  Max({0, a}) = IF a > 0 THEN a ELSE 0
BY DEF Max

\* What is in the buffer: nothing, or what was there and more.
LEMMA Nothing ==
    ASSUME NEW r \in Nat, NEW w \in Nat, w = r, NEW n \in Nat
    PROVE  w - r = 0 /\ w - r <= n
OBVIOUS

\* What was in the buffer still is when more has come.
LEMMA More ==
    ASSUME NEW n \in Nat, NEW r \in Nat, NEW w \in Nat, NEW v \in Nat, w <= v, n <= w - r
    PROVE  n <= v - r
OBVIOUS

\* The size of an event is that of the board.
LEMMA Board ==
    ASSUME PacketTypeOK
    PROVE  /\ EventSize \in Nat \ {0} /\ Words \in Nat \ {0} /\ MaxPacket \in Nat \ {0}
           /\ Ic => EventSize = 1
           /\ ~Ic => EventSize = Words
           /\ NEvents \subseteq Nat \ {0} /\ UserPacket \in Nat \ {0} /\ UserCycle \in Nat
BY PacketAssumption DEF PacketAssumption, EventSize

\* The next whole event begins where the last one ends, or here.
LEMMA BoundaryIs ==
    ASSUME PacketTypeOK
    PROVE  /\ Boundary \in Nat /\ Boundary % EventSize = 0 /\ written <= Boundary
           /\ written % EventSize = 0 => Boundary = written
           /\ written % EventSize # 0 => Boundary = EventSize * (written \div EventSize) + EventSize
<1>1. EventSize \in Nat \ {0} /\ written \in Nat
  BY Board DEF PacketTypeOK
<1> QED
  BY <1>1, Beyond DEF Boundary

\* The packets of a call are as many as are needed, and no more.
LEMMA PacketsAre ==
    ASSUME NEW n \in NEvents
    PROVE  LET p == Packets(n) IN
           /\ p.size \in Nat \ {0} /\ p.count \in Nat \ {0}
           /\ n <= p.size * p.count /\ p.size * p.count < n + p.size
           /\ (n <= MaxPacket \/ n % MaxPacket = 0) => p.size * p.count = n
<1> DEFINE s == Packets(n).size
           c == Packets(n).count
<1>1. n \in Nat \ {0} /\ MaxPacket \in Nat \ {0}
  BY PacketAssumption DEF PacketAssumption
<1>2. /\ s = IF n <= MaxPacket THEN n
             ELSE IF n % MaxPacket = 0 THEN MaxPacket ELSE n % MaxPacket
      /\ c = (n + s - 1) \div s
  BY DEF Packets
<1> HIDE DEF s, c
<1>3. s \in Nat \ {0}
  BY <1>1, <1>2, Divided
<1>4. n + s - 1 \in Nat
  BY <1>1, <1>3
<1>5. /\ c \in Nat /\ (n + s - 1) % s \in Nat /\ (n + s - 1) % s < s
      /\ n + s - 1 = s * c + ((n + s - 1) % s)
  BY <1>2, <1>3, <1>4, Divided
<1>6. s * c \in Nat /\ n <= s * c /\ s * c < n + s
  BY <1>1, <1>3, <1>5
<1>7. c # 0
  BY <1>1, <1>3, <1>6
<1>8. ASSUME n <= MaxPacket PROVE s * c = n
  <2>1. n + s - 1 = s * 1 + (n - 1) /\ n - 1 \in Nat /\ n - 1 < s
    BY <1>1, <1>2, <1>8
  <2>2. c = 1
    BY <1>2, <1>3, <1>4, <2>1, Quotient
  <2> QED
    BY <1>1, <1>2, <1>8, <2>2
<1>9. ASSUME n > MaxPacket, n % MaxPacket = 0 PROVE s * c = n
  <2>1. s = MaxPacket
    BY <1>1, <1>2, <1>9
  <2>2. n \div s \in Nat /\ n = s * (n \div s) + (n % s) /\ n % s = 0
    BY <1>1, <1>9, <2>1, Divided
  <2>3. n + s - 1 = s * (n \div s) + (s - 1) /\ s - 1 \in Nat
    BY <1>1, <1>3, <2>2
  <2> DEFINE q == n \div s
  <2>4. q \in Nat /\ n + s - 1 = s * q + (s - 1) /\ s - 1 \in Nat /\ s - 1 < s /\ n = s * q
    BY <1>1, <1>3, <2>2, <2>3
  <2> HIDE DEF q
  <2>5. c = q
    BY <1>2, <1>3, <1>4, <2>4, Quotient
  <2> QED
    BY <2>4, <2>5
<1> QED
  BY <1>1, <1>3, <1>5, <1>6, <1>7, <1>8, <1>9 DEF s, c

-----------------------------------------------------------------------------
(* The invariant holds at first, and every step keeps it. *)

\* The first state.
LEMMA InitPacketInv == InitPacket => PacketInv
<1> SUFFICES ASSUME InitPacket PROVE PacketInv
  OBVIOUS
<1> USE DEF InitPacket
<1>1. PacketTypeOK
  BY PacketAssumption DEF PacketAssumption, PacketTypeOK, NoData
<1>2. CallOK /\ PacketsOK /\ EventsOK /\ NEventsRight
  BY DEF CallOK, PacketsOK, EventsOK, NEventsRight, NEventsSteps, NoCall
<1>3. BufferOK
  BY PacketAssumption DEF PacketAssumption, BufferOK, NoData
<1> QED
  BY <1>1, <1>2, <1>3 DEF PacketInv

\* The firmware writes a word or sends a trigger.
LEMMA FirmwareInv == PacketInv /\ Firmware => PacketInv'
<1> SUFFICES ASSUME PacketInv, Firmware PROVE PacketInv'
  OBVIOUS
<1> USE DEF PacketInv
<1>0. UNCHANGED <<board, ext, gen, tunes, running, read, config, tune, pc, call, calls,
                  fNEventsperAcquistion, cycles, cNWords, pData, result, since>>
  BY DEF Firmware, Trigger, LostTrigger, BuildEvent, setup, locals
<1>1. /\ EventSize \in Nat \ {0} /\ Words \in Nat \ {0} /\ written \in Nat /\ read \in Nat
      /\ left \in Nat \cup {NoEnd} /\ nevents \in Nat \ {0}
      /\ Ic => EventSize = 1
      /\ ~Ic => EventSize = Words
  BY Board DEF PacketTypeOK
<1>2. (Ic <=> Ic') /\ EventSize' = EventSize /\ nevents' = nevents /\ Ncycle' = Ncycle
  BY <1>0 DEF Ic, EventSize, config
<1>3. \/ Ic /\ written' = written + 1 /\ left' = left /\ written - read # nevents
      \/ /\ ~Ic /\ written' = written + 1 /\ running /\ written % Words = 0
         /\ (ext /\ left' = left) \/ (gen /\ left # 0 /\ Sent)
      \/ ~Ic /\ written' = written + 1 /\ left' = left /\ written % Words # 0
      \/ ~Ic /\ written' = written /\ ~running /\ Sent
  <2>1. CASE Trigger
    BY <2>1 DEF Trigger, Ready
  <2>2. CASE LostTrigger
    BY <2>2 DEF LostTrigger
  <2>3. CASE BuildEvent
    BY <2>3 DEF BuildEvent
  <2> QED
    BY <2>1, <2>2, <2>3 DEF Firmware
<1>4. written' \in Nat /\ written <= written' /\ left' \in Nat \cup {NoEnd}
  BY <1>1, <1>3 DEF Sent, NoEnd
<1>5. PacketTypeOK'
  BY <1>0, <1>2, <1>4 DEF PacketTypeOK
<1>6. CallOK'
  BY <1>0, <1>2 DEF CallOK
<1>7. BufferOK'
  <2>1. BufferOK
    OBVIOUS
  <2>2. Ic => written' - read <= nevents
    BY <1>1, <1>3, <2>1 DEF BufferOK
  <2>3. pData.to <= read /\ read <= written'
    BY <1>1, <1>4, <2>1 DEF BufferOK
  <2>4. cNWords \in Nat
    BY DEF PacketTypeOK
  <2>5. pc \in {"take", "stop"} => cNWords <= written' - read
    <3>1. pc \in {"take", "stop"} => cNWords <= written - read
      BY <2>1 DEF BufferOK
    <3>2. read \in Nat /\ written \in Nat /\ written' \in Nat /\ written <= written'
      BY <1>1, <1>4
    <3> QED
      BY <2>4, <3>1, <3>2, More
  <2> QED
    BY <1>0, <1>2, <2>1, <2>2, <2>3, <2>5 DEF BufferOK
<1>8. PacketsOK'
  BY <1>0, <1>2 DEF PacketsOK, config
<1>9. EventsOK'
  <2>1. ASSUME pc \in {"events", "stop"}, gen, ~ext
        PROVE  left' \in 0 .. call.n /\ Boundary' = read + Words * (call.n - left')
    <3>1. ~Ic /\ call.n \in Nat /\ running /\ left \in 0 .. call.n
          /\ Boundary = read + Words * (call.n - left)
      BY <2>1, Board DEF EventsOK, CallOK, NEventsSteps
    <3>2. Boundary' = EventSize * ((written' + EventSize - 1) \div EventSize)
      BY <1>2 DEF Boundary
    <3>3. CASE written' = written + 1 /\ written % Words = 0
      <4>1. Sent /\ left # 0
        BY <1>1, <1>3, <2>1, <3>1, <3>3
      <4>2. left' = left - 1 /\ left' \in 0 .. call.n
        BY <3>1, <4>1 DEF Sent
      <4>3. Boundary' = Boundary + Words
        BY <1>1, <3>1, <3>2, <3>3, OneMore DEF Boundary
      <4>4. Words * (call.n - left') = Words * (call.n - left) + Words
        BY <1>1, <3>1, <4>2
      <4> DEFINE x == Words * (call.n - left)
                 y == Words * (call.n - left')
      <4>5. x \in Int /\ y = x + Words
        BY <1>1, <3>1, <4>4
      <4> HIDE DEF x, y
      <4>6. Boundary' = read + y
        BY <1>1, <3>1, <4>3, <4>5 DEF x
      <4> QED
        BY <4>2, <4>6 DEF y
    <3>4. CASE written' = written + 1 /\ written % Words # 0 /\ left' = left
      <4>1. Boundary' = Boundary
        BY <1>1, <3>1, <3>2, <3>4, OneMore DEF Boundary
      <4> QED
        BY <3>1, <3>4, <4>1
    <3> QED
      BY <1>3, <3>1, <3>3, <3>4, <2>1
  <2> QED
    BY <1>0, <2>1 DEF EventsOK, config
<1>10. NEventsRight'
  BY <1>0, <1>2 DEF NEventsRight, Whole, Size
<1> QED
  BY <1>5, <1>6, <1>7, <1>8, <1>9, <1>10

\* What every step but those of the firmware leaves alone, and what follows.
LEMMA Kept ==
    ASSUME PacketInv, setup' = setup
    PROVE  /\ (Ic <=> Ic') /\ EventSize' = EventSize
           /\ board' \in Boards /\ ext' \in BOOLEAN /\ gen' \in BOOLEAN
           /\ (Ic' => ~ext' /\ ~gen')
           /\ ext' = ext /\ gen' = gen
BY DEF setup, PacketInv, PacketTypeOK, Ic, EventSize

\* Outside ReadNEvents() only types, the buffer and the call matter.
LEMMA Elsewhere ==
    ASSUME PacketTypeOK', BufferOK', CallOK', pc' \notin NEventsSteps,
           call'.op # "ReadNEvents"
    PROVE  PacketInv'
BY DEF PacketInv, PacketsOK, EventsOK, NEventsRight, NEventsSteps

\* The I2C path touches neither the buffer nor what a call has read.
LEMMA I2cInv == PacketInv /\ (I2cCalls \/ I2c) => PacketInv'
<1> SUFFICES ASSUME PacketInv, I2cCalls \/ I2c PROVE PacketInv'
  OBVIOUS
<1>1. /\ UNCHANGED <<setup, daq, config, tune, locals, since>>
      /\ \/ Called("I2c", 0, TRUE) /\ pc' = "send"
         \/ /\ call' = call /\ pc \in {"send", "replies"}
            /\ pc' \in {"send", "replies", "idle", "exited"}
  <2>1. CASE I2cCalls
    BY <2>1 DEF I2cCalls, CallWrite, CallBroadcast, CallRead, Begin
  <2>2. CASE WriteI2C \/ BCWriteCbcBlockReg \/ ReadCbcBlockReg
    BY <2>2 DEF WriteI2C, BCWriteCbcBlockReg, ReadCbcBlockReg, readout, packetVars
  <2>3. CASE WriteCbcBlockReg
    BY <2>3 DEF WriteCbcBlockReg, WriteAgain, WriteReturns, WriteThrows, WriteCrashes, readout
  <2>4. CASE I2c
    BY <2>2, <2>3, <2>4 DEF I2c, IcFc7WriteI2C, IcGlibWriteI2C, Cbc3WriteI2C,
       IcFc7WriteCbcBlockReg, IcGlibWriteCbcBlockReg, Cbc3WriteCbcBlockReg,
       IcFc7BCWriteCbcBlockReg, IcGlibBCWriteCbcBlockReg, Cbc3BCWriteCbcBlockReg
  <2> QED
    BY <2>1, <2>4
<1>2. call'.op # "ReadNEvents"
  <2>1. CASE Called("I2c", 0, TRUE)
    BY <2>1 DEF Called
  <2>2. CASE call' = call /\ pc \in {"send", "replies"}
    BY <2>2 DEF PacketInv, CallOK, NEventsSteps
  <2> QED
    BY <1>1, <2>1, <2>2
<1>3. pc' \in {"send", "replies", "idle", "exited"}
  BY <1>1
<1>4. (Ic <=> Ic')
  BY <1>1, Kept
<1>5. PacketTypeOK'
  BY <1>1, Kept DEF PacketInv, PacketTypeOK, setup, daq, config, locals
<1>6. BufferOK'
  BY <1>1, <1>3, <1>4 DEF PacketInv, BufferOK, daq, config, locals
<1>7. CallOK'
  BY <1>2, <1>3 DEF CallOK, NEventsSteps
<1> QED
  BY <1>2, <1>3, <1>5, <1>6, <1>7, Elsewhere DEF NEventsSteps

\* A reset leaves an empty buffer.
LEMMA EmptyBuffer ==
    ASSUME PacketInv, Empty, setup' = setup
    PROVE  /\ read' \in Nat /\ written' = read' /\ read <= read'
           /\ written' = Boundary /\ read' % EventSize = 0
           /\ Boundary' = read'
<1>1. /\ read \in Nat /\ written \in Nat /\ read <= written /\ EventSize \in Nat \ {0}
      /\ Boundary \in Nat /\ Boundary % EventSize = 0 /\ written <= Boundary
  BY BoundaryIs, Board DEF PacketInv, PacketTypeOK, BufferOK
<1>2. /\ read' = Boundary /\ written' = Boundary
  BY DEF Empty
<1>3. EventSize' = EventSize
  BY Kept
<1>4. Boundary' = written'
  BY <1>1, <1>2, <1>3, Beyond DEF Boundary
<1> QED
  BY <1>1, <1>2, <1>4

\* Configuration leaves an empty buffer; the tune of the lines leaves it alone.
LEMMA ConfigureInv == PacketInv /\ Configure => PacketInv'
<1> SUFFICES ASSUME PacketInv, Configure PROVE PacketInv'
  OBVIOUS
<1> USE DEF PacketInv
<1>1. /\ pc \in {"off", "dctt"} /\ pc' \in {"idle", "dctt", "exited"} /\ setup' = setup
      /\ UNCHANGED <<call, locals, since>>
      /\ \/ UNCHANGED <<daq, config>>
         \/ /\ Empty /\ running' = FALSE /\ left' \in {0, left}
            /\ nevents' \in {nevents, UserPacket} /\ Ncycle' \in {Ncycle, UserCycle}
  <2>1. CASE IcFc7ConfigureBoard \/ IcGlibConfigureBoard
    BY <2>1 DEF IcFc7ConfigureBoard, IcGlibConfigureBoard, IcConfigureBoard
  <2>2. CASE Cbc3ConfigureBoard
    BY <2>2 DEF Cbc3ConfigureBoard
  <2>3. CASE DataClockTimingTune
    BY <2>3 DEF DataClockTimingTune
  <2> QED
    BY <2>1, <2>2, <2>3 DEF Configure
<1>2. call'.op # "ReadNEvents"
  BY <1>1 DEF CallOK, NEventsSteps
<1>3. (Ic <=> Ic')
  BY <1>1, Kept
<1>4. CallOK'
  BY <1>1, <1>2 DEF CallOK, NEventsSteps
<1>5. CASE UNCHANGED <<daq, config>>
  <2>1. PacketTypeOK'
    BY <1>1, <1>5, Kept DEF PacketTypeOK, setup, daq, config, locals
  <2>2. BufferOK'
    BY <1>1, <1>3, <1>5 DEF BufferOK, daq, config, locals
  <2> QED
    BY <1>1, <1>2, <1>4, <2>1, <2>2, Elsewhere DEF NEventsSteps
<1>6. CASE /\ Empty /\ running' = FALSE /\ left' \in {0, left}
           /\ nevents' \in {nevents, UserPacket} /\ Ncycle' \in {Ncycle, UserCycle}
  <2>1. /\ read' \in Nat /\ written' = read' /\ read <= read' /\ read \in Nat
        /\ nevents' \in Nat \ {0} /\ Ncycle' \in Nat /\ left' \in Nat \cup {NoEnd}
    BY <1>1, <1>6, EmptyBuffer, Board DEF PacketTypeOK
  <2>2. PacketTypeOK'
    BY <1>1, <1>6, <2>1, Kept DEF PacketTypeOK, locals
  <2>3. pData' = pData /\ pData.to \in Nat /\ pData.to <= read
    BY <1>1 DEF PacketTypeOK, BufferOK, locals
  <2>4. pData'.to <= read' /\ read' <= written' /\ written' - read' <= nevents'
    <3>1. pData'.to <= read' /\ read' <= written'
      BY <2>1, <2>3
    <3>2. written' - read' <= nevents'
      BY <2>1, Nothing
    <3> QED
      BY <3>1, <3>2
  <2>5. BufferOK'
    BY <1>1, <2>4 DEF BufferOK
  <2> QED
    BY <1>1, <1>2, <1>4, <2>2, <2>5, Elsewhere DEF NEventsSteps
<1> QED
  BY <1>1, <1>5, <1>6

\* Runs start and stop, pause and go on.
LEMMA RunControlInv == PacketInv /\ RunControl => PacketInv'
<1> SUFFICES ASSUME PacketInv, RunControl PROVE PacketInv'
  OBVIOUS
<1> USE DEF PacketInv
<1>1. /\ pc = "idle" /\ pc' = "idle" /\ call'.op # "ReadNEvents"
      /\ UNCHANGED <<setup, config, locals, since>> /\ running' \in BOOLEAN
      /\ Empty \/ UNCHANGED <<read, written>>
      /\ left' \in {left, 0, NoEnd, Ncycle}
  <2>0. ASSUME NEW op \in {"Start", "Stop", "Pause", "Resume"}, Control(op)
        PROVE  /\ pc = "idle" /\ pc' = "idle" /\ call'.op # "ReadNEvents"
               /\ UNCHANGED <<setup, config, locals, since>>
    BY <2>0 DEF Control, Called
  <2>1. CASE IcFc7Start \/ IcGlibStart
    BY <2>0, <2>1 DEF IcFc7Start, IcGlibStart, IcStart
  <2>2. CASE IcFc7Stop \/ IcGlibStop
    BY <2>0, <2>2 DEF IcFc7Stop, IcGlibStop, IcStop
  <2>3. CASE IcPause \/ IcResume
    BY <2>0, <2>3 DEF IcPause, IcResume
  <2>4. CASE Cbc3Start
    BY <2>0, <2>4 DEF Cbc3Start, Cbc3Reset
  <2>5. CASE Cbc3Stop \/ Cbc3Pause \/ Cbc3Resume
    BY <2>0, <2>5 DEF Cbc3Stop, Cbc3Pause, Cbc3Resume
  <2> QED
    BY <2>1, <2>2, <2>3, <2>4, <2>5 DEF RunControl
<1>2. (Ic <=> Ic')
  BY <1>1, Kept
<1>3. CallOK'
  BY <1>1 DEF CallOK, NEventsSteps
<1>4. /\ read' \in Nat /\ read <= read' /\ written' \in Nat
      /\ \/ read' = read /\ written' = written
         \/ written' = read'
  BY <1>1, EmptyBuffer DEF PacketTypeOK
<1>5. left' \in Nat \cup {NoEnd}
  BY <1>1 DEF PacketTypeOK
<1>6. PacketTypeOK'
  BY <1>1, <1>4, <1>5, Kept DEF PacketTypeOK, config, locals
<1>7. BufferOK'
  <2>1. /\ pData' = pData /\ pData.to \in Nat /\ pData.to <= read /\ read \in Nat
        /\ read <= written /\ written \in Nat
        /\ nevents' = nevents /\ nevents \in Nat /\ (Ic => written - read <= nevents)
    BY <1>1 DEF PacketTypeOK, BufferOK, locals, config
  <2>2. pData'.to <= read' /\ read' <= written'
    BY <1>4, <2>1
  <2>3. Ic => written' - read' <= nevents'
    <3>1. CASE read' = read /\ written' = written
      BY <2>1, <3>1
    <3>2. CASE written' = read'
      <4>1. written' - read' <= nevents'
        BY <1>4, <2>1, <3>2, Nothing
      <4> QED
        BY <4>1
    <3> QED
      BY <1>4, <3>1, <3>2
  <2> QED
    BY <1>1, <1>2, <2>2, <2>3 DEF BufferOK
<1> QED
  BY <1>1, <1>3, <1>6, <1>7, Elsewhere DEF NEventsSteps

\* The words of whole events in the buffer are in the buffer.
LEMMA CompleteIs ==
    ASSUME PacketInv
    PROVE  /\ Complete \in Nat /\ Complete <= written - read
           /\ read % EventSize = 0 =>
                 Complete % EventSize = 0 /\ Complete = EventSize * (written \div EventSize) - read
<1> DEFINE W == EventSize * (written \div EventSize)
<1>1. EventSize \in Nat \ {0} /\ written \in Nat /\ read \in Nat /\ read <= written
  BY Board DEF PacketInv, PacketTypeOK, BufferOK
<1>2. W \in Nat /\ W % EventSize = 0 /\ W <= written
  BY <1>1, Wholes
<1>3. ASSUME read % EventSize = 0 PROVE read <= W
  <2>1. read = EventSize * (read \div EventSize) /\ read \div EventSize \in Nat
    BY <1>1, <1>3, Divided
  <2>2. read \div EventSize <= written \div EventSize
    BY <1>1, <2>1, AtLeast
  <2>3. written \div EventSize \in Nat
    BY <1>1, Divided
  <2> DEFINE p == read \div EventSize
             q == written \div EventSize
  <2>4. p \in Nat /\ q \in Nat /\ p <= q /\ read = EventSize * p /\ W = EventSize * q
    BY <2>1, <2>2, <2>3
  <2> HIDE DEF p, q, W
  <2> QED
    BY <1>1, <2>4
<1> HIDE DEF W
<1>4. Complete = Max({0, W - read})
  BY DEF Complete, W
<1>5. Complete = IF W - read > 0 THEN W - read ELSE 0
  BY <1>1, <1>2, <1>4, MaxOfTwo
<1>6. Complete \in Nat /\ Complete <= written - read
  BY <1>1, <1>2, <1>5
<1>7. ASSUME read % EventSize = 0 PROVE Complete % EventSize = 0 /\ Complete = W - read
  <2>1. Complete = W - read
    BY <1>1, <1>2, <1>3, <1>5, <1>7
  <2> QED
    BY <1>1, <1>2, <1>3, <1>7, <2>1, Multiples
<1> QED
  BY <1>6, <1>7 DEF W

\* ReadData().
LEMMA CallReadDataInv == PacketInv /\ CallReadData => PacketInv'
<1> SUFFICES ASSUME PacketInv, CallReadData PROVE PacketInv'
  OBVIOUS
<1> USE DEF PacketInv
<1>1. /\ pc = "idle" /\ call'.op = "ReadData" /\ pData' = NoData /\ result' = 0
      /\ since' = written /\ pc' = IF Ic THEN "packet" ELSE "words"
      /\ fNEventsperAcquistion' = IF Ic THEN nevents ELSE fNEventsperAcquistion
      /\ UNCHANGED <<setup, daq, config, tune, cycles, cNWords>>
  BY DEF CallReadData, Called
<1>2. (Ic <=> Ic')
  BY <1>1, Kept
<1>3. CallOK'
  BY <1>1, <1>2 DEF CallOK, NEventsSteps
<1>4. PacketTypeOK'
  <2>1. since' \in Nat /\ pData' \in [from : Nat, to : Nat] /\ fNEventsperAcquistion' \in Nat
    BY <1>1 DEF PacketTypeOK, NoData
  <2> QED
    BY <1>1, <2>1, Kept DEF PacketTypeOK, daq, config
<1>5. BufferOK'
  BY <1>1, <1>2 DEF BufferOK, PacketTypeOK, daq, config, NoData
<1> QED
  BY <1>1, <1>3, <1>4, <1>5, Elsewhere DEF NEventsSteps

\* A packet is there, and all of it is taken.
LEMMA IcReadDataInv == PacketInv /\ IcReadData => PacketInv'
<1> SUFFICES ASSUME PacketInv, IcReadData PROVE PacketInv'
  OBVIOUS
<1> USE DEF PacketInv
<1>1. /\ pc = "packet" /\ pc' = "idle" /\ call' = call
      /\ UNCHANGED <<setup, running, written, left, config, fNEventsperAcquistion,
                     cycles, cNWords, since>>
      /\ \/ UNCHANGED <<read, pData, result>>
         \/ /\ Ready /\ Take(fNEventsperAcquistion)
            /\ result' = fNEventsperAcquistion
  BY DEF IcReadData
<1>2. (Ic <=> Ic')
  BY <1>1, Kept
<1>3. call'.op # "ReadNEvents" /\ Ic
  BY <1>1 DEF CallOK, NEventsSteps
<1>4. CallOK'
  BY <1>1, <1>3 DEF CallOK, NEventsSteps
<1>5. CASE UNCHANGED <<read, pData, result>>
  <2>1. PacketTypeOK'
    BY <1>1, <1>5, Kept DEF PacketTypeOK, config
  <2>2. BufferOK'
    BY <1>1, <1>2, <1>5 DEF BufferOK, config
  <2> QED
    BY <1>1, <1>3, <1>4, <2>1, <2>2, Elsewhere DEF NEventsSteps
<1>6. CASE Ready /\ Take(fNEventsperAcquistion) /\ result' = fNEventsperAcquistion
  <2>1. /\ read \in Nat /\ written \in Nat /\ nevents \in Nat
        /\ fNEventsperAcquistion = nevents /\ written - read = nevents
    BY <1>1, <1>6 DEF PacketTypeOK, BufferOK, Ready
  <2>2. /\ pData' = [from |-> read, to |-> read + nevents] /\ read' = read + nevents
        /\ result' = nevents
    BY <1>6, <2>1 DEF Take
  <2>3. read' = written /\ pData'.to = read' /\ read' \in Nat
    BY <2>1, <2>2
  <2>4. PacketTypeOK'
    BY <1>1, <2>1, <2>2, <2>3, Kept DEF PacketTypeOK, config
  <2>5. written' - read' <= nevents'
    BY <1>1, <2>1, <2>3, Nothing DEF config
  <2>6. BufferOK'
    BY <1>1, <2>1, <2>3, <2>5 DEF BufferOK
  <2> QED
    BY <1>1, <1>3, <1>4, <2>4, <2>6, Elsewhere DEF NEventsSteps
<1> QED
  BY <1>1, <1>5, <1>6

\* The words there are when the status is read are still there later.
LEMMA Cbc3PollInv == PacketInv /\ Cbc3Poll => PacketInv'
<1> SUFFICES ASSUME PacketInv, Cbc3Poll PROVE PacketInv'
  OBVIOUS
<1> USE DEF PacketInv
<1>1. /\ pc \in {"words", "words again"} /\ pc' \in {"words again", "idle", "take"} /\ call' = call
      /\ cNWords' \in {Complete, written - read}
      /\ UNCHANGED <<setup, daq, config, fNEventsperAcquistion, cycles, pData, result, since>>
  BY DEF Cbc3Poll
<1>2. (Ic <=> Ic')
  BY <1>1, Kept
<1>3. call'.op # "ReadNEvents" /\ ~Ic
  BY <1>1 DEF CallOK, NEventsSteps
<1>4. CallOK'
  BY <1>1, <1>2, <1>3 DEF CallOK, NEventsSteps
<1>5. cNWords' \in Nat /\ cNWords' <= written - read
  <2>1. read \in Nat /\ written \in Nat /\ read <= written
    BY DEF PacketTypeOK, BufferOK
  <2>2. written - read \in Nat /\ written - read <= written - read
    BY <2>1
  <2> QED
    BY <1>1, <2>2, CompleteIs
<1>6. PacketTypeOK'
  BY <1>1, <1>5, Kept DEF PacketTypeOK, daq, config
<1>7. BufferOK'
  BY <1>1, <1>2, <1>3, <1>5 DEF BufferOK, daq, config
<1> QED
  BY <1>1, <1>3, <1>4, <1>6, <1>7, Elsewhere DEF NEventsSteps

\* A read of no more words than there are.
LEMMA Taken ==
    ASSUME NEW r \in Nat, NEW w \in Nat, NEW n \in Nat, n <= w - r
    PROVE  r + n \in Nat /\ r <= r + n /\ r + n <= w
OBVIOUS

\* Those words are taken.
LEMMA Cbc3ReadDataInv == PacketInv /\ Cbc3ReadData => PacketInv'
<1> SUFFICES ASSUME PacketInv, Cbc3ReadData PROVE PacketInv'
  OBVIOUS
<1> USE DEF PacketInv
<1>1. /\ pc = "take" /\ pc' = "idle" /\ call' = call
      /\ pData' = [from |-> read, to |-> read + cNWords] /\ read' = read + cNWords
      /\ result' = IF cNWords % Words = 0 THEN cNWords \div Words ELSE 0
      /\ UNCHANGED <<setup, running, written, left, config, fNEventsperAcquistion,
                     cycles, cNWords, since>>
  BY DEF Cbc3ReadData, Take
<1>2. (Ic <=> Ic')
  BY <1>1, Kept
<1>3. call'.op # "ReadNEvents" /\ ~Ic
  BY <1>1 DEF CallOK, NEventsSteps
<1>4. CallOK'
  BY <1>1, <1>2, <1>3 DEF CallOK, NEventsSteps
<1>5. read' \in Nat /\ read' <= written /\ pData'.to = read' /\ read \in Nat
  BY <1>1, Taken DEF BufferOK, PacketTypeOK
<1>6. result' \in Nat
  BY <1>1, Board, Divided DEF PacketTypeOK
<1>7. PacketTypeOK'
  <2>1. pData' \in [from : Nat, to : Nat]
    BY <1>1, <1>5
  <2> QED
    BY <1>1, <1>5, <1>6, <2>1, Kept DEF PacketTypeOK, config
<1>8. BufferOK'
  <2>1. pData'.to <= read' /\ read' <= written'
    BY <1>1, <1>5
  <2> QED
    BY <1>1, <1>2, <1>3, <2>1 DEF BufferOK
<1> QED
  BY <1>1, <1>3, <1>4, <1>7, <1>8, Elsewhere DEF NEventsSteps

\* ReadNEvents() begins.
LEMMA IcBeginInv == PacketInv /\ IcBegin => PacketInv'
<1> SUFFICES ASSUME PacketInv, IcBegin PROVE PacketInv'
  OBVIOUS
<1> USE DEF PacketInv
<1>1. PICK n \in NEvents : Called("ReadNEvents", n, TRUE)
  BY DEF IcBegin, CallReadNEvents
<1>2. call'.op = "ReadNEvents" /\ call'.n = n
  BY <1>1 DEF Called
<1>3. /\ nevents' = Packets(n).size /\ fNEventsperAcquistion' = Packets(n).size
      /\ cycles' = Packets(n).count
      /\ Ic /\ running' = FALSE /\ Empty /\ since' = Boundary /\ pData' = NoData /\ result' = 0
      /\ pc' = "start" /\ UNCHANGED <<setup, left, Ncycle, tune, cNWords>>
  BY <1>2 DEF IcBegin
<1>4. Packets(n).size \in Nat \ {0} /\ Packets(n).count \in Nat \ {0}
  BY PacketsAre
<1>5. (Ic <=> Ic')
  BY <1>3, Kept
<1>6. read' \in Nat /\ written' = read' /\ since' = read'
  BY <1>3, EmptyBuffer DEF Empty
<1>7. PacketTypeOK'
  <2>1. pData' \in [from : Nat, to : Nat]
    BY <1>3 DEF NoData
  <2> QED
    BY <1>3, <1>4, <1>6, <2>1, Kept DEF PacketTypeOK
<1>8. CallOK'
  BY <1>2, <1>3, <1>5 DEF CallOK, NEventsSteps
<1>9. BufferOK'
  <2>1. written' - read' <= nevents'
    BY <1>3, <1>4, <1>6, Nothing
  <2> QED
    BY <1>3, <1>6, <2>1 DEF BufferOK, NoData
<1>10. PacketsOK'
  <2>1. Packets(call'.n) = Packets(n)
    BY <1>2
  <2>2. read' - since' = 0
    BY <1>6, Nothing
  <2> DEFINE s == Packets(n).size
             c == Packets(n).count
  <2>3. s * (c - c) = 0 /\ c \in 1 .. c
    BY <1>4
  <2>4. Packets(call.n)' = Packets(n)
    BY <2>1 DEF Packets
  <2> QED
    BY <1>3, <1>6, <2>2, <2>3, <2>4 DEF PacketsOK
<1>11. EventsOK' /\ NEventsRight'
  BY <1>3 DEF EventsOK, NEventsRight
<1> QED
  BY <1>7, <1>8, <1>9, <1>10, <1>11

\* On a CBC3 board the generator is told the number.
LEMMA Cbc3BeginInv == PacketInv /\ Cbc3Begin => PacketInv'
<1> SUFFICES ASSUME PacketInv, Cbc3Begin PROVE PacketInv'
  OBVIOUS
<1> USE DEF PacketInv
<1>1. PICK n \in NEvents : Called("ReadNEvents", n, TRUE)
  BY DEF Cbc3Begin, CallReadNEvents
<1>2. call'.op = "ReadNEvents" /\ call'.n = n /\ n \in Nat
  BY <1>1, Board DEF Called
<1>3. /\ ~Ic /\ Ncycle' = (IF gen THEN n ELSE Ncycle)
      /\ pc' = "restart" /\ pData' = NoData /\ result' = 0
      /\ UNCHANGED <<setup, daq, nevents, fNEventsperAcquistion, cycles, cNWords, since>>
  BY <1>2 DEF Cbc3Begin
<1>4. (Ic <=> Ic')
  BY <1>3, Kept
<1>5. PacketTypeOK'
  <2>1. pData' \in [from : Nat, to : Nat] /\ Ncycle' \in Nat
    BY <1>2, <1>3 DEF NoData, PacketTypeOK
  <2> QED
    BY <1>3, <2>1, Kept DEF PacketTypeOK, daq
<1>6. CallOK'
  BY <1>2, <1>3, <1>4 DEF CallOK, NEventsSteps
<1>7. BufferOK'
  <2>1. read' \in Nat /\ written' \in Nat /\ read' <= written'
    BY <1>3 DEF BufferOK, PacketTypeOK, daq
  <2> QED
    BY <1>3, <1>4, <2>1 DEF BufferOK, NoData
<1>8. PacketsOK' /\ NEventsRight'
  BY <1>3 DEF PacketsOK, NEventsRight
<1>9. EventsOK'
  BY <1>2, <1>3, Kept DEF EventsOK
<1> QED
  BY <1>5, <1>6, <1>7, <1>8, <1>9

\* The packets of an IC board.
LEMMA IcStartCycleInv == PacketInv /\ IcStartCycle => PacketInv'
<1> SUFFICES ASSUME PacketInv, IcStartCycle PROVE PacketInv'
  OBVIOUS
<1> USE DEF PacketInv
<1>1. /\ pc = "start" /\ pc' = "cycle" /\ running' = TRUE
      /\ UNCHANGED <<setup, read, written, left, config, tune, call, calls, locals, since>>
  BY DEF IcStartCycle
<1>2. (Ic <=> Ic')
  BY <1>1, Kept
<1>3. PacketTypeOK'
  BY <1>1, Kept DEF PacketTypeOK, config, locals
<1>4. CallOK'
  BY <1>1, <1>2 DEF CallOK, NEventsSteps
<1>5. BufferOK'
  BY <1>1, <1>2 DEF BufferOK, config, locals
<1>6. Packets(call.n)' = Packets(call.n)
  BY <1>1 DEF Packets
<1>7. PacketsOK'
  BY <1>1, <1>6 DEF PacketsOK, config, locals
<1>8. EventsOK' /\ NEventsRight'
  BY <1>1 DEF EventsOK, NEventsRight
<1> QED
  BY <1>3, <1>4, <1>5, <1>7, <1>8

\* Whole packets: one more, and the last one.
LEMMA OnePacketMore ==
    ASSUME NEW f \in Nat \ {0}, NEW count \in Nat, NEW k \in 1 .. count,
           NEW r \in Nat, NEW s \in Nat, r - s = f * (count - k)
    PROVE  /\ (r + f) - s = f * (count - (k - 1))
           /\ k = 1 => (r + f) - s = f * count
<1>1. f * (count - (k - 1)) = f * (count - k) + f
  OBVIOUS
<1>2. (r + f) - s = (r - s) + f
  OBVIOUS
<1>3. (r + f) - s = f * (count - (k - 1))
  BY <1>1, <1>2
<1>4. ASSUME k = 1 PROVE (r + f) - s = f * count
  <2>1. count - (k - 1) = count
    BY <1>4
  <2> QED
    BY <1>3, <2>1
<1> QED
  BY <1>3, <1>4

\* One packet more; the last one makes the number that was asked for.
LEMMA IcReadNEventsInv == PacketInv /\ IcReadNEvents => PacketInv'
<1> SUFFICES ASSUME PacketInv, IcReadNEvents PROVE PacketInv'
  OBVIOUS
<1> USE DEF PacketInv
<1> DEFINE f == fNEventsperAcquistion
           from == IF pData = NoData THEN read ELSE pData.from
           T == Packets(call.n).count
<1>1. /\ pc = "cycle" /\ Ready /\ running' = FALSE
      /\ pData' = [from |-> from, to |-> read + f]
      /\ read' = read + f
      /\ cycles' = cycles - 1 /\ pc' = IF cycles' = 0 THEN "idle" ELSE "start"
      /\ UNCHANGED <<setup, written, left, config, call, f, cNWords, result, since>>
  BY DEF IcReadNEvents
<1>2. (Ic <=> Ic')
  BY <1>1, Kept
<1>3. /\ call.op = "ReadNEvents" /\ call.n \in NEvents /\ Ic
      /\ f = Packets(call.n).size /\ cycles \in 1 .. T
      /\ since = from /\ read - since = f * (T - cycles)
      /\ f = nevents
  BY <1>1 DEF CallOK, NEventsSteps, PacketsOK, BufferOK
<1>4. /\ f \in Nat \ {0} /\ T \in Nat \ {0}
      /\ call.n <= f * T /\ f * T < call.n + f
      /\ (call.n <= MaxPacket \/ call.n % MaxPacket = 0) => f * T = call.n
  BY <1>3, PacketsAre
<1>5. read \in Nat /\ written \in Nat /\ since \in Nat /\ nevents \in Nat \ {0}
  BY DEF PacketTypeOK
<1> HIDE DEF f, T, from
<1>6. read' = written /\ read' \in Nat
  <2>1. written - read = f
    BY <1>1, <1>3 DEF Ready
  <2> QED
    BY <1>1, <1>4, <1>5, <2>1
<1>7. /\ (read + f) - since = f * (T - (cycles - 1))
      /\ cycles = 1 => (read + f) - since = f * T
  BY <1>3, <1>4, <1>5, OnePacketMore
<1>8. pData'.from = since /\ pData'.to = read'
  BY <1>1, <1>3
<1>9. PacketTypeOK'
  <2>1. pData' \in [from : Nat, to : Nat]
    BY <1>1, <1>3, <1>5, <1>6
  <2>2. cycles' \in Nat
    BY <1>1, <1>3, <1>4
  <2>3. fNEventsperAcquistion' \in Nat
    BY <1>1, <1>4 DEF f
  <2> QED
    BY <1>1, <1>6, <2>1, <2>2, <2>3, Kept DEF PacketTypeOK, config
<1>10. CallOK'
  BY <1>1, <1>2, <1>3 DEF CallOK, NEventsSteps
<1>11. BufferOK'
  <2>1. written' - read' <= nevents'
    BY <1>1, <1>5, <1>6, Nothing DEF config
  <2>2. pc' = "start" => fNEventsperAcquistion' = nevents'
    BY <1>1, <1>3 DEF config, f
  <2>3. pData'.to <= read' /\ read' <= written'
    BY <1>1, <1>6, <1>8
  <2> QED
    BY <1>1, <2>1, <2>2, <2>3 DEF BufferOK
<1>12. Packets(call.n)' = Packets(call.n)
  BY <1>1 DEF Packets
<1>13. PacketsOK'
  <2> SUFFICES ASSUME pc' = "start" PROVE PacketsOK'
    BY <1>1 DEF PacketsOK
  <2>1. cycles' \in 1 .. T /\ cycles' = cycles - 1
    BY <1>1, <1>3, <1>4
  <2>2. f' = Packets(call.n)'.size /\ T = Packets(call.n)'.count /\ f' = f
    BY <1>1, <1>3, <1>12 DEF f, T
  <2>3. pData' # NoData
    <3>1. pData'.to # 0
      BY <1>1, <1>4, <1>5, <1>8
    <3> QED
      BY <3>1 DEF NoData
  <2>4. read' - since' = f' * (T - cycles')
    BY <1>1, <1>7, <2>1, <2>2
  <2> QED
    BY <1>1, <1>8, <2>1, <2>2, <2>3, <2>4 DEF PacketsOK, f
<1>14. EventsOK'
  BY <1>1 DEF EventsOK
<1>15. NEventsRight'
  <2> SUFFICES ASSUME pc' = "idle" PROVE NEventsRight'
    BY <1>1 DEF NEventsRight
  <2>1. cycles = 1
    BY <1>1, <1>3, <1>4
  <2> DEFINE events == read' - since
  <2>2. events = f * T /\ events \in Nat
    BY <1>1, <1>4, <1>7, <2>1
  <2> HIDE DEF events
  <2>3. EventSize' = 1 /\ Ic'
    BY <1>1, <1>2, <1>3, Kept, Board
  <2>4. Size' = events
    BY <1>8 DEF Size, events
  <2>5. Whole'
    <3>1. \A x \in Nat : x % 1 = 0
      OBVIOUS
    <3> QED
      BY <1>5, <1>6, <1>8, <2>3, <3>1 DEF Whole
  <2>6. Size' \div EventSize' = events
    BY <2>2, <2>3, <2>4
  <2>7. /\ events >= call.n /\ events < call.n + f
        /\ (call.n <= MaxPacket \/ call.n % MaxPacket = 0) => events = call.n
    BY <1>4, <2>2
  <2>8. call' = call /\ since' = since /\ fNEventsperAcquistion' = f
    BY <1>1 DEF f
  <2> QED
    BY <1>8, <2>3, <2>5, <2>6, <2>7, <2>8 DEF NEventsRight
<1> QED
  BY <1>9, <1>10, <1>11, <1>13, <1>14, <1>15

\* The events of a CBC3 board.
LEMMA Cbc3RestartInv == PacketInv /\ Cbc3Restart => PacketInv'
<1> SUFFICES ASSUME PacketInv, Cbc3Restart PROVE PacketInv'
  OBVIOUS
<1> USE DEF PacketInv
<1>1. /\ pc = "restart" /\ Empty /\ running' = TRUE
      /\ left' = (IF Ncycle = 0 THEN NoEnd ELSE Ncycle)
      /\ since' = Boundary /\ pc' = "events"
      /\ UNCHANGED <<setup, config, call, locals>>
  BY DEF Cbc3Restart, Cbc3Reset
<1>2. (Ic <=> Ic') /\ ~Ic /\ EventSize = Words
  BY <1>1, Kept, Board DEF CallOK
<1>3. /\ read' \in Nat /\ written' = read' /\ read <= read' /\ since' = read'
      /\ Boundary' = read' /\ read' % Words = 0
  BY <1>1, <1>2, EmptyBuffer DEF Empty
<1>4. call.op = "ReadNEvents" /\ call.n \in Nat \ {0} /\ call.n \in NEvents
  BY <1>1, Board DEF CallOK, NEventsSteps
<1>5. PacketTypeOK'
  <2>1. left' \in Nat \cup {NoEnd} /\ since' \in Nat
    BY <1>1, <1>3 DEF PacketTypeOK
  <2> QED
    BY <1>1, <1>3, <2>1, Kept DEF PacketTypeOK, config, locals
<1>6. CallOK'
  BY <1>1, <1>2, <1>4 DEF CallOK, NEventsSteps
<1>7. BufferOK'
  <2>1. pData' = NoData /\ NoData.to = 0
    BY <1>1 DEF EventsOK, locals, NoData
  <2> QED
    BY <1>1, <1>2, <1>3, <2>1 DEF BufferOK
<1>8. PacketsOK' /\ NEventsRight'
  BY <1>1 DEF PacketsOK, NEventsRight
<1>9. EventsOK'
  <2>1. pData' = NoData
    BY <1>1 DEF EventsOK, locals
  <2>2. ASSUME gen PROVE left' \in 0 .. call.n /\ Boundary' = read' + Words * (call.n - left')
    <3>1. left' = call.n
      BY <1>1, <1>4, <2>2 DEF EventsOK
    <3>2. Words * (call.n - left') = 0
      BY <1>4, <3>1, Board
    <3> QED
      BY <1>3, <1>4, <3>1, <3>2
  <2>3. call' = call /\ gen' = gen
    BY <1>1, Kept
  <2>4. (gen' /\ ~ext') => left' \in 0 .. call'.n /\ Boundary' = read' + Words * (call'.n - left')
    BY <2>2, <2>3
  <2> QED
    BY <1>1, <1>3, <2>1, <2>4 DEF EventsOK
<1> QED
  BY <1>5, <1>6, <1>7, <1>8, <1>9

\* Enough words are there; the words of a lone generator are all of them.
LEMMA Cbc3EnoughInv == PacketInv /\ Cbc3Enough => PacketInv'
<1> SUFFICES ASSUME PacketInv, Cbc3Enough PROVE PacketInv'
  OBVIOUS
<1> USE DEF PacketInv
<1>1. /\ pc = "events" /\ cNWords' = Complete /\ cNWords' >= Words * call.n /\ pc' = "stop"
      /\ UNCHANGED <<setup, daq, config, tune, call, calls, fNEventsperAcquistion,
                     cycles, pData, result, since>>
  BY DEF Cbc3Enough
<1>2. (Ic <=> Ic') /\ ~Ic /\ EventSize = Words /\ EventSize' = EventSize /\ Words \in Nat \ {0}
      /\ gen' = gen /\ ext' = ext
  BY <1>1, Kept, Board DEF CallOK
<1>3. call.op = "ReadNEvents" /\ call.n \in Nat \ {0} /\ call.n \in NEvents
  BY <1>1, Board DEF CallOK, NEventsSteps
<1>4. read % Words = 0 /\ read \in Nat /\ written \in Nat /\ read <= written
  BY <1>1 DEF EventsOK, PacketTypeOK, BufferOK
<1>5. /\ Complete \in Nat /\ Complete <= written - read /\ Complete % Words = 0
      /\ Complete = Words * (written \div Words) - read
  BY <1>2, <1>4, CompleteIs
<1>6. PacketTypeOK'
  BY <1>1, <1>5, Kept DEF PacketTypeOK, daq, config
<1>7. CallOK'
  BY <1>1, <1>2, <1>3 DEF CallOK, NEventsSteps
<1>8. BufferOK'
  BY <1>1, <1>2, <1>5 DEF BufferOK, daq, config
<1>9. PacketsOK' /\ NEventsRight'
  BY <1>1 DEF PacketsOK, NEventsRight
<1>10. Boundary' = Boundary
  BY <1>1, <1>2 DEF Boundary, daq
<1>11. ASSUME gen, ~ext PROVE cNWords' = Words * call.n
  <2>1. left \in 0 .. call.n /\ Boundary = read + Words * (call.n - left)
    BY <1>1, <1>11 DEF EventsOK
  <2>2. Words * (written \div Words) <= written /\ written <= Boundary
    BY <1>2, <1>4, Wholes, BoundaryIs
  <2> DEFINE n == Words * call.n
             m == Words * (call.n - left)
  <2>3. n \in Nat /\ m \in Nat /\ m <= n
    BY <1>2, <1>3, <2>1
  <2>4. Boundary = read + m /\ n <= Complete /\ Complete <= written - read
    BY <1>1, <1>5, <2>1
  <2> HIDE DEF n, m
  <2>5. Complete <= m
    BY <1>4, <1>5, <2>2, <2>3, <2>4
  <2>6. Complete = n
    BY <1>5, <2>3, <2>4, <2>5
  <2> QED
    BY <1>1, <2>6 DEF n
<1>12. EventsOK'
  <2>1. /\ pData = NoData /\ since = read /\ running
        /\ gen /\ ~ext => left \in 0 .. call.n /\ Boundary = read + Words * (call.n - left)
    BY <1>1 DEF EventsOK
  <2>2. /\ pData' = pData /\ since' = since /\ read' = read /\ running' = running
        /\ left' = left /\ call' = call
    BY <1>1 DEF daq
  <2>3. /\ cNWords' % Words = 0 /\ Words * call'.n <= cNWords'
    BY <1>1, <1>5, <2>2
  <2>4. gen' /\ ~ext' => left' \in 0 .. call'.n /\ Boundary' = read' + Words * (call'.n - left')
    BY <1>2, <1>10, <2>1, <2>2
  <2>5. gen' /\ ~ext' => cNWords' = Words * call'.n
    BY <1>2, <1>11, <2>2
  <2> QED
    BY <1>1, <1>4, <2>1, <2>2, <2>3, <2>4, <2>5 DEF EventsOK
<1> QED
  BY <1>6, <1>7, <1>8, <1>9, <1>12

\* Whole events are taken: those there are, or those asked for.
LEMMA Cbc3ReadNEventsInv == PacketInv /\ Cbc3ReadNEvents => PacketInv'
<1> SUFFICES ASSUME PacketInv, Cbc3ReadNEvents PROVE PacketInv'
  OBVIOUS
<1> USE DEF PacketInv
<1> DEFINE k == IF gen THEN cNWords ELSE Words * call.n
<1>1. /\ pc = "stop" /\ running' = FALSE /\ left' = 0 /\ pc' = "idle"
      /\ pData' = [from |-> read, to |-> read + k] /\ read' = read + k
      /\ UNCHANGED <<setup, written, config, call, fNEventsperAcquistion, cycles, cNWords,
                     result, since>>
  BY DEF Cbc3ReadNEvents, Take
<1>2. (Ic <=> Ic') /\ ~Ic /\ EventSize = Words /\ EventSize' = EventSize /\ Words \in Nat \ {0}
      /\ gen' = gen /\ ext' = ext
  BY <1>1, Kept, Board DEF CallOK
<1>3. call.op = "ReadNEvents" /\ call.n \in Nat \ {0} /\ call.n \in NEvents
  BY <1>1, Board DEF CallOK, NEventsSteps
<1>4. /\ read \in Nat /\ written \in Nat /\ since = read /\ read % Words = 0
      /\ cNWords \in Nat /\ cNWords <= written - read
      /\ cNWords % Words = 0 /\ Words * call.n <= cNWords
      /\ gen /\ ~ext => cNWords = Words * call.n
  BY <1>1 DEF EventsOK, PacketTypeOK, BufferOK
<1>5. /\ Words * call.n \in Nat /\ (Words * call.n) % Words = 0
      /\ (Words * call.n) \div Words = call.n
  BY <1>2, <1>3, Multiple
<1>6. /\ k \in Nat /\ k % Words = 0 /\ k <= cNWords /\ Words * call.n <= k
      /\ ~(ext /\ gen) => k = Words * call.n
  <2> DEFINE n == Words * call.n
  <2>1. n \in Nat /\ n % Words = 0 /\ n <= cNWords /\ (gen /\ ~ext => cNWords = n)
    BY <1>4, <1>5
  <2> HIDE DEF n
  <2>2. k = IF gen THEN cNWords ELSE n
    BY DEF n
  <2>3. /\ k \in Nat /\ k % Words = 0 /\ k <= cNWords /\ n <= k
        /\ ~(ext /\ gen) => k = n
    BY <1>4, <2>1, <2>2
  <2> QED
    BY <2>3 DEF n
<1> HIDE DEF k
<1>7. k <= written - read
  BY <1>4, <1>6
<1>8. read' \in Nat /\ read' <= written /\ read' % Words = 0
  BY <1>1, <1>2, <1>4, <1>6, <1>7, Taken, Multiples
<1>9. PacketTypeOK'
  <2>1. pData' \in [from : Nat, to : Nat] /\ left' \in Nat
    BY <1>1, <1>4, <1>8
  <2> QED
    BY <1>1, <1>8, <2>1, Kept DEF PacketTypeOK, config
<1>10. CallOK'
  BY <1>1, <1>2, <1>3 DEF CallOK, NEventsSteps
<1>11. BufferOK'
  <2>1. pData'.to <= read' /\ read' <= written'
    BY <1>1, <1>8
  <2> QED
    BY <1>1, <1>2, <2>1 DEF BufferOK
<1>12. PacketsOK' /\ EventsOK'
  BY <1>1 DEF PacketsOK, EventsOK
<1>13. NEventsRight'
  <2>1. pData'.from = read /\ pData'.to = read' /\ EventSize' = Words
    BY <1>1, <1>2
  <2>2. Whole'
    BY <1>4, <1>8, <2>1 DEF Whole
  <2>3. Size' = k
    BY <1>1, <1>4, <1>6, <2>1 DEF Size
  <2>4. k \div Words >= call.n
    BY <1>2, <1>3, <1>6, AtLeast
  <2>5. ~(ext /\ gen) => k \div Words = call.n
    BY <1>5, <1>6
  <2>6. call' = call /\ since' = since
    BY <1>1
  <2>7. Size' \div EventSize' = k \div Words
    BY <2>1, <2>3
  <2> QED
    BY <1>2, <1>4, <2>1, <2>2, <2>4, <2>5, <2>6, <2>7 DEF NEventsRight
<1> QED
  BY <1>9, <1>10, <1>11, <1>12, <1>13

\* All steps of the calls that read.
LEMMA ReadingInv == PacketInv /\ Reading => PacketInv'
BY IcReadDataInv, Cbc3PollInv, Cbc3ReadDataInv, IcStartCycleInv, IcReadNEventsInv,
   Cbc3RestartInv, Cbc3EnoughInv, Cbc3ReadNEventsInv
   DEF Reading, IcFc7ReadData, IcGlibReadData, IcFc7ReadNEvents, IcGlibReadNEvents

\* Nothing changes.
LEMMA StutterInv == PacketInv /\ UNCHANGED packetVars => PacketInv'
<1> SUFFICES ASSUME PacketInv, UNCHANGED packetVars PROVE PacketInv'
  OBVIOUS
<1> USE DEF PacketInv
<1>1. UNCHANGED <<setup, daq, config, pc, call, locals, since>>
  BY DEF packetVars
<1>2. (Ic <=> Ic') /\ EventSize' = EventSize
  BY <1>1, Kept
<1>3. PacketTypeOK'
  BY <1>1, Kept DEF PacketTypeOK, daq, config, locals
<1>4. CallOK'
  BY <1>1, <1>2 DEF CallOK
<1>5. BufferOK'
  BY <1>1, <1>2 DEF BufferOK, daq, config, locals
<1>6. PacketsOK'
  BY <1>1 DEF PacketsOK, Packets, daq, locals
<1>7. Boundary' = Boundary
  BY <1>1, <1>2 DEF Boundary, daq
<1>8. EventsOK'
  BY <1>1, <1>7 DEF EventsOK, setup, daq, config, locals
<1>9. NEventsRight'
  BY <1>1, <1>2, Kept DEF NEventsRight, Whole, Size, locals
<1> QED
  BY <1>3, <1>4, <1>5, <1>6, <1>8, <1>9

-----------------------------------------------------------------------------
(* The invariant of the board holds whatever is called and however many    *)
(* triggers come.                                                          *)
THEOREM PacketInvariance == BoardSpec => []PacketInv
<1>1. InitI2c => PacketInv
  BY InitPacketInv DEF InitI2c
<1>2. PacketInv /\ [BoardNext]_i2cVars => PacketInv'
  <2> SUFFICES ASSUME PacketInv, BoardNext \/ UNCHANGED i2cVars PROVE PacketInv'
    OBVIOUS
  <2>1. CASE PacketNext
    BY <2>1, FirmwareInv, ConfigureInv, RunControlInv, CallReadDataInv, IcBeginInv,
       Cbc3BeginInv, ReadingInv DEF PacketNext, Calls
  <2>2. CASE I2cCalls \/ I2c
    BY <2>2, I2cInv
  <2>3. CASE UNCHANGED i2cVars
    BY <2>3, StutterInv DEF i2cVars
  <2> QED
    BY <2>1, <2>2, <2>3 DEF BoardNext, Readout
<1> QED
  BY <1>1, <1>2, PTL DEF BoardSpec

(* ReadNEvents() returns whole events, the first triggered since it was    *)
(* called and those after it, and as many as NEventsRight says.            *)
THEOREM NEventsAreRight == BoardSpec => []NEventsRight
<1>1. PacketInv => NEventsRight
  BY DEF PacketInv
<1> QED
  BY <1>1, PacketInvariance, PTL

(* No call reads beyond what the firmware has written: the counters of the *)
(* status and of the read agree, whatever came between.                    *)
THEOREM NothingIsMadeUp == BoardSpec => [](pData.to <= written)
<1>1. PacketInv => pData.to <= written
  BY DEF PacketInv, PacketTypeOK, BufferOK
<1> QED
  BY <1>1, PacketInvariance, PTL
-----------------------------------------------------------------------------
(* The I2C path.  The invariant is OrderInv.  The replies of a queue are a *)
(* function of their place, so that those of one chip are known one by     *)
(* one; that a set of numbers has its k-th one is shown by an induction    *)
(* over the naturals, which rests on the well-founded ordering of the      *)
(* finite sets of naturals.                                                *)

\* A set of naturals has a least element: the smallest of the intervals that
\* end in one.
LEMMA Least ==
    ASSUME NEW S, S \subseteq Nat, S # {}
    PROVE  \E x \in S : \A y \in S : x <= y
<1> DEFINE T == {1 .. x : x \in S}
           R == StrictSubsetOrdering(Nat)
           F == FiniteSubsetsOf(Nat)
<1>1. IsWellFoundedOn(R, F)
  BY FS_StrictSubsetOrderingWellFounded
<1>2. T \subseteq F /\ T # {}
  <2>1. \A x \in S : IsFiniteSet(1 .. x) /\ 1 .. x \in SUBSET Nat
    BY FS_Interval
  <2> QED
    BY <2>1 DEF FiniteSubsetsOf
<1>3. PICK U \in T : \A V \in T : ~ (<<V, U>> \in R)
  <2> HIDE DEF T, R, F
  <2> QED
    BY <1>1, <1>2, WFMin
<1>4. PICK x \in S : U = 1 .. x
  BY <1>3
<1>5. ASSUME NEW y \in S, y < x PROVE FALSE
  <2>1. 1 .. y \subseteq 1 .. x /\ x \in 1 .. x /\ x \notin 1 .. y
    BY <1>5
  <2>2. <<1 .. y, 1 .. x>> \in R
    BY <2>1 DEF StrictSubsetOrdering
  <2> QED
    BY <2>2, <1>3, <1>4
<1> QED
  BY <1>5

\* Induction over the naturals, for a set of them.
LEMMA Naturals ==
    ASSUME NEW S, 0 \in S, \A n \in Nat : n \in S => n + 1 \in S
    PROVE  Nat \subseteq S
<1>1. SUFFICES ASSUME Nat \ S # {} PROVE FALSE
  OBVIOUS
<1>2. PICK x \in Nat \ S : \A y \in Nat \ S : x <= y
  BY <1>1, Least
<1>3. x - 1 \in Nat /\ x - 1 \notin Nat \ S
  BY <1>2
<1> QED
  BY <1>2, <1>3

\* A finite set of numbers has a k-th one for every k less than its size.
LEMMA NthIs ==
    ASSUME NEW S, S \subseteq Nat, IsFiniteSet(S)
    PROVE  \A k \in Nat : k < Cardinality(S) =>
              Nth(S, k) \in S /\ Cardinality({y \in S : y < Nth(S, k)}) = k
<1> DEFINE P(k) == k < Cardinality(S) => \E x \in S : Cardinality({y \in S : y < x}) = k
           K == {k \in Nat : P(k)}
<1>1. P(0)
  <2>1. SUFFICES ASSUME 0 < Cardinality(S) PROVE \E x \in S : Cardinality({y \in S : y < x}) = 0
    OBVIOUS
  <2>2. S # {}
    BY <2>1, FS_EmptySet
  <2>3. PICK x \in S : \A y \in S : x <= y
    BY <2>2, Least
  <2>4. \A y \in S : ~ (y < x)
    BY <2>3
  <2> QED
    BY <2>4, {y \in S : y < x} = {}, FS_EmptySet
<1>2. ASSUME NEW k \in Nat, P(k) PROVE P(k + 1)
  <2>1. SUFFICES ASSUME k + 1 < Cardinality(S) PROVE \E x \in S : Cardinality({y \in S : y < x}) = k + 1
    OBVIOUS
  <2>2. Cardinality(S) \in Nat
    BY FS_CardinalityType
  <2>3. PICK x \in S : Cardinality({y \in S : y < x}) = k
    BY <1>2, <2>1, <2>2
  <2> DEFINE L == {y \in S : y < x}
             T == {y \in S : x < y}
  <2>4. IsFiniteSet(L) /\ x \notin L
    BY FS_Subset
  <2>5. Cardinality(L \cup {x}) = k + 1
    BY <2>3, <2>4, FS_AddElement
  <2>6. T # {}
    <3>1. SUFFICES ASSUME T = {} PROVE FALSE
      OBVIOUS
    <3>2. \A y \in S : y < x \/ y = x \/ x < y
      OBVIOUS
    <3>3. S = L \cup {x}
      BY <3>1, <3>2
    <3> QED
      BY <2>1, <2>2, <2>5, <3>3
  <2>7. PICK z \in T : \A y \in T : z <= y
    BY <2>6, Least
  <2>8. \A y \in S : y < z <=> y < x \/ y = x
    BY <2>7
  <2>9. {y \in S : y < z} = L \cup {x}
    BY <2>8
  <2> QED
    BY <2>5, <2>7, <2>9
<1>3. Nat \subseteq K
  <2> HIDE DEF P
  <2>1. 0 \in K /\ \A n \in Nat : n \in K => n + 1 \in K
    BY <1>1, <1>2
  <2> HIDE DEF K
  <2> QED
    BY <2>1, Naturals
<1>4. ASSUME NEW k \in Nat, k < Cardinality(S)
      PROVE  Nth(S, k) \in S /\ Cardinality({y \in S : y < Nth(S, k)}) = k
  BY <1>3, <1>4 DEF Nth
<1> QED
  BY <1>4

\* The only one of a set is its first.
LEMMA NthOne == ASSUME NEW c \in Nat PROVE Nth({c}, 0) = c
<1>1. {y \in {c} : y < c} = {}
  OBVIOUS
<1>2. Cardinality({y \in {c} : y < c}) = 0
  BY <1>1, FS_EmptySet
<1> QED
  BY <1>2 DEF Nth

\* The smaller of two numbers.
LEMMA Smaller ==
    ASSUME NEW a \in Nat, NEW b \in Nat
    PROVE  Min({a, b}) = IF a <= b THEN a ELSE b
BY DEF Min

\* A function on the numbers up to n is a sequence of that length.
LEMMA AsSequence ==
    ASSUME NEW n \in Nat, NEW s, s = [p \in 1 .. n |-> s[p]]
    PROVE  s \in Seq(ToSet(s)) /\ Len(s) = n /\ <<>> \o s = s
<1>1. DOMAIN s = 1 .. n
  OBVIOUS
<1>2. s \in [1 .. n -> ToSet(s)]
  BY <1>1 DEF ToSet
<1>3. s \in Seq(ToSet(s)) /\ Len(s) = n
  BY <1>2
<1> QED
  BY <1>3

\* The replies in a queue: as many for each register as its chips give.
LEMMA ManyReplies ==
    ASSUME I2cAssumption, NEW f \in Fes, NEW regs \in Seq(Register), NEW bad
    PROVE  LET n == Answers * Cardinality({c \in order.cbc : Queue(c) = f})
               s == RepliesOf(f, regs, bad) IN
           order.cbc \subseteq Cbc =>
             /\ n \in Nat /\ Len(regs) * n \in Nat
             /\ s = [p \in 1 .. Len(regs) * n |-> s[p]]
             /\ Len(s) = Len(regs) * n /\ <<>> \o s = s
<1> DEFINE mine == {c \in order.cbc : Queue(c) = f}
           n == Answers * Cardinality(mine)
           s == RepliesOf(f, regs, bad)
<1> SUFFICES ASSUME order.cbc \subseteq Cbc
             PROVE  /\ n \in Nat /\ Len(regs) * n \in Nat
                    /\ s = [p \in 1 .. Len(regs) * n |-> s[p]]
                    /\ Len(s) = Len(regs) * n /\ <<>> \o s = s
  OBVIOUS
<1>1. IsFiniteSet(mine) /\ Cardinality(mine) \in Nat
  BY FS_Subset, FS_CardinalityType, mine \in SUBSET Cbc DEF I2cAssumption
<1>2. Answers \in Nat
  BY DEF Answers
<1>3. n \in Nat /\ Len(regs) \in Nat
  BY <1>1, <1>2
<1>4. Len(regs) * n \in Nat
  BY <1>3
<1>5. s = [p \in 1 .. Len(regs) * n |-> s[p]]
  BY Zenon DEF RepliesOf
<1> HIDE DEF s, n
<1> QED
  BY <1>3, <1>4, <1>5, AsSequence

\* The replies of one chip: to each register the word sent, the value of the
\* register, or the one after the other.
LEMMA OneChip ==
    ASSUME I2cAssumption, NEW c \in Cbc, order.cbc = {c}, NEW regs \in Seq(Register), NEW bad
    PROVE  /\ Len(RepliesOf(Queue(c), regs, bad)) = Len(regs) * Answers
           /\ <<>> \o RepliesOf(Queue(c), regs, bad) = RepliesOf(Queue(c), regs, bad)
           /\ \A i \in 1 .. Len(regs) :
                 /\ Answers = 1 => RepliesOf(Queue(c), regs, bad)[i] = Reply(c, regs[i], bad)[1]
                 /\ Answers = 2 => RepliesOf(Queue(c), regs, bad)[2 * i] = Reply(c, regs[i], bad)[2]
<1> DEFINE f == Queue(c)
           mine == {x \in order.cbc : Queue(x) = f}
           n == Answers * Cardinality(mine)
           s == RepliesOf(f, regs, bad)
<1>1. f \in Fes
  BY DEF I2cAssumption, Queue
<1>2. mine = {c}
  OBVIOUS
<1>3. Cardinality(mine) = 1
  BY <1>2, FS_Singleton
<1>4. Answers \in {1, 2} /\ n = Answers
  BY <1>3 DEF Answers
<1>5. Len(s) = Len(regs) * n /\ <<>> \o s = s
  BY <1>1, ManyReplies DEF I2cAssumption
<1>6. \A p \in 1 .. Len(regs) * Answers :
        s[p] = Reply(Nth({c}, ((p - 1) % Answers) \div Answers), regs[(p - 1) \div Answers + 1], bad)
                 [((p - 1) % Answers) + 1]
  <2> HIDE DEF n
  <2>1. s = [p \in 1 .. Len(regs) * n |->
               Reply(Nth(mine, ((p - 1) % n) \div Answers), regs[(p - 1) \div n + 1], bad)
                 [((p - 1) % Answers) + 1]]
    BY Zenon DEF RepliesOf, n
  <2> QED
    BY Zenon, <2>1, <1>2, <1>4
<1>7. Nth({c}, 0) = c
  BY NthOne DEF I2cAssumption
<1> HIDE DEF n, s
<1>8. ASSUME NEW i \in 1 .. Len(regs), Answers = 1 PROVE s[i] = Reply(c, regs[i], bad)[1]
  <2>1. i \in 1 .. Len(regs) * Answers
    BY <1>8
  <2>2. ((i - 1) % 1) \div 1 = 0 /\ (i - 1) \div 1 + 1 = i /\ ((i - 1) % 1) + 1 = 1
    BY <1>8
  <2> QED
    BY Zenon, <1>6, <1>7, <1>8, <2>1, <2>2
<1>9. ASSUME NEW i \in 1 .. Len(regs), Answers = 2 PROVE s[2 * i] = Reply(c, regs[i], bad)[2]
  <2>1. 2 * i \in 1 .. Len(regs) * Answers
    BY <1>9
  <2>2. ((2 * i - 1) % 2) \div 2 = 0 /\ (2 * i - 1) \div 2 + 1 = i /\ ((2 * i - 1) % 2) + 1 = 2
    BY <1>9
  <2> QED
    BY Zenon, <1>6, <1>7, <1>9, <2>1, <2>2
<1> QED
  BY <1>4, <1>5, <1>8, <1>9 DEF s

\* The replies of all chips of an IC board fit, for a chunk of cM registers.
LEMMA AllChips ==
    ASSUME I2cAssumption, order \in Orders, Broadcast, order.cbc = Cbc, Ic,
           NEW regs \in Seq(Register), NEW bad, Len(regs) <= cM
    PROVE  Len(RepliesOf(0, regs, bad)) <= fReplyBufferSize
           /\ <<>> \o RepliesOf(0, regs, bad) = RepliesOf(0, regs, bad)
<1> DEFINE mine == {c \in order.cbc : Queue(c) = 0}
           C == Cardinality(Cbc)
<1>1. mine = Cbc /\ Width = 1 /\ Answers = 1
  BY DEF Queue, Width, Answers, Broadcast
<1>2. C \in Nat /\ C # 0
  BY FS_CardinalityType, FS_EmptySet DEF I2cAssumption
<1>3. Len(RepliesOf(0, regs, bad)) = Len(regs) * (Answers * Cardinality(mine))
      /\ <<>> \o RepliesOf(0, regs, bad) = RepliesOf(0, regs, bad)
  BY ManyReplies DEF I2cAssumption
<1>4. fReplyBufferSize \in Nat /\ fReplyBufferSize \div 1 = fReplyBufferSize
  BY DEF I2cAssumption
<1>5. cM = fReplyBufferSize \div C
  BY <1>1, <1>4 DEF cM
<1> DEFINE q == fReplyBufferSize \div C
<1>6. q \in Nat /\ C * q <= fReplyBufferSize
  BY <1>2, <1>4
<1> HIDE DEF q, C
<1>7. Len(regs) \in Nat /\ Len(regs) <= q
  BY <1>5 DEF q, C
<1>8. C * Len(regs) <= C * q
  BY <1>2, <1>6, <1>7
<1>9. Len(RepliesOf(0, regs, bad)) = C * Len(regs)
  <2>1. Cardinality(mine) = C
    BY Zenon, <1>1 DEF C
  <2>2. Len(regs) * (Answers * Cardinality(mine)) = Len(regs) * (1 * C)
    BY Zenon, <1>1, <2>1
  <2> HIDE DEF mine
  <2>3. Len(regs) * (1 * C) = C * Len(regs)
    BY <1>2, <1>7
  <2> QED
    BY Zenon, <1>3, <2>2, <2>3 DEF mine
<1> QED
  BY <1>2, <1>3, <1>4, <1>6, <1>7, <1>8, <1>9

\* Every member of a finite set of numbers is the one with as many below it.
LEMMA NthOf ==
    ASSUME NEW S, S \subseteq Nat, IsFiniteSet(S), NEW x \in S
    PROVE  LET k == Cardinality({y \in S : y < x}) IN
           k \in Nat /\ k < Cardinality(S) /\ Nth(S, k) = x
<1> DEFINE B(z) == {y \in S : y < z}
           k == Cardinality(B(x))
<1>1. ASSUME NEW z \in S PROVE IsFiniteSet(B(z)) /\ Cardinality(B(z)) \in Nat /\ z \notin B(z)
  BY FS_Subset, FS_CardinalityType
<1>2. ASSUME NEW z \in S, NEW T, IsFiniteSet(T), B(z) \cup {z} \subseteq T
      PROVE  Cardinality(B(z)) < Cardinality(T)
  <2> HIDE DEF B
  <2>1. Cardinality(B(z) \cup {z}) = Cardinality(B(z)) + 1
    BY <1>1, FS_AddElement
  <2>2. Cardinality(B(z) \cup {z}) <= Cardinality(T) /\ Cardinality(T) \in Nat
    BY <1>2, FS_Subset, FS_CardinalityType
  <2> QED
    BY <1>1, <2>1, <2>2
<1>3. k \in Nat /\ k < Cardinality(S)
  <2>1. B(x) \cup {x} \subseteq S
    OBVIOUS
  <2> HIDE DEF B
  <2> QED
    BY <1>1, <1>2, <2>1
<1>4. Nth(S, k) \in S /\ Cardinality(B(Nth(S, k))) = k
  BY <1>3, NthIs
<1> DEFINE z == Nth(S, k)
<1> HIDE DEF z
<1>5. z \in S /\ Cardinality(B(z)) = Cardinality(B(x))
  BY <1>4 DEF z
<1>6. ASSUME z < x PROVE FALSE
  <2>1. B(z) \cup {z} \subseteq B(x)
    <3>1. x \in Nat /\ z \in Nat /\ z \in S
      BY <1>5
    <3>2. ASSUME NEW y \in S, y < z PROVE y < x
      BY <1>6, <3>1, <3>2
    <3> QED
      BY <1>6, <3>1, <3>2
  <2> HIDE DEF B
  <2> QED
    BY <1>1, <1>2, <1>5, <2>1
<1>7. ASSUME x < z PROVE FALSE
  <2>1. B(x) \cup {x} \subseteq B(z)
    <3>1. x \in Nat /\ z \in Nat /\ z \in S
      BY <1>5
    <3>2. ASSUME NEW y \in S, y < x PROVE y < z
      BY <1>7, <3>1, <3>2
    <3> QED
      BY <1>7, <3>1, <3>2
  <2> HIDE DEF B
  <2> QED
    BY <1>1, <1>2, <1>5, <2>1
<1>8. z = x
  BY <1>5, <1>6, <1>7
<1> QED
  BY <1>3, <1>8 DEF z

\* What is to be written again is some of the registers, and every one that
\* is found wrong is among them.
LEMMA Mismatches ==
    ASSUME pVecReg \in Seq(Register), NEW alike
    PROVE  /\ get_mismatches(alike) \in Seq(Register)
           /\ Len(get_mismatches(alike)) \in Nat
           /\ Len(get_mismatches(alike)) <= Len(pVecReg)
           /\ \A i \in Wrong(alike) : pVecReg[i] \in ToSet(get_mismatches(alike))
<1> DEFINE wrong == Wrong(alike)
           n == Cardinality(wrong)
           s == [k \in 1 .. n |-> pVecReg[Nth(wrong, k - 1)]]
<1>1. get_mismatches(alike) = s
  BY Zenon DEF get_mismatches
<1>2. IsFiniteSet(1 .. Len(pVecReg)) /\ Cardinality(1 .. Len(pVecReg)) = Len(pVecReg)
  <2>1. Len(pVecReg) \in Nat
    OBVIOUS
  <2> QED
    BY <2>1, FS_Interval
<1>3. wrong \subseteq 1 .. Len(pVecReg)
  BY DEF Wrong
<1> HIDE DEF wrong
<1>4. IsFiniteSet(wrong) /\ n \in Nat /\ n <= Len(pVecReg)
  BY <1>2, <1>3, FS_Subset, FS_CardinalityType
<1>5. ASSUME NEW k \in 1 .. n PROVE pVecReg[Nth(wrong, k - 1)] \in Register
  <2>1. k - 1 \in Nat /\ k - 1 < n
    BY <1>4
  <2>2. wrong \subseteq Nat
    BY <1>3
  <2> HIDE DEF n
  <2>3. Nth(wrong, k - 1) \in wrong
    <3> DEFINE j == k - 1
    <3>1. j \in Nat /\ j < Cardinality(wrong)
      BY <2>1 DEF n
    <3> HIDE DEF j
    <3>2. Nth(wrong, j) \in wrong
      BY <1>4, <2>2, <3>1, NthIs
    <3> QED
      BY <3>2 DEF j
  <2>4. \A i \in wrong : pVecReg[i] \in Register
    BY <1>3
  <2> QED
    BY Zenon, <2>3, <2>4
<1>6. s \in [1 .. n -> Register]
  BY <1>5
<1>7. ASSUME NEW i \in wrong PROVE pVecReg[i] \in ToSet(s)
  <2> DEFINE j == Cardinality({y \in wrong : y < i})
  <2>1. wrong \subseteq Nat
    BY <1>3
  <2>2. j \in Nat /\ j < n /\ Nth(wrong, j) = i
    BY <1>4, <2>1, NthOf
  <2> HIDE DEF j
  <2>3. j + 1 \in 1 .. n /\ (j + 1) - 1 = j
    BY <1>4, <2>2
  <2> HIDE DEF n
  <2>4. s[j + 1] = pVecReg[i]
    BY <2>2, <2>3
  <2>5. DOMAIN s = 1 .. n
    OBVIOUS
  <2> QED
    BY <2>3, <2>4, <2>5 DEF ToSet
<1> HIDE DEF n
<1>8. s \in Seq(Register) /\ Len(s) = n
  BY <1>4, <1>6
<1> HIDE DEF s
<1> QED
  BY <1>1, <1>4, <1>7, <1>8 DEF wrong

\* ReadData() and its like leave a transaction alone.
LEMMA OtherCalls ==
    ASSUME UnderWay, PacketNext
    PROVE  /\ board' = board
           /\ call'.op = "I2c" => call.op = "I2c" /\ pc' = pc
           /\ pc' \in Steps => call'.op = "I2c" /\ pc' = pc
<1> USE DEF UnderWay, Steps, setup
<1>1. CASE Firmware
  BY <1>1 DEF Firmware, Trigger, LostTrigger, BuildEvent
<1>2. CASE Configure
  BY <1>2 DEF Configure, IcFc7ConfigureBoard, IcGlibConfigureBoard, IcConfigureBoard,
              Cbc3ConfigureBoard, DataClockTimingTune
<1>3. CASE RunControl
  BY <1>3 DEF RunControl, IcFc7Start, IcGlibStart, IcFc7Stop, IcGlibStop, IcStart, IcStop,
              IcPause, IcResume, Cbc3Start, Cbc3Stop, Cbc3Pause, Cbc3Resume, Control, Called
<1>4. CASE CallReadData
  BY <1>4 DEF CallReadData, Called
<1>5. CASE IcBegin \/ Cbc3Begin
  BY <1>5 DEF IcBegin, Cbc3Begin, CallReadNEvents, Called
<1>6. CASE Reading
  BY <1>6 DEF Reading, IcFc7ReadData, IcGlibReadData, IcReadData, Cbc3Poll, Cbc3ReadData,
              IcStartCycle, IcFc7ReadNEvents, IcGlibReadNEvents, IcReadNEvents,
              Cbc3Restart, Cbc3Enough, Cbc3ReadNEvents
<1> QED
  BY <1>1, <1>2, <1>3, <1>4, <1>5, <1>6 DEF PacketNext, Calls

\* What leaves the transaction alone keeps the invariant.
LEMMA Untouched ==
    ASSUME OrderInv, UNCHANGED i2c, board' = board,
           call'.op = "I2c" => call.op = "I2c" /\ pc' = pc,
           pc' \in Steps => call'.op = "I2c" /\ pc' = pc
    PROVE  OrderInv'
<1>0. UNCHANGED <<order, pVecReg, pVecSend, pReplies, chip, fifo, pWriteAttempts, success,
                  refused, clean>>
  BY DEF i2c, attempt
<1>1. /\ OrderTypeOK' /\ UnderWay' /\ Sending'
  BY <1>0 DEF OrderInv, OrderTypeOK, UnderWay, Sending, Wait, Steps, AtOnce, AllThere, Broadcast,
              Ic, Queue
<1>2. Attempted'
  BY <1>0 DEF OrderInv, Attempted, Wait, Steps, Missing, Failures, AllThere
<1>3. Replied'
  <2>1. Compared' = Compared
    BY <1>0 DEF Compared, getOddElements
  <2>2. \A i : Right(i)' <=> Right(i)
    BY <1>0, <2>1 DEF Right, cmd_reply_comp, cmd_reply_ack
  <2>3. Wait' /\ pc' = "replies" => Wait /\ pc = "replies"
    BY DEF Wait, Steps
  <2>4. (AtOnce' <=> AtOnce) /\ (AllThere' <=> AllThere)
    BY <1>0 DEF AtOnce, AllThere
  <2> HIDE DEF Compared
  <2> QED
    BY <1>0, <2>1, <2>2, <2>3, <2>4 DEF OrderInv, Replied
<1>4. RepliesFit'
  <2>1. Compared' = Compared
    BY <1>0 DEF Compared, getOddElements
  <2>2. Answers' = Answers /\ (AllThere' <=> AllThere) /\ (Ic' <=> Ic)
    BY <1>0 DEF Answers, AllThere, Ic
  <2>3. pc' = "replies" => pc = "replies"
    BY DEF Steps
  <2> QED
    BY <1>0, <2>1, <2>2, <2>3 DEF OrderInv, RepliesFit
<1>5. WritesHeal'
  <2>1. \A x : Missing(x)' <=> Missing(x)
    BY <1>0 DEF Missing
  <2>2. pc' = "idle" /\ call'.op = "I2c" => pc = "idle" /\ call.op = "I2c"
    OBVIOUS
  <2> QED
    BY <1>0, <2>1, <2>2 DEF OrderInv, WritesHeal
<1> QED
  BY <1>1, <1>2, <1>3, <1>4, <1>5 DEF OrderInv

\* ReadData(), ReadNEvents() and the firmware keep the invariant.
LEMMA ReadoutKeeps == ASSUME OrderInv, Readout PROVE OrderInv'
<1>1. UNCHANGED i2c /\ PacketNext /\ UnderWay
  BY DEF Readout, OrderInv
<1> QED
  BY <1>1, OtherCalls, Untouched

\* And so does a step of neither.
LEMMA SilenceKeeps == ASSUME OrderInv, UNCHANGED packetVars, UNCHANGED i2c PROVE OrderInv'
<1>1. UNCHANGED i2c /\ board' = board /\ call' = call /\ pc' = pc /\ UnderWay
  BY DEF packetVars, setup, OrderInv
<1> QED
  BY <1>1, Untouched DEF UnderWay

\* A call: its registers are a sequence of them.
LEMMA SomeRegisters == ASSUME I2cAssumption, NEW r \in Registers PROVE r \in Seq(Register)
<1>1. r \in Seq(ToSet(r)) /\ ToSet(r) \subseteq Register
  BY DEF I2cAssumption, Register
<1> QED
  BY <1>1

\* A transaction begins, whatever was before it.
LEMMA BeginKeeps ==
    ASSUME I2cAssumption, OrderInv, NEW kind \in {"write", "broadcast", "read"},
           NEW to, IF kind = "broadcast" THEN to = Cbc ELSE \E c \in Cbc : to = {c},
           NEW regs \in Registers, NEW value \in {0, 1}, NEW bit \in BOOLEAN,
           NEW readback \in BOOLEAN,
           kind = "write" => Len(regs) <= fReplyBufferSize \div 2,
           kind = "write" => bit = readback,
           Begin(kind, to, regs, value, bit, readback)
    PROVE  OrderInv'
<1>1. regs \in Seq(Register)
  BY SomeRegisters
<1>2. /\ order' = [kind |-> kind, cbc |-> to, regs |-> regs, value |-> value,
                   read |-> bit, readback |-> readback]
      /\ pVecReg' = regs /\ pVecSend' = regs /\ pWriteAttempts' = 0 /\ pReplies' = <<>>
      /\ refused' = [r \in Register |-> 0]
      /\ clean' = \A c \in to : fifo[Queue(c)] = <<>>
      /\ pc' = "send" /\ call'.op = "I2c" /\ board' = board
      /\ fifo' = fifo
  BY DEF Begin, Called, setup
<1>3. /\ order' \in Orders /\ order'.kind = kind /\ order'.cbc = to /\ order'.regs = regs
      /\ order'.read = bit /\ order'.readback = readback
  BY <1>1, <1>2 DEF Orders
<1>4. OrderTypeOK' /\ UnderWay'
  BY <1>1, <1>2, <1>3 DEF OrderInv, OrderTypeOK, UnderWay, Steps, Broadcast, Ic
<1>5. Sending'
  BY <1>1, <1>2, <1>3 DEF OrderInv, OrderTypeOK, Sending, Wait, Steps, Broadcast, Ic, Queue
<1>6. Attempted'
  <2>1. Failures(0)' = 0
    BY DEF Failures
  <2> QED
    BY <1>1, <1>2, <1>3, <2>1 DEF Attempted, ToSet
<1>7. Replied' /\ WritesHeal'
  BY <1>2 DEF Replied, WritesHeal
<1>8. RepliesFit'
  <2>1. Len(<<>>) = 0
    OBVIOUS
  <2> QED
    BY <1>2, <2>1 DEF RepliesFit, I2cAssumption
<1> QED
  BY <1>4, <1>5, <1>6, <1>7, <1>8 DEF OrderInv

\* Each of the calls begins one.
LEMMA CallsKeep == ASSUME I2cAssumption, OrderInv, I2cCalls PROVE OrderInv'
<1>1. CASE CallWrite
  <2>1. PICK c \in Cbc, r \in Registers, v \in Values, b \in BOOLEAN :
           Len(r) <= fReplyBufferSize \div 2 /\ Begin("write", {c}, r, v, b, b)
    BY <1>1 DEF CallWrite
  <2> QED
    BY <2>1, BeginKeeps DEF I2cAssumption
<1>2. CASE CallBroadcast
  <2>1. PICK r \in Registers, v \in Values : Begin("broadcast", Cbc, r, v, FALSE, TRUE)
    BY <1>2 DEF CallBroadcast
  <2> QED
    BY <2>1, BeginKeeps DEF I2cAssumption
<1>3. CASE CallRead
  <2>1. PICK c \in Cbc, r \in Registers : Begin("read", {c}, r, 0, TRUE, FALSE)
    BY <1>3 DEF CallRead
  <2> QED
    BY <2>1, BeginKeeps DEF I2cAssumption
<1> QED
  BY <1>1, <1>2, <1>3 DEF I2cCalls

\* What the replies to a write show: a register not reached has failed once
\* more, and if every word has a reply to compare, it is written again.
LEMMA Shown ==
    ASSUME OrderInv, pc = "replies", call.op = "I2c", order.kind = "write", clean,
           NEW r \in ToSet(order.regs), Missing(r), NEW alike
    PROVE  /\ refused[r] >= Failures(pWriteAttempts + 1)
           /\ AllThere => r \in ToSet(get_mismatches(alike))
<1>1. Wait
  BY DEF Wait, Steps
<1>2. /\ refused[r] >= Failures(pWriteAttempts + 1)
      /\ AllThere => r \in ToSet(pVecReg)
  BY <1>1 DEF OrderInv, Attempted
<1>3. ASSUME AllThere PROVE r \in ToSet(get_mismatches(alike))
  <2>1. pVecReg \in Seq(Register)
    BY DEF OrderInv, OrderTypeOK
  <2>2. PICK i \in 1 .. Len(pVecReg) : r = pVecReg[i]
    BY <1>2, <1>3, <2>1 DEF ToSet
  <2>3. PICK c \in order.cbc : chip[c][r] # order.value
    BY DEF Missing
  <2>4. /\ Len(Compared) = Len(pVecReg)
        /\ Right(i) => chip[c][pVecReg[i]] = order.value
    BY <1>1, <1>3, <2>2, <2>3 DEF OrderInv, Replied, AtOnce
  <2>5. i \notin PastEnd
    <3>1. Len(pVecReg) \in Nat
      BY <2>1
    <3> QED
      BY <2>4, <3>1 DEF PastEnd
  <2>6. i \in Wrong(alike)
    BY <2>2, <2>3, <2>4, <2>5 DEF Wrong
  <2> QED
    BY <2>1, <2>2, <2>6, Mismatches
<1> QED
  BY <1>2, <1>3

\* The call returns: the program goes on or ends.
LEMMA ReturnKeeps ==
    ASSUME I2cAssumption, OrderInv, pc = "replies", pc' \in {"idle", "exited"},
           UNCHANGED <<readout, chip, fifo, refused, pReplies, clean, order, pVecReg, pVecSend>>,
           pWriteAttempts' \in Nat,
           order.kind = "write" /\ clean /\ pc' = "idle" /\ success' # "thrown" =>
              \A r \in ToSet(order.regs) :
                 Missing(r) => /\ refused[r] > (IF order.read THEN cMaxWriteAttempts ELSE 1)
                               /\ success' # "true"
    PROVE  OrderInv'
<1>1. call.op = "I2c" /\ call' = call /\ board' = board
  BY DEF OrderInv, UnderWay, Steps, readout, setup
<1>2. /\ OrderTypeOK' /\ UnderWay' /\ Sending' /\ Attempted' /\ Replied'
  BY <1>1 DEF OrderInv, OrderTypeOK, UnderWay, Sending, Attempted, Replied, Wait, Steps,
              Broadcast, Ic
<1>3. RepliesFit'
  BY <1>1 DEF OrderInv, RepliesFit, Ic
<1>4. WritesHeal'
  <2>1. \A r : Missing(r)' <=> Missing(r)
    BY DEF Missing
  <2>2. ASSUME clean, order.kind = "read", Len(pVecReg) <= fReplyBufferSize
        PROVE  \A i \in 1 .. Len(pVecReg) : \A c \in order.cbc :
                  pReplies[i].value = chip[c][pVecReg[i]]
    BY <1>1, <2>2 DEF OrderInv, Replied, Wait, Steps, AtOnce
  <2> QED
    BY <2>1, <2>2 DEF WritesHeal
<1> QED
  BY <1>2, <1>3, <1>4 DEF OrderInv

\* A repetition: the registers not reached are among those written again, and
\* have failed in one attempt more.
LEMMA AgainKeeps ==
    ASSUME I2cAssumption, OrderInv, pc = "replies", order.kind = "write", NEW alike,
           WriteAgain(get_mismatches(alike)),
           UNCHANGED <<readout, chip, fifo, refused, pReplies, clean>>
    PROVE  OrderInv'
<1> DEFINE again == get_mismatches(alike)
           n == pWriteAttempts
<1>0. call.op = "I2c" /\ call' = call /\ board' = board /\ (Ic' <=> Ic)
  BY DEF OrderInv, UnderWay, Steps, readout, setup, Ic
<1>1. order \in Orders /\ pVecReg \in Seq(Register) /\ n \in Nat
  BY DEF OrderInv, OrderTypeOK
<1>2. again \in Seq(Register) /\ Len(again) \in Nat /\ Len(again) <= Len(pVecReg)
  BY <1>1, Mismatches
<1> HIDE DEF again
<1>3. /\ pVecReg' = again /\ pVecSend' = again
      /\ order' = [order EXCEPT !.readback = TRUE] /\ pWriteAttempts' = n + 1
      /\ pc' = "send"
  BY DEF WriteAgain, again
<1>4. /\ order' \in Orders /\ order'.kind = order.kind /\ order'.cbc = order.cbc
      /\ order'.regs = order.regs /\ order'.value = order.value /\ order'.read = order.read
      /\ order'.readback = TRUE
  BY <1>1, <1>3 DEF Orders
<1>5. OrderTypeOK'
  BY <1>0, <1>1, <1>2, <1>3, <1>4 DEF OrderInv, OrderTypeOK
<1>6. UnderWay'
  <2>1. \E c \in Cbc : order.cbc = {c}
    BY <1>0 DEF OrderInv, UnderWay, Broadcast
  <2> QED
    BY <1>0, <1>3, <1>4, <2>1 DEF UnderWay, Steps, Broadcast
<1>7. Sending'
  <2>1. Ic => Len(pVecReg) <= fReplyBufferSize \div 2
    BY <1>0 DEF OrderInv, Sending, Wait, Steps
  <2>2. fReplyBufferSize \div 2 \in Int /\ Len(pVecReg) \in Int
    BY <1>1 DEF I2cAssumption
  <2>3. clean => \A c \in order.cbc : fifo[Queue(c)] = <<>>
    BY <1>0 DEF OrderInv, Sending, Wait, Steps, Broadcast
  <2>4. AllThere' => order'.read
    BY <1>1, <1>3, <1>4 DEF AllThere
  <2> DEFINE h == fReplyBufferSize \div 2
  <2> HIDE DEF h
  <2>5. Ic => Len(again) <= h
    BY <1>1, <1>2, <2>1, <2>2 DEF h
  <2>6. \A c : Queue(c)' = Queue(c)
    BY <1>0 DEF Queue
  <2> QED
    BY <1>0, <1>3, <1>4, <2>3, <2>4, <2>5, <2>6 DEF Sending, h
<1>8. Attempted'
  <2>1. SUFFICES ASSUME clean, NEW r \in ToSet(order.regs), Missing(r)
                 PROVE  /\ refused[r] >= Failures(n + 1)
                        /\ order.read \/ n + 1 < 2 => r \in ToSet(again)
    <3>1. \A x : Missing(x)' <=> Missing(x)
      BY <1>4 DEF Missing
    <3>2. Failures(pWriteAttempts)' = Failures(n + 1)
      BY <1>3, <1>4 DEF Failures
    <3>3. pWriteAttempts' = n + 1 /\ order'.read = order.read /\ order'.regs = order.regs
      BY <1>3, <1>4
    <3> QED
      BY <1>3, <2>1, <3>1, <3>2, <3>3 DEF Attempted
  <2>2. /\ refused[r] >= Failures(n + 1)
        /\ AllThere => r \in ToSet(again)
    BY <1>0, <2>1, Shown DEF again
  <2>3. order.read \/ n + 1 < 2 => AllThere
    BY <1>1 DEF AllThere
  <2> QED
    BY <2>2, <2>3
<1>9. Replied' /\ WritesHeal' /\ RepliesFit'
  BY <1>0, <1>3 DEF OrderInv, Replied, WritesHeal, RepliesFit
<1> QED
  BY <1>5, <1>6, <1>7, <1>8, <1>9 DEF OrderInv

\* What is done with the replies.
LEMMA RepliesKeep ==
    ASSUME I2cAssumption, OrderInv,
           WriteCbcBlockReg \/ BCWriteCbcBlockReg \/ ReadCbcBlockReg
    PROVE  OrderInv'
<1>1. pWriteAttempts \in Nat /\ cMaxWriteAttempts \in Nat \ {0} /\ TooMany \in Nat \ {0}
  BY DEF OrderInv, OrderTypeOK, I2cAssumption
<1>2. CASE WriteCbcBlockReg
  <2>1. /\ pc = "replies" /\ order.kind = "write" /\ call.op = "I2c"
        /\ UNCHANGED <<readout, chip, fifo, refused, pReplies, clean>>
    BY <1>2 DEF WriteCbcBlockReg, OrderInv, UnderWay, Steps
  <2>2. ASSUME NEW alike, WriteReturns(get_mismatches(alike)) PROVE OrderInv'
    <3> DEFINE again == get_mismatches(alike)
    <3>1. /\ again = <<>> \/ pWriteAttempts >= cMaxWriteAttempts
          /\ pWriteAttempts' \in Nat /\ pc' = "idle" /\ UNCHANGED <<pVecReg, pVecSend, order>>
          /\ success' = IF again = <<>> /\ pWriteAttempts = 0 THEN "true" ELSE "false"
      BY <1>1, <2>2 DEF WriteReturns
    <3>2. ASSUME clean, NEW r \in ToSet(order.regs), Missing(r)
          PROVE  /\ refused[r] > (IF order.read THEN cMaxWriteAttempts ELSE 1)
                 /\ success' # "true"
      <4>1. /\ refused[r] >= Failures(pWriteAttempts + 1)
            /\ AllThere => r \in ToSet(again)
        BY <2>1, <3>2, Shown
      <4>2. refused[r] \in Nat
        <5>1. r \in Register
          BY DEF OrderInv, OrderTypeOK, Orders, ToSet
        <5> QED
          BY <5>1 DEF OrderInv, OrderTypeOK
      <4>3. again = <<>> => ~AllThere
        BY <4>1 DEF ToSet
      <4> HIDE DEF again
      <4>4. success' # "true"
        BY <3>1, <4>3 DEF AllThere
      <4>5. CASE order.read
        BY <1>1, <3>1, <4>1, <4>2, <4>3, <4>5 DEF AllThere, Failures
      <4>6. CASE ~order.read
        <5>1. pWriteAttempts >= 1
          BY <1>1, <3>1, <4>3, <4>6 DEF AllThere
        <5> QED
          BY <1>1, <4>1, <4>2, <4>4, <4>6, <5>1 DEF Failures
      <4> QED
        BY <4>4, <4>5, <4>6
    <3> QED
      BY <2>1, <3>1, <3>2, ReturnKeeps
  <2>3. ASSUME NEW alike, WriteThrows(get_mismatches(alike)) PROVE OrderInv'
    BY <1>1, <2>1, <2>3, ReturnKeeps DEF WriteThrows
  <2>4. ASSUME WriteCrashes PROVE OrderInv'
    BY <1>1, <2>1, <2>4, ReturnKeeps DEF WriteCrashes
  <2>5. ASSUME NEW alike, WriteAgain(get_mismatches(alike)) PROVE OrderInv'
    BY <2>1, <2>5, AgainKeeps
  <2>6. \/ \E alike \in SUBSET PastEnd :
             \/ WriteAgain(get_mismatches(alike))
             \/ WriteReturns(get_mismatches(alike))
             \/ WriteThrows(get_mismatches(alike))
        \/ WriteCrashes
    BY <1>2 DEF WriteCbcBlockReg
  <2> QED
    BY <2>2, <2>3, <2>4, <2>5, <2>6
<1>3. CASE BCWriteCbcBlockReg
  BY <1>1, <1>3, ReturnKeeps DEF BCWriteCbcBlockReg, Broadcast
<1>4. CASE ReadCbcBlockReg
  BY <1>1, <1>4, ReturnKeeps DEF ReadCbcBlockReg, i2c, attempt
<1> QED
  BY <1>2, <1>3, <1>4

\* What is sent at a time is a part of the registers, and all of them when
\* they are no more than the replies have room for.
LEMMA Chunks ==
    ASSUME I2cAssumption, order \in Orders, order.cbc # {}, order.cbc \subseteq Cbc,
           NEW s \in Seq(Register)
    PROVE  /\ Chunk(s) \in Seq(Register) /\ Len(Chunk(s)) \in Nat /\ Len(Chunk(s)) <= Len(s)
           /\ Ic => Len(Chunk(s)) <= cM
           /\ SubSeq(s, Len(Chunk(s)) + 1, Len(s)) \in Seq(Register)
           /\ ~Ic \/ Len(s) <= cM => Chunk(s) = s /\ SubSeq(s, Len(Chunk(s)) + 1, Len(s)) = <<>>
<1>1. cM \in Nat
  <2>1. Cardinality(order.cbc) \in Nat \ {0}
    BY FS_Subset, FS_CardinalityType, FS_EmptySet DEF I2cAssumption
  <2>2. fReplyBufferSize \in Nat /\ Width \in {1, 2}
    BY DEF I2cAssumption, Width
  <2>3. fReplyBufferSize \div Width \in Nat
    BY <2>2
  <2> DEFINE b == fReplyBufferSize \div Width
             c == Cardinality(order.cbc)
  <2> HIDE DEF b, c
  <2>4. b \in Nat /\ c \in Nat \ {0}
    BY <2>1, <2>3 DEF b, c
  <2>5. b \div c \in Nat
    BY <2>4
  <2> QED
    BY <2>5 DEF cM, b, c
<1> DEFINE m == Min({cM, Len(s)})
<1>2. m = IF cM <= Len(s) THEN cM ELSE Len(s)
  BY <1>1, Smaller
<1>3. m \in Nat /\ m <= Len(s) /\ m <= cM /\ (Len(s) <= cM => m = Len(s))
  BY <1>1, <1>2
<1> HIDE DEF m
<1>4. CASE Ic
  <2>1. Chunk(s) = SubSeq(s, 1, m)
    BY <1>4 DEF Chunk, m
  <2>2. SubSeq(s, 1, m) \in Seq(Register) /\ Len(SubSeq(s, 1, m)) = m
    BY <1>3
  <2>3. SubSeq(s, m + 1, Len(s)) \in Seq(Register)
    BY <1>3
  <2>4. ASSUME m = Len(s) PROVE SubSeq(s, 1, m) = s /\ SubSeq(s, m + 1, Len(s)) = <<>>
    BY <1>3, <2>4
  <2> QED
    BY <1>1, <1>3, <1>4, <2>1, <2>2, <2>3, <2>4
<1>5. CASE ~Ic
  BY <1>5 DEF Chunk
<1> QED
  BY <1>4, <1>5

\* What goes to one chip at a time has room.
LEMMA Room ==
    ASSUME I2cAssumption, order \in Orders, NEW c \in Cbc, order.cbc = {c}, pVecReg \in Seq(Register),
           AtOnce, order.kind = "write" /\ Ic => Len(pVecReg) <= fReplyBufferSize \div 2
    PROVE  Ic => Len(pVecReg) <= cM
<1>1. /\ Width \in {1, 2}
      /\ order.kind = "read" => Width = 1
  BY DEF Width
<1>2. fReplyBufferSize \in Nat /\ Len(pVecReg) \in Nat
  BY DEF I2cAssumption
<1>3. fReplyBufferSize \div Width \in Nat
  <2>1. \A w \in {1, 2} : fReplyBufferSize \div w \in Nat
    BY <1>2
  <2> QED
    BY Zenon, <1>1, <2>1
<1>4. cM = fReplyBufferSize \div Width
  <2>1. Cardinality(order.cbc) = 1
    BY FS_Singleton
  <2> DEFINE b == fReplyBufferSize \div Width
  <2> HIDE DEF b
  <2>2. b \in Nat => b \div 1 = b
    OBVIOUS
  <2> QED
    BY <1>3, <2>1, <2>2 DEF cM, b
<1>5. fReplyBufferSize \div 1 = fReplyBufferSize
  BY <1>2
<1>6. fReplyBufferSize \div 2 <= fReplyBufferSize \div 1
  BY <1>2
<1>7. ASSUME Ic, order.kind = "write" PROVE Len(pVecReg) <= fReplyBufferSize \div Width
  BY <1>1, <1>2, <1>3, <1>6, <1>7
<1>8. ASSUME order.kind = "read" PROVE Len(pVecReg) <= fReplyBufferSize \div Width
  <2>1. Len(pVecReg) <= fReplyBufferSize
    BY <1>8 DEF AtOnce
  <2>2. Len(pVecReg) <= fReplyBufferSize \div 1
    BY <1>5, <2>1
  <2> QED
    BY Zenon, <1>1, <1>8, <2>2
<1>9. order.kind = "write" \/ order.kind = "read"
  BY DEF AtOnce
<1> QED
  BY Zenon, <1>4, <1>7, <1>8, <1>9

\* The replies fit, whatever is sent.
LEMMA AnyFit ==
    ASSUME I2cAssumption, order \in Orders, Ic, pVecSend \in Seq(Register),
           IF Broadcast THEN order.cbc = Cbc ELSE \E c \in Cbc : order.cbc = {c},
           order.kind = "write" /\ order.read => order.readback, NEW bad
    PROVE  LET s == RepliesOf(0, Chunk(pVecSend), bad) IN
           Len(s) <= fReplyBufferSize /\ <<>> \o s = s
<1> DEFINE regs == Chunk(pVecSend)
<1>1. order.cbc # {} /\ order.cbc \subseteq Cbc
  BY DEF I2cAssumption, Orders
<1>2. regs \in Seq(Register) /\ Len(regs) \in Nat /\ Len(regs) <= cM
  BY <1>1, Chunks
<1> HIDE DEF regs
<1>3. CASE Broadcast
  BY <1>2, <1>3, AllChips DEF regs
<1>4. CASE ~Broadcast
  <2>1. PICK c \in Cbc : order.cbc = {c}
    BY <1>4
  <2>2. Queue(c) = 0
    BY DEF Queue
  <2>3. Len(RepliesOf(0, regs, bad)) = Len(regs) * Answers
        /\ <<>> \o RepliesOf(0, regs, bad) = RepliesOf(0, regs, bad)
    BY <1>2, <2>1, <2>2, OneChip
  <2>4. /\ Width \in {1, 2} /\ Answers \in {1, 2} /\ Answers <= Width
        /\ fReplyBufferSize \in Nat
    BY DEF Width, Answers, I2cAssumption
  <2>5. cM = fReplyBufferSize \div Width
    <3>1. Cardinality(order.cbc) = 1
      BY <2>1, FS_Singleton
    <3>2. fReplyBufferSize \div Width \in Nat
      BY <2>4
    <3> DEFINE b == fReplyBufferSize \div Width
    <3> HIDE DEF b
    <3>3. b \in Nat => b \div 1 = b
      OBVIOUS
    <3> QED
      BY <3>1, <3>2, <3>3 DEF cM, b
  <2>6. Len(regs) * Answers <= fReplyBufferSize
    BY <1>2, <2>4, <2>5
  <2> QED
    BY <2>3, <2>6 DEF regs
<1> QED
  BY <1>3, <1>4

\* A reply tells what happened to its register: the first one of a word not
\* read back whether it was acknowledged, the last one of a word read back
\* what the chip holds.
LEMMA Tells ==
    ASSUME order.kind = "write", NEW c, order.cbc = {c}, NEW r, NEW bad
    PROVE  LET a == Reply(c, r, bad)[Answers] IN
           /\ order.read /\ cmd_reply_comp(r, a) =>
                 <<c, r>> \notin bad \/ chip[c][r] = order.value
           /\ ~order.read /\ cmd_reply_ack(r, a) => <<c, r>> \notin bad
<1>1. CASE order.read
  <2>1. Answers = 2
    BY <1>1 DEF Answers
  <2>2. Reply(c, r, bad)[2].value = IF <<c, r>> \in bad THEN chip[c][r] ELSE order.value
    BY <2>1 DEF Reply
  <2> QED
    BY <1>1, <2>1, <2>2 DEF cmd_reply_comp
<1>2. CASE ~order.read
  <2>1. Answers = 1
    BY <1>2 DEF Answers
  <2>2. Reply(c, r, bad)[1].info <=> <<c, r>> \in bad
    BY <2>1 DEF Reply
  <2> QED
    BY <1>2, <2>1, <2>2 DEF cmd_reply_ack
<1> QED
  BY <1>1, <1>2

\* A chunk: what it does to the registers, and to the queue it is read from.
LEMMA ChunkKeeps == ASSUME I2cAssumption, OrderInv, WriteI2C PROVE OrderInv'
<1> DEFINE regs == Chunk(pVecSend)
           from == IF Broadcast \/ Ic THEN 0 ELSE Queue(CHOOSE c \in order.cbc : TRUE)
<1>0. /\ pc = "send" /\ call.op = "I2c" /\ call' = call /\ board' = board
      /\ UNCHANGED <<order, pVecReg, pWriteAttempts, success, clean>>
      /\ order \in Orders /\ pVecReg \in Seq(Register) /\ pVecSend \in Seq(Register)
      /\ pWriteAttempts \in Nat /\ refused \in [Register -> Nat]
      /\ IF Broadcast THEN order.cbc = Cbc ELSE \E c \in Cbc : order.cbc = {c}
      /\ pc' = IF pVecSend' = <<>> THEN "replies" ELSE "send"
      /\ pVecSend' = SubSeq(pVecSend, Len(regs) + 1, Len(pVecSend))
  BY DEF WriteI2C, readout, setup, attempt, OrderInv, OrderTypeOK, UnderWay, Steps
<1>k. PICK k \in 0 .. MaxNacks - nacks : \E bad \in kSubset(k, order.cbc \X ToSet(regs)) :
          /\ order.kind = "read" => bad = {}
          /\ nacks' = nacks + k
          /\ refused' = [r \in Register |->
                         IF \E c \in order.cbc : <<c, r>> \in bad THEN refused[r] + 1 ELSE refused[r]]
          /\ chip' = [c \in Cbc |-> [r \in Register |->
                         IF order.kind # "read" /\ c \in order.cbc /\ r \in ToSet(regs)
                            /\ <<c, r>> \notin bad THEN order.value ELSE chip[c][r]]]
          /\ LET all == [f \in Fes |-> fifo[f] \o RepliesOf(f, regs, bad)] IN
             /\ pReplies' = all[from]
             /\ fifo' = [all EXCEPT ![from] = <<>>]
  BY DEF WriteI2C
<1>1. PICK bad \in kSubset(k, order.cbc \X ToSet(regs)) :
          /\ order.kind = "read" => bad = {}
          /\ nacks' = nacks + k
          /\ refused' = [r \in Register |->
                         IF \E c \in order.cbc : <<c, r>> \in bad THEN refused[r] + 1 ELSE refused[r]]
          /\ chip' = [c \in Cbc |-> [r \in Register |->
                         IF order.kind # "read" /\ c \in order.cbc /\ r \in ToSet(regs)
                            /\ <<c, r>> \notin bad THEN order.value ELSE chip[c][r]]]
          /\ LET all == [f \in Fes |-> fifo[f] \o RepliesOf(f, regs, bad)] IN
             /\ pReplies' = all[from]
             /\ fifo' = [all EXCEPT ![from] = <<>>]
  BY <1>k
<1>2. order.cbc # {} /\ order.cbc \subseteq Cbc
  BY <1>0 DEF I2cAssumption, Orders
<1>3. pVecSend' \in Seq(Register)
  BY <1>0, <1>2, Chunks
<1>4. from \in Fes /\ (Ic => from = 0)
  <2>1. (CHOOSE c \in order.cbc : TRUE) \in Cbc
    BY <1>2
  <2> QED
    BY <2>1 DEF I2cAssumption, Queue
<1>5. /\ pReplies' = fifo[from] \o RepliesOf(from, regs, bad)
      /\ fifo'[from] = <<>>
  BY <1>1, <1>4
<1> HIDE DEF from
<1>6. OrderTypeOK'
  <2>1. refused' \in [Register -> Nat]
    <3>1. \A r \in Register : refused[r] \in Nat /\ refused[r] + 1 \in Nat
      BY <1>0
    <3> QED
      BY <1>1, <3>1
  <2>2. Ic' <=> Ic
    BY <1>0 DEF Ic
  <2> QED
    BY <1>0, <1>3, <1>4, <1>5, <2>1, <2>2 DEF OrderTypeOK
<1>7. UnderWay'
  BY <1>0 DEF UnderWay, Steps, Broadcast
<1>8. WritesHeal'
  BY <1>0 DEF WritesHeal
<1>9. ASSUME Ic PROVE Len(pReplies') <= fReplyBufferSize
  <2>1. fifo[from] = <<>> /\ from = 0
    BY <1>4, <1>9 DEF OrderInv, OrderTypeOK
  <2>2. order.kind = "write" /\ order.read => order.readback
    BY <1>0 DEF OrderInv, Sending, Wait, Steps, AllThere
  <2> QED
    BY <1>0, <1>5, <1>9, <2>1, <2>2, AnyFit
<1>10. CASE Broadcast
  <2>1. ~AtOnce' /\ Broadcast'
    BY <1>0, <1>10 DEF AtOnce, Broadcast
  <2>2. RepliesFit'
    BY <1>0, <1>9, <1>10 DEF RepliesFit, Ic, Broadcast
  <2>3. Sending' /\ Attempted' /\ Replied'
    BY <1>0, <1>10, <2>1 DEF Sending, Attempted, Replied, Broadcast
  <2> QED
    BY <1>6, <1>7, <1>8, <2>2, <2>3 DEF OrderInv
<1>11. CASE ~Broadcast
  <2>1. PICK c \in Cbc : order.cbc = {c}
    BY <1>0, <1>11
  <2>2. from = Queue(c)
    <3>1. (CHOOSE x \in order.cbc : TRUE) = c
      BY <2>1
    <3>2. CASE Ic
      BY <3>2 DEF from, Queue
    <3>3. CASE ~Ic
      BY Zenon, <1>11, <3>1, <3>3 DEF from
    <3> QED
      BY <3>2, <3>3
  <2>3. /\ order.kind = "write" /\ Ic => Len(pVecReg) <= fReplyBufferSize \div 2
        /\ order.kind = "write" /\ AllThere => order.readback = order.read
    BY <1>0 DEF OrderInv, Sending, Wait, Steps
  <2>4. ASSUME AtOnce PROVE regs = pVecReg /\ pVecSend' = <<>> /\ pc' = "replies"
    <3>1. pVecSend = pVecReg
      BY <1>0, <2>4 DEF OrderInv, Sending, Wait, Steps
    <3>2. Ic => Len(pVecReg) <= cM
      BY <1>0, <2>1, <2>3, <2>4, Room
    <3> QED
      BY <1>0, <1>2, <3>1, <3>2, Chunks
  <2>5. ASSUME fifo[from] = <<>>, AtOnce
        PROVE  /\ Len(pReplies') = Len(pVecReg) * Answers
               /\ \A i \in 1 .. Len(pVecReg) :
                     /\ Answers = 1 => pReplies'[i] = Reply(c, pVecReg[i], bad)[1]
                     /\ Answers = 2 => pReplies'[2 * i] = Reply(c, pVecReg[i], bad)[2]
    <3>1. pReplies' = <<>> \o RepliesOf(Queue(c), pVecReg, bad)
      BY <1>5, <2>2, <2>4, <2>5
    <3> DEFINE s == RepliesOf(Queue(c), pVecReg, bad)
    <3>2. /\ Len(s) = Len(pVecReg) * Answers /\ <<>> \o s = s
          /\ \A i \in 1 .. Len(pVecReg) :
                /\ Answers = 1 => s[i] = Reply(c, pVecReg[i], bad)[1]
                /\ Answers = 2 => s[2 * i] = Reply(c, pVecReg[i], bad)[2]
      <4>1. /\ pVecReg \in Seq(Register) /\ order.cbc = {c}
        BY <1>0, <2>1
      <4> HIDE DEF s
      <4>2. s = RepliesOf(Queue(c), pVecReg, bad)
        BY DEF s
      <4>3. /\ Len(RepliesOf(Queue(c), pVecReg, bad)) = Len(pVecReg) * Answers
            /\ <<>> \o RepliesOf(Queue(c), pVecReg, bad) = RepliesOf(Queue(c), pVecReg, bad)
            /\ \A i \in 1 .. Len(pVecReg) :
                  /\ Answers = 1 => RepliesOf(Queue(c), pVecReg, bad)[i] = Reply(c, pVecReg[i], bad)[1]
                  /\ Answers = 2 => RepliesOf(Queue(c), pVecReg, bad)[2 * i] = Reply(c, pVecReg[i], bad)[2]
        BY SMTT(30), <4>1, OneChip
      <4> QED
        BY Zenon, <4>2, <4>3
    <3> HIDE DEF s
    <3>3. pReplies' = s
      BY <3>1, <3>2 DEF s
    <3> QED
      BY <3>2, <3>3
  <2>6. ASSUME fifo[from] = <<>>, order.kind = "write", AllThere
        PROVE  /\ Len(Compared') = Len(pVecReg)
               /\ \A i \in 1 .. Len(pVecReg) : Compared'[i] = Reply(c, pVecReg[i], bad)[Answers]
    <3>1. /\ Len(pReplies') = Len(pVecReg) * Answers /\ Len(pVecReg) \in Nat
          /\ \A i \in 1 .. Len(pVecReg) :
                /\ Answers = 1 => pReplies'[i] = Reply(c, pVecReg[i], bad)[1]
                /\ Answers = 2 => pReplies'[2 * i] = Reply(c, pVecReg[i], bad)[2]
      BY <1>0, <2>5, <2>6 DEF AtOnce
    <3>2. CASE order.read
      <4>1. Answers = 2
        BY <2>6, <3>2 DEF Answers
      <4>2. Compared' = getOddElements(pReplies')
        BY <1>0, <2>3, <2>6, <3>2 DEF Compared, getOddElements
      <4>3. Len(pReplies') \div 2 = Len(pVecReg)
        BY <3>1, <4>1
      <4>4. getOddElements(pReplies') = [i \in 1 .. Len(pVecReg) |-> pReplies'[2 * i]]
        BY Zenon, <4>3 DEF getOddElements
      <4>5. Len(Compared') = Len(pVecReg)
        BY <3>1, <4>2, <4>4
      <4>6. \A i \in 1 .. Len(pVecReg) : Compared'[i] = pReplies'[2 * i]
        BY <4>2, <4>4
      <4> QED
        BY Zenon, <3>1, <4>1, <4>5, <4>6
    <3>3. CASE ~order.read
      <4>1. Answers = 1
        BY <3>3 DEF Answers
      <4>2. Compared' = pReplies'
        BY <1>0, <2>3, <2>6, <3>3 DEF Compared
      <4>3. Len(pVecReg) * 1 = Len(pVecReg)
        BY <3>1
      <4> QED
        BY Zenon, <3>1, <4>1, <4>2, <4>3
    <3> QED
      BY <3>2, <3>3
  <2>7. RepliesFit'
    <3>1. ASSUME Ic, order.kind = "write"
          PROVE  /\ Len(pReplies') = Answers * Len(pVecReg)
                 /\ AllThere => Len(Compared') = Len(pVecReg)
      <4>1. fifo[from] = <<>> /\ AtOnce
        BY <1>4, <3>1 DEF OrderInv, OrderTypeOK, AtOnce
      <4>2. Len(pVecReg) \in Nat /\ Answers \in {1, 2}
        BY <1>0 DEF Answers
      <4> QED
        BY <2>5, <2>6, <3>1, <4>1, <4>2
    <3>2. (Ic' <=> Ic) /\ Answers' = Answers /\ (AllThere' <=> AllThere)
      BY <1>0 DEF Ic, Answers, AllThere
    <3> QED
      BY <1>0, <1>9, <3>1, <3>2 DEF RepliesFit
  <2>8. Sending'
    <3>1. /\ (AtOnce' <=> AtOnce) /\ (Ic' <=> Ic) /\ (AllThere' <=> AllThere)
          /\ \A x : Queue(x)' = Queue(x)
      BY <1>0 DEF AtOnce, Ic, Queue, AllThere
    <3>2. \A x \in order'.cbc : fifo'[Queue(x)'] = <<>>
      BY <1>0, <1>5, <2>1, <2>2, <3>1
    <3>3. pc' = "send" => ~AtOnce'
      BY <2>4, <3>1
    <3>4. /\ order'.kind = "write" /\ Ic' => Len(pVecReg') <= fReplyBufferSize \div 2
          /\ order'.kind = "write" /\ AllThere' => order'.readback = order'.read
      BY Zenon, <1>0, <2>3, <3>1
    <3> QED
      BY Zenon, <3>2, <3>3, <3>4 DEF Sending
  <2>9. ASSUME AtOnce
        PROVE  \A r \in ToSet(pVecReg) : r \in Register /\
                  chip'[c][r] = IF order.kind # "read" /\ <<c, r>> \notin bad
                                THEN order.value ELSE chip[c][r]
    <3>1. \A r \in ToSet(pVecReg) : r \in Register /\ r \in ToSet(regs)
      BY <1>0, <2>4, <2>9 DEF ToSet
    <3> QED
      BY <1>1, <2>1, <3>1
  <2>10. Replied'
    <3>1. SUFFICES ASSUME clean, AtOnce
                   PROVE  /\ order.kind = "write" /\ AllThere =>
                               /\ Len(Compared') = Len(pVecReg)
                               /\ \A i \in 1 .. Len(pVecReg) :
                                     Right(i)' => chip'[c][pVecReg[i]] = order.value
                          /\ order.kind = "read" =>
                               \A i \in 1 .. Len(pVecReg) : pReplies'[i].value = chip'[c][pVecReg[i]]
      <4>1. (AtOnce' <=> AtOnce) /\ (AllThere' <=> AllThere)
        BY <1>0 DEF AtOnce, AllThere
      <4> QED
        BY <1>0, <2>1, <4>1 DEF Replied
    <3>2. fifo[from] = <<>>
      BY <1>0, <1>11, <2>1, <2>2, <3>1 DEF OrderInv, Sending, Wait, Steps
    <3>3. \A i \in 1 .. Len(pVecReg) : pVecReg[i] \in ToSet(pVecReg)
      BY <1>0 DEF ToSet
    <3>4. ASSUME order.kind = "read", NEW i \in 1 .. Len(pVecReg)
          PROVE  pReplies'[i].value = chip'[c][pVecReg[i]]
      <4>1. Answers = 1
        BY <3>4 DEF Answers
      <4>2. pReplies'[i] = Reply(c, pVecReg[i], bad)[1]
        BY <2>5, <3>1, <3>2, <4>1
      <4>3. Reply(c, pVecReg[i], bad)[1].value = chip[c][pVecReg[i]]
        BY <3>4, <4>1 DEF Reply
      <4> QED
        BY <2>9, <3>1, <3>3, <3>4, <4>2, <4>3
    <3>5. ASSUME order.kind = "write", AllThere, NEW i \in 1 .. Len(pVecReg), Right(i)'
          PROVE  chip'[c][pVecReg[i]] = order.value
      <4> DEFINE a == Reply(c, pVecReg[i], bad)[Answers]
      <4>1. Compared'[i] = a
        BY <2>6, <3>2, <3>5
      <4> HIDE DEF a
      <4>2. IF order.read THEN cmd_reply_comp(pVecReg[i], a) ELSE cmd_reply_ack(pVecReg[i], a)
        <5>1. order.readback = order.read
          BY <2>3, <3>5
        <5>2. IF order.readback THEN cmd_reply_comp(pVecReg[i], Compared'[i])
              ELSE cmd_reply_ack(pVecReg[i], Compared'[i])
          BY <1>0, <3>5 DEF Right, cmd_reply_comp, cmd_reply_ack
        <5> QED
          BY <4>1, <5>1, <5>2
      <4>3. <<c, pVecReg[i]>> \notin bad \/ chip[c][pVecReg[i]] = order.value
        BY <2>1, <3>5, <4>2, Tells DEF a
      <4> QED
        BY <2>9, <3>1, <3>3, <3>5, <4>3
    <3> QED
      BY <2>6, <3>2, <3>4, <3>5
  <2>11. Attempted'
    <3>1. SUFFICES ASSUME clean, order.kind = "write", NEW r \in ToSet(order.regs), Missing(r)'
                   PROVE  /\ refused'[r] >= Failures(pWriteAttempts + 1)
                          /\ AllThere => r \in ToSet(pVecReg)
      <4>1. order.kind = "write" => pc' = "replies"
        BY <2>4 DEF AtOnce
      <4>2. /\ Failures(pWriteAttempts + 1)' = Failures(pWriteAttempts + 1)
            /\ AllThere' <=> AllThere
        BY <1>0 DEF Failures, AllThere
      <4> QED
        BY <1>0, <4>1, <4>2 DEF Attempted
    <3>2. r \in Register
      BY <1>0 DEF Orders, ToSet
    <3>3. chip'[c][r] # order.value /\ c \in Cbc
      BY <1>0, <2>1, <3>1 DEF Missing
    <3>4. /\ chip[c][r] # order.value
          /\ r \in ToSet(pVecReg) => <<c, r>> \in bad
      <4>1. chip'[c][r] = order.value \/ chip'[c][r] = chip[c][r]
        BY <1>1, <3>2
      <4>2. r \in ToSet(pVecReg) /\ <<c, r>> \notin bad => chip'[c][r] = order.value
        BY <2>9, <3>1 DEF AtOnce
      <4> QED
        BY <3>3, <4>1, <4>2
    <3>5. Missing(r)
      BY <2>1, <3>4 DEF Missing
    <3>6. /\ refused[r] >= Failures(pWriteAttempts)
          /\ order.read \/ pWriteAttempts < 2 => r \in ToSet(pVecReg)
      BY <1>0, <3>1, <3>5 DEF OrderInv, Attempted, Wait, Steps
    <3>7. /\ refused[r] \in Nat
          /\ r \in ToSet(pVecReg) => refused'[r] = refused[r] + 1
          /\ refused'[r] = refused[r] + 1 \/ refused'[r] = refused[r]
      <4>1. refused[r] \in Nat
        BY <1>0, <3>2
      <4>2. r \in ToSet(pVecReg) => refused'[r] = refused[r] + 1
        BY <1>1, <2>1, <3>2, <3>4
      <4>3. refused'[r] = refused[r] + 1 \/ refused'[r] = refused[r]
        BY <1>1, <3>2
      <4> QED
        BY <4>1, <4>2, <4>3
    <3>8. refused'[r] >= Failures(pWriteAttempts + 1)
      <4>1. CASE r \in ToSet(pVecReg)
        BY <1>0, <3>6, <3>7, <4>1 DEF Failures
      <4>2. CASE r \notin ToSet(pVecReg)
        <5>1. ~order.read /\ pWriteAttempts >= 2
          BY <1>0, <3>6, <4>2
        <5> QED
          BY <1>0, <3>6, <3>7, <4>2, <5>1 DEF Failures
      <4> QED
        BY <4>1, <4>2
    <3>9. AllThere => r \in ToSet(pVecReg)
      BY <1>0, <3>6 DEF AllThere
    <3> QED
      BY <3>8, <3>9
  <2> QED
    BY <1>6, <1>7, <1>8, <2>7, <2>8, <2>10, <2>11 DEF OrderInv
<1> QED
  BY <1>10, <1>11

\* The invariant holds at first.
LEMMA OrderBegins == ASSUME I2cAssumption, InitI2c PROVE OrderInv
<1>1. Len(<<>>) = 0 /\ <<>> \in Seq(Register)
  OBVIOUS
<1>2. /\ order = [kind |-> "broadcast", cbc |-> Cbc, regs |-> <<>>, value |-> 0,
                  read |-> FALSE, readback |-> FALSE]
      /\ call.op = "none" /\ pc = "off" /\ pWriteAttempts = 0
      /\ refused = [r \in Register |-> 0]
      /\ pVecReg = <<>> /\ pVecSend = <<>> /\ pReplies = <<>> /\ fifo = [f \in Fes |-> <<>>]
  BY DEF InitI2c, InitPacket, NoCall
<1>3. OrderTypeOK
  BY <1>1, <1>2 DEF OrderTypeOK, Orders, I2cAssumption
<1>4. UnderWay /\ Sending /\ Attempted /\ Replied /\ WritesHeal
  BY <1>2 DEF UnderWay, Sending, Attempted, Replied, WritesHeal, Wait, Steps
<1>5. RepliesFit
  BY <1>1, <1>2 DEF RepliesFit, I2cAssumption
<1> QED
  BY <1>3, <1>4, <1>5 DEF OrderInv

\* The transactions of the I2C path, one step after the other: what is under
\* way, what of it is sent, what the replies say, and the two properties below
\* hold from the start, and every step of the board keeps them.
THEOREM TransactionsRight == BoardSpec => []OrderInv
<1>1. InitI2c => OrderInv
  BY OrderBegins, I2cAssumption
<1>2. OrderInv /\ [BoardNext]_i2cVars => OrderInv'
  <2>1. SUFFICES ASSUME OrderInv, [BoardNext]_i2cVars PROVE OrderInv'
    OBVIOUS
  <2>2. CASE Readout
    BY <2>1, <2>2, ReadoutKeeps
  <2>3. CASE I2cCalls
    BY <2>1, <2>3, CallsKeep, I2cAssumption
  <2>4. CASE WriteI2C
    BY <2>1, <2>4, ChunkKeeps, I2cAssumption
  <2>5. CASE WriteCbcBlockReg \/ BCWriteCbcBlockReg \/ ReadCbcBlockReg
    BY <2>1, <2>5, RepliesKeep, I2cAssumption
  <2>6. CASE UNCHANGED i2cVars
    <3>1. UNCHANGED packetVars /\ UNCHANGED i2c
      BY <2>6 DEF i2cVars
    <3> QED
      BY <2>1, <3>1, SilenceKeeps
  <2> QED
    BY <2>1, <2>2, <2>3, <2>4, <2>5, <2>6
       DEF BoardNext, I2c, IcFc7WriteI2C, IcGlibWriteI2C, Cbc3WriteI2C, IcFc7WriteCbcBlockReg,
           IcGlibWriteCbcBlockReg, Cbc3WriteCbcBlockReg, IcFc7BCWriteCbcBlockReg,
           IcGlibBCWriteCbcBlockReg, Cbc3BCWriteCbcBlockReg
<1> QED
  BY <1>1, <1>2, PTL DEF BoardSpec

\* The replies to what WriteI2C() sends an IC board at a time always fit the
\* reply buffer, however many chips and registers there are, and those of a
\* write are all there when get_mismatches() compares them; it stays within
\* them unless the words repeated do not ask to be read back.
THEOREM RepliesAlwaysFit == BoardSpec => []RepliesFit
<1>1. OrderInv => RepliesFit
  BY DEF OrderInv
<1> QED
  BY <1>1, TransactionsRight, PTL

\* A register that does not have its value in the chip when WriteCbcBlockReg()
\* returns has failed to acknowledge every attempt of a verified write and two
\* of an unverified one, whatever its repetition reads past the replies; a
\* write reported as good has reached them all; and a read returns the values
\* of the registers.  A module whose queue a broadcast has left replies in is
\* excepted.
THEOREM WritesAlwaysHeal == BoardSpec => []WritesHeal
<1>1. OrderInv => WritesHeal
  BY DEF OrderInv
<1> QED
  BY <1>1, TransactionsRight, PTL
=============================================================================
