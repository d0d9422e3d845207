-------------------------- MODULE Programs_proofs --------------------------
(***************************************************************************)
(* Theorems about the programs with threads of their own (MCPrograms), for *)
(* every file, every image, every number of faults and every bound.        *)
(***************************************************************************)
EXTENDS MCPrograms, FiniteSetTheorems, TLAPS

(* A step of the irradiation test keeps the invariant of its watchdogs.    *)
LEMMA DogStep ==
    ASSUME DogInv, DogNext
    PROVE  DogInv'
<1> USE DEF DogInv, MutexOK, DeadlineHeld, JoinedEnded, BitesInTime, Running, threadVars
<1>1. ASSUME Running, DogLocks PROVE DogInv'
  BY <1>1 DEF DogLocks
<1>2. ASSUME Running, DogChecks PROVE DogInv'
  BY <1>2 DEF DogChecks
<1>3. ASSUME Running, DogBites PROVE DogInv'
  BY <1>3 DEF DogBites
<1>4. ASSUME Running, Callback PROVE DogInv'
  <2>1. late /\ bitten' = Append(bitten, TRUE)
    BY <1>4 DEF Callback
  <2>2. bitten' \in Seq(BOOLEAN) /\ \A k \in DOMAIN bitten' : bitten'[k]
    BY <2>1
  <2> QED
    BY <1>4, <2>2 DEF Callback
<1>5. ASSUME Running, Begin \/ Again1 PROVE DogInv'
  BY <1>5 DEF Begin, Again1, Start
<1>6. ASSUME Running, Measured \/ TakeData \/ DaqLoop \/ Return PROVE DogInv'
  BY <1>6 DEF Measured, TakeData, DaqLoop, Return
<1>7. ASSUME Running, Reset PROVE DogInv'
  BY <1>7 DEF Reset
<1>8. ASSUME Running, StopLook("stop", "stop lock", "again") \/ StopLook("last", "last lock", "end")
      PROVE  DogInv'
  <2>1. /\ main \notin {"begin", "again", "end"} /\ main' # "begin" /\ Running'
        /\ UNCHANGED threadVars /\ bitten' = bitten
    BY <1>8 DEF StopLook
  <2>2. joined => dog = "ended"
    BY <2>1
  <2>3. MutexOK' /\ DeadlineHeld'
    BY <1>8, <2>1
  <2>4. JoinedEnded' /\ BitesInTime'
    BY <2>1, <2>2
  <2> QED
    BY <2>3, <2>4
<1>9. ASSUME Running, StopNotify("stop lock", "stop join") \/ StopNotify("last lock", "last join")
      PROVE  DogInv'
  <2>1. MutexOK'
    BY <1>9 DEF StopNotify
  <2>2. DeadlineHeld'
    BY <1>9 DEF StopNotify
  <2>3. JoinedEnded'
    <3>1. main # "begin" /\ main' # "begin" /\ dog' = dog /\ joined' = joined
      BY <1>9 DEF StopNotify
    <3> QED
      BY <3>1
  <2>4. BitesInTime'
    BY <1>9 DEF StopNotify
  <2> QED
    BY <2>1, <2>2, <2>3, <2>4
<1>10. ASSUME Running, StopJoin("stop join", "again") \/ StopJoin("last join", "end")
       PROVE  DogInv'
  BY <1>10 DEF StopJoin
<1>11. ASSUME Running, Late PROVE DogInv'
  BY <1>11 DEF Late
<1> QED
  BY <1>1, <1>2, <1>3, <1>4, <1>5, <1>6, <1>7, <1>8, <1>9, <1>10, <1>11 DEF DogNext, Dog, Main
-----------------------------------------------------------------------------
(* Where the words of a file are: in the file, and in the flash.           *)

(* What is assumed of the constants, one by one.                           *)
LEMMA GlibConstants ==
    /\ Ela \in Nat /\ Ela > 0 /\ max_write_buffer \in Nat /\ max_write_buffer > 0
    /\ Ela % max_write_buffer = 0 /\ Files \subseteq Nat \ {0}
    /\ HigherGolden \in Nat /\ LowerGolden \in Nat /\ HigherUser \in Nat /\ LowerUser \in Nat
    /\ LowerUser <= HigherUser /\ HigherUser < LowerGolden /\ LowerGolden <= HigherGolden
BY GlibAssumption DEF GlibAssumption

(* A quotient and a remainder are the only ones.                           *)
LEMMA Quotient ==
    ASSUME NEW d \in Nat \ {0}, NEW q \in Nat, NEW r \in 0 .. d - 1
    PROVE  (d * q + r) \div d = q /\ (d * q + r) % d = r
<1> DEFINE x == d * q + r
           p == x \div d
<1>1. x \in Nat /\ d * q \in Nat
  OBVIOUS
<1>2. p \in Int /\ d * p \in Int /\ d * p <= x /\ x < d * p + d /\ x % d = x - d * p
  BY <1>1
<1>3. CASE p < q
  <2>1. d * (p + 1) <= d * q
    BY <1>2, <1>3
  <2>2. d * (p + 1) = d * p + d
    BY <1>2
  <2> QED
    BY <1>1, <1>2, <2>1, <2>2
<1>4. CASE p > q
  <2>1. d * (q + 1) <= d * p
    BY <1>2, <1>4
  <2>2. d * (q + 1) = d * q + d
    BY <1>2
  <2> QED
    BY <1>1, <1>2, <2>1, <2>2
<1> QED
  BY <1>2, <1>3, <1>4

(* ELAs follow each other; two of them make a block.                       *)
LEMMA ElaOrder ==
    ASSUME NEW e \in Nat
    PROVE  /\ BeforeEla(e) \in Nat /\ BeforeEla(e + 1) = BeforeEla(e) + Ela
           /\ RecordsTo(e) \in Nat /\ RecordsTo(e) > 0 /\ RecordsTo(e + 1) = RecordsTo(e) + Ela + 1
           /\ e <= BeforeEla(e)
<1>1. Ela * (e + 1) = Ela * e + Ela /\ (Ela + 1) * (e + 1) = (Ela + 1) * e + (Ela + 1)
  BY GlibConstants
<1>2. Ela * e \in Nat /\ (Ela + 1) * e \in Nat
  BY GlibConstants
<1>3. e <= Ela * e
  <2>1. (Ela - 1) * e \in Nat /\ Ela * e = (Ela - 1) * e + e
    BY GlibConstants
  <2> QED
    BY <2>1
<1> QED
  BY <1>1, <1>2, <1>3, GlibConstants DEF BeforeEla, RecordsTo

(* A word past the stored ones is in the buffer.                           *)
LEMMA BufferWord ==
    ASSUME NEW before \in Nat, NEW a \in 0 .. Ela, NEW l \in 1 .. a,
           NEW w \in 0 .. before + a - 1, w >= before + (a - l)
    PROVE  /\ w - before \in 0 .. Ela - 1 /\ (w - before) - (a - l) + 1 \in 1 .. l
           /\ w = before + (w - before)
  BY GlibConstants

(* The word at address a of an ELA is in the half block of the ELA.        *)
LEMMA WordPlace ==
    ASSUME NEW e \in Nat, NEW a \in 0 .. Ela - 1
    PROVE  /\ ReadSoFar(e, a) \div (2 * Ela) = e \div 2
           /\ ReadSoFar(e, a) % (2 * Ela) = (e % 2) * Ela + a
           /\ (e % 2) * Ela + a \in Offsets
<1> DEFINE h == e \div 2
           p == e % 2
<1>1. h \in Nat /\ p \in {0, 1} /\ e = 2 * h + p
  OBVIOUS
<1>2. p * Ela + a \in 0 .. 2 * Ela - 1
  BY <1>1, GlibConstants
<1>3. Ela * e + a = (2 * Ela) * h + (p * Ela + a)
  <2>1. Ela * (2 * h + p) = (2 * Ela) * h + p * Ela
    BY <1>1, GlibConstants
  <2> QED
    BY <1>1, <2>1, GlibConstants
<1>4. 2 * Ela \in Nat \ {0}
  BY GlibConstants
<1> HIDE DEF h, p
<1>5. Ela * e + a = (2 * Ela) * h + (p * Ela + a) => 
        (Ela * e + a) \div (2 * Ela) = h /\ (Ela * e + a) % (2 * Ela) = p * Ela + a
  BY <1>1, <1>2, <1>4, Quotient
<1> QED
  BY <1>2, <1>3, <1>5 DEF ReadSoFar, BeforeEla, Offsets, h, p

(* A word that comes later is in a later block, or further on in its own.  *)
LEMMA WordOrder ==
    ASSUME NEW v \in Nat, NEW w \in Nat, v < w
    PROVE  /\ v \div (2 * Ela) \in Nat /\ v % (2 * Ela) \in Offsets
           /\ v \div (2 * Ela) <= w \div (2 * Ela)
           /\ v \div (2 * Ela) = w \div (2 * Ela) => v % (2 * Ela) < w % (2 * Ela)
<1> DEFINE d == 2 * Ela
<1>1. d \in Nat \ {0}
  BY GlibConstants
<1> HIDE DEF d
<1> DEFINE p == v \div d
           q == w \div d
<1>2. /\ p \in Nat /\ v % d \in 0 .. d - 1 /\ v = d * p + (v % d) /\ d * p \in Nat
      /\ q \in Nat /\ w % d \in 0 .. d - 1 /\ w = d * q + (w % d) /\ d * q \in Nat
  BY <1>1
<1> HIDE DEF p, q
<1>3. p <= q
  <2> SUFFICES ASSUME p > q PROVE FALSE
    BY <1>2
  <2>1. d * (q + 1) <= d * p
    BY <1>1, <1>2
  <2>2. d * (q + 1) = d * q + d
    BY <1>1, <1>2
  <2> QED
    BY <1>1, <1>2, <2>1, <2>2
<1>4. p = q => v % d < w % d
  BY <1>2
<1> QED
  BY <1>2, <1>3, <1>4 DEF d, p, q, Offsets

(* The records of a file. *)
LEMMA McsLength ==
    ASSUME NEW n \in Nat \ {0}
    PROVE  LET r == n + ((n + Ela - 1) \div Ela) + 1 IN
           /\ r \in Nat /\ r > 1 /\ Records(n) = r
           /\ Mcs(n) \in Seq([type : {"00", "01", "04"}, ela : Nat, address : Nat])
           /\ \A k \in 1 .. r : Mcs(n)[k] =
                 IF k = r THEN [type |-> "01", ela |-> 0, address |-> 0]
                 ELSE IF (k - 1) % (Ela + 1) = 0 THEN ElaRecord((k - 1) \div (Ela + 1))
                 ELSE Data((k - 1) \div (Ela + 1), ((k - 1) % (Ela + 1)) - 1)
<1> DEFINE r == n + ((n + Ela - 1) \div Ela) + 1
           f(k) == IF k = r THEN [type |-> "01", ela |-> 0, address |-> 0]
                   ELSE IF (k - 1) % (Ela + 1) = 0 THEN ElaRecord((k - 1) \div (Ela + 1))
                   ELSE Data((k - 1) \div (Ela + 1), ((k - 1) % (Ela + 1)) - 1)
           R == [type : {"00", "01", "04"}, ela : Nat, address : Nat]
<1>1. r \in Nat /\ r > 1
  <2>1. (n + Ela - 1) \div Ela \in Nat
    BY GlibConstants
  <2> QED
    BY <2>1
<1>2. Mcs(n) = [k \in 1 .. r |-> f(k)]
  BY DEF Mcs
<1> HIDE DEF r
<1>3. \A k \in 1 .. r : f(k) \in R
  <2> SUFFICES ASSUME NEW k \in 1 .. r PROVE f(k) \in R
    OBVIOUS
  <2>1. (k - 1) \div (Ela + 1) \in Nat /\ (k - 1) % (Ela + 1) \in Nat
    BY <1>1, GlibConstants
  <2>2. CASE (k - 1) % (Ela + 1) = 0 \/ k = r
    BY <2>1, <2>2 DEF ElaRecord
  <2>3. CASE (k - 1) % (Ela + 1) # 0 /\ k # r
    <3>1. ((k - 1) % (Ela + 1)) - 1 \in Nat
      BY <2>1, <2>3
    <3> QED
      BY <2>1, <2>3, <3>1 DEF Data
  <2> QED
    BY <2>2, <2>3
<1> HIDE DEF f, R
<1>4. Mcs(n) \in Seq(R) /\ Len(Mcs(n)) = r
  <2>1. Mcs(n) \in [1 .. r -> R]
    BY <1>2, <1>3
  <2> QED
    BY <1>1, <2>1
<1>5. \A k \in 1 .. r : Mcs(n)[k] = f(k)
  BY <1>2
<1> QED
  BY <1>1, <1>4, <1>5 DEF r, f, R, Records

(* A record of a file, by its number.                                      *)
LEMMA McsRecord ==
    ASSUME NEW n \in Nat \ {0}, NEW k \in 1 .. Records(n)
    PROVE  /\ k = Records(n) => Mcs(n)[k].type = "01"
           /\ k # Records(n) => Mcs(n)[k] =
                 IF (k - 1) % (Ela + 1) = 0 THEN ElaRecord((k - 1) \div (Ela + 1))
                 ELSE Data((k - 1) \div (Ela + 1), ((k - 1) % (Ela + 1)) - 1)
<1> DEFINE r == n + ((n + Ela - 1) \div Ela) + 1
<1>1. k \in 1 .. r /\ r = Records(n) /\ r \in 1 .. r
  BY McsLength
<1>2. Mcs(n)[k] = IF k = r THEN [type |-> "01", ela |-> 0, address |-> 0]
                  ELSE IF (k - 1) % (Ela + 1) = 0 THEN ElaRecord((k - 1) \div (Ela + 1))
                  ELSE Data((k - 1) \div (Ela + 1), ((k - 1) % (Ela + 1)) - 1)
  BY <1>1, McsLength
<1> HIDE DEF r
<1> QED
  BY <1>1, <1>2

(* The first record is that of the first ELA.                              *)
LEMMA FirstRecord ==
    ASSUME NEW n \in Nat \ {0}
    PROVE  Mcs(n)[1] = ElaRecord(0)
<1>1. (1 - 1) % (Ela + 1) = 0 /\ (1 - 1) \div (Ela + 1) = 0
  BY GlibConstants
<1>2. 1 \in 1 .. Records(n) /\ 1 # Records(n)
  BY McsLength
<1> QED
  BY <1>1, <1>2, McsRecord

(* After a words of ELA e comes the next word, or the next ELA, or the end.*)
LEMMA NextRecord ==
    ASSUME NEW n \in Nat \ {0}, NEW e \in Nat, NEW a \in 0 .. Ela,
           BeforeEla(e) < n, ReadSoFar(e, a) <= n
    PROVE  LET k == RecordsTo(e) + a + 1 IN
           /\ k \in 2 .. Records(n)
           /\ ReadSoFar(e, a) = n => k = Records(n) /\ Mcs(n)[k].type = "01"
           /\ ReadSoFar(e, a) < n =>
                 /\ k < Records(n)
                 /\ a < Ela => Mcs(n)[k] = Data(e, a)
                 /\ a = Ela => Mcs(n)[k] = ElaRecord(e + 1)
<1> DEFINE k == RecordsTo(e) + a + 1
           c == (n + Ela - 1) \div Ela
<1>1. Records(n) = n + c + 1 /\ c \in Nat
  <2>1. c \in Nat
    BY GlibConstants
  <2> QED
    BY <2>1, McsLength
<1>2. BeforeEla(e) \in Nat /\ RecordsTo(e) = BeforeEla(e) + e + 1 /\ k \in Nat /\ k > 1
  <2>1. Ela * e \in Nat /\ (Ela + 1) * e = Ela * e + e
    BY GlibConstants
  <2> QED
    BY <2>1, GlibConstants DEF BeforeEla, RecordsTo
<1>3. ReadSoFar(e, a) = BeforeEla(e) + a /\ ReadSoFar(e, a) \in Nat
  BY <1>2 DEF ReadSoFar
<1>4. CASE ReadSoFar(e, a) = n
  <2>1. a >= 1
    BY <1>2, <1>3, <1>4
  <2>2. n + Ela - 1 = Ela * (e + 1) + (a - 1) /\ a - 1 \in 0 .. Ela - 1 /\ e + 1 \in Nat
    <3>1. Ela * (e + 1) = BeforeEla(e) + Ela
      BY GlibConstants DEF BeforeEla
    <3> QED
      BY <1>2, <1>3, <1>4, <2>1, <3>1, GlibConstants
  <2>3. c = e + 1
    BY <2>2, Quotient, GlibConstants
  <2>4. k = Records(n)
    BY <1>1, <1>2, <1>3, <1>4, <2>3
  <2>5. k \in 2 .. Records(n)
    BY <1>2, <2>4
  <2>6. Mcs(n)[Records(n)].type = "01"
    BY <2>4, <1>2, McsRecord
  <2>7. ~(ReadSoFar(e, a) < n)
    BY <1>3, <1>4
  <2> HIDE DEF k
  <2> QED
    BY <1>4, <2>4, <2>5, <2>6, <2>7 DEF k
<1>5. CASE ReadSoFar(e, a) < n
  <2>1. c >= e + 1
    <3>1. Ela * (e + 1) = BeforeEla(e) + Ela
      BY GlibConstants DEF BeforeEla
    <3>2. n + Ela - 1 >= Ela * (e + 1)
      BY <3>1, <1>2, GlibConstants
    <3>3. n + Ela - 1 < Ela * c + Ela /\ Ela * c \in Nat
      BY <1>1, GlibConstants
    <3> SUFFICES ASSUME c <= e PROVE FALSE
      BY <1>1
    <3>4. Ela * c <= Ela * e
      BY <1>1, GlibConstants
    <3> QED
      BY <1>1, <1>2, <3>1, <3>2, <3>3, <3>4, GlibConstants DEF BeforeEla
  <2>2. k < Records(n)
    BY <1>1, <1>2, <1>3, <1>5, <2>1
  <2>3. Mcs(n)[k] = IF (k - 1) % (Ela + 1) = 0 THEN ElaRecord((k - 1) \div (Ela + 1))
                    ELSE Data((k - 1) \div (Ela + 1), ((k - 1) % (Ela + 1)) - 1)
    <3>1. k \in 1 .. Records(n) /\ k # Records(n)
      BY <1>1, <1>2, <2>2
    <3> HIDE DEF k
    <3> QED
      BY <3>1, McsRecord
  <2>4. k - 1 = (Ela + 1) * e + (1 + a)
    <3>1. (Ela + 1) * e \in Nat
      BY GlibConstants
    <3> QED
      BY <3>1 DEF RecordsTo
  <2>5. ASSUME a < Ela PROVE Mcs(n)[k] = Data(e, a)
    <3>1. 1 + a \in 0 .. (Ela + 1) - 1 /\ Ela + 1 \in Nat \ {0}
      BY <2>5, GlibConstants
    <3>2. (k - 1) \div (Ela + 1) = e /\ (k - 1) % (Ela + 1) = 1 + a
      BY <2>4, <3>1, Quotient
    <3> HIDE DEF k
    <3> QED
      BY <2>3, <3>2, <3>1
  <2>6. ASSUME a = Ela PROVE Mcs(n)[k] = ElaRecord(e + 1)
    <3>1. 0 \in 0 .. (Ela + 1) - 1 /\ Ela + 1 \in Nat \ {0} /\ e + 1 \in Nat
      BY GlibConstants
    <3>2. k - 1 = (Ela + 1) * (e + 1) + 0
      BY <2>4, <2>6, GlibConstants
    <3>3. (k - 1) \div (Ela + 1) = e + 1 /\ (k - 1) % (Ela + 1) = 0
      BY <3>1, <3>2, Quotient
    <3> HIDE DEF k
    <3> QED
      BY <2>3, <3>3
  <2> QED
    BY <1>1, <1>2, <1>5, <2>2, <2>5, <2>6
<1> HIDE DEF k
<1> QED
  BY <1>3, <1>4, <1>5 DEF k

(* The numbers of an upload under way.                                     *)
LEMMA UploadFacts ==
    ASSUME GlibInv, thread = "reads", NEW e \in 0 .. size, NEW a \in 0 .. Ela, UploadOK(e, a)
    PROVE  /\ size \in Nat \ {0} /\ e \in Nat /\ a \in Nat /\ uploading \in {1, 2}
           /\ Lower \in Nat /\ Higher \in Nat /\ Lower .. Higher \subseteq Blocks
           /\ block_number \in Lower .. Higher
           /\ BeforeEla(e) \in Nat /\ BeforeEla(e) < size
           /\ ReadSoFar(e, a) = BeforeEla(e) + a /\ ReadSoFar(e, a) \in 0 .. size
           /\ Len(write_buffer) \in 0 .. a
           /\ Stored(e, a) = BeforeEla(e) + (a - Len(write_buffer)) /\ Stored(e, a) \in Nat
<1>1. size \in Nat \ {0} /\ e \in Nat /\ a \in Nat /\ uploading \in {1, 2}
  <2>1. size \in Files /\ uploading \in {1, 2}
    BY DEF GlibInv, GlibTypeOK
  <2>2. size \in Nat \ {0}
    BY <2>1, GlibConstants
  <2> QED
    BY <2>1, <2>2, GlibConstants
<1>2. Lower \in Nat /\ Higher \in Nat /\ Lower .. Higher \subseteq Blocks
  BY <1>1, GlibConstants DEF Lower, Higher, Blocks
<1>3. block_number \in Lower .. Higher
  <2>1. e \div 2 \in Nat
    BY <1>1
  <2> QED
    BY <1>2, <2>1 DEF UploadOK, PlaceOK
<1>4. BeforeEla(e) \in Nat /\ Len(write_buffer) \in 0 .. a
  BY <1>1, ElaOrder DEF UploadOK, BufferOK
<1>5. ReadSoFar(e, a) = BeforeEla(e) + a
  BY DEF ReadSoFar
<1>6. BeforeEla(e) < size /\ ReadSoFar(e, a) <= size
  BY DEF UploadOK, PlaceOK
<1> QED
  BY <1>1, <1>2, <1>3, <1>4, <1>5, <1>6 DEF Stored

(* What the thread reads next is the record at its place in the file.      *)
LEMMA NextInFile ==
    ASSUME GlibInv, thread = "reads", NEW e \in 0 .. size, NEW a \in 0 .. Ela, UploadOK(e, a)
    PROVE  /\ mcs # <<>>
           /\ ReadSoFar(e, a) = size => Head(mcs).type = "01"
           /\ ReadSoFar(e, a) < size /\ a < Ela => Head(mcs) = Data(e, a)
           /\ ReadSoFar(e, a) < size /\ a = Ela => Head(mcs) = ElaRecord(e + 1)
           /\ (ReadSoFar(e, a) = size \/ (ReadSoFar(e, a) < size /\ (a < Ela \/ a = Ela)))
           /\ Tail(mcs) \in Seq([type : {"00", "01", "04"}, ela : Nat, address : Nat])
           /\ Len(Tail(mcs)) = Records(size) - RecordsTo(e) - a - 1
           /\ \A k \in 1 .. Len(Tail(mcs)) : Tail(mcs)[k] = Mcs(size)[RecordsTo(e) + a + 1 + k]
<1> DEFINE n == RecordsTo(e) + a + 1
<1>1. /\ n \in 2 .. Records(size)
      /\ ReadSoFar(e, a) = size => Mcs(size)[n].type = "01"
      /\ ReadSoFar(e, a) < size =>
            /\ a < Ela => Mcs(size)[n] = Data(e, a)
            /\ a = Ela => Mcs(size)[n] = ElaRecord(e + 1)
  BY NextRecord, UploadFacts DEF UploadOK, PlaceOK
<1>2. RecordsTo(e) \in Nat /\ a \in Nat /\ Records(size) \in Nat
  BY ElaOrder, UploadFacts, McsLength
<1>3. Len(mcs) \in Nat /\ Len(mcs) >= 1
  BY <1>1, <1>2 DEF UploadOK, PlaceOK
<1>4. Head(mcs) = Mcs(size)[n]
  <2>1. Head(mcs) = mcs[1] /\ 1 \in 1 .. Len(mcs)
    BY <1>3 DEF UploadOK, PlaceOK
  <2> QED
    BY <2>1 DEF UploadOK, PlaceOK
<1>5. mcs # <<>> /\ Len(Tail(mcs)) = Len(mcs) - 1
      /\ Tail(mcs) \in Seq([type : {"00", "01", "04"}, ela : Nat, address : Nat])
      /\ \A k \in 1 .. Len(Tail(mcs)) : Tail(mcs)[k] = mcs[k + 1] /\ k + 1 \in 1 .. Len(mcs)
  BY <1>3 DEF UploadOK, PlaceOK
<1>6. \A k \in 1 .. Len(Tail(mcs)) : Tail(mcs)[k] = Mcs(size)[RecordsTo(e) + a + 1 + k]
  <2> SUFFICES ASSUME NEW k \in 1 .. Len(Tail(mcs))
               PROVE  Tail(mcs)[k] = Mcs(size)[RecordsTo(e) + a + 1 + k]
    OBVIOUS
  <2>1. Tail(mcs)[k] = Mcs(size)[RecordsTo(e) + a + (k + 1)] /\ k \in Nat
    BY <1>3, <1>5 DEF UploadOK, PlaceOK
  <2> QED
    BY <2>1, <1>2
<1>7. Len(Tail(mcs)) = Records(size) - RecordsTo(e) - a - 1
  BY <1>2, <1>5 DEF UploadOK, PlaceOK
<1>8. (ReadSoFar(e, a) = size \/ (ReadSoFar(e, a) < size /\ (a < Ela \/ a = Ela)))
  <2>1. ReadSoFar(e, a) \in 0 .. size /\ size \in Nat
    BY UploadFacts
  <2> QED
    BY <2>1, GlibConstants
<1> HIDE DEF n
<1> QED
  BY <1>1, <1>4, <1>5, <1>6, <1>7, <1>8
-----------------------------------------------------------------------------
(* The steps of an upload keep the invariant.                              *)

(* An upload that has read nothing reads the record of the first ELA.      *)
LEMMA BeginsFacts ==
    ASSUME GlibInv, thread = "reads", Begins
    PROVE  /\ size \in Nat \ {0} /\ uploading \in {1, 2}
           /\ mcs # <<>> /\ Head(mcs) = ElaRecord(0)
           /\ Tail(mcs) \in Seq([type : {"00", "01", "04"}, ela : Nat, address : Nat])
           /\ Len(Tail(mcs)) = Records(size) - 1
           /\ \A k \in 1 .. Len(Tail(mcs)) : Tail(mcs)[k] = Mcs(size)[1 + k]
<1>1. size \in Files /\ uploading \in {1, 2} /\ mcs = Mcs(size)
  BY DEF GlibInv, GlibTypeOK, Begins
<1>2. size \in Nat \ {0}
  BY <1>1, GlibConstants
<1>3. /\ mcs \in Seq([type : {"00", "01", "04"}, ela : Nat, address : Nat])
      /\ Len(mcs) = Records(size) /\ Len(mcs) \in Nat /\ Len(mcs) > 1
  BY <1>1, <1>2, McsLength DEF Records
<1>4. mcs[1] = ElaRecord(0)
  BY <1>1, <1>2, FirstRecord
<1> QED
  BY <1>1, <1>2, <1>3, <1>4

(* The next word goes to the buffer, which may be full then.               *)
LEMMA ReadDataStep ==
    ASSUME GlibInv, ReadData
    PROVE  GlibInv'
<1>1. thread = "reads" /\ cmds = <<>> /\ Head(mcs).type = "00"
  BY DEF ReadData, Reads
<1>2. /\ UNCHANGED <<glib, uploading, thread, flash, flashFaults, flashOps, page, size,
                     block_number, first_ela_in_block, first_block, iAttempt>>
      /\ unlock_and_erase_block' = FALSE /\ mcs' = Tail(mcs)
  BY DEF ReadData
<1>3. GlibTypeOK' /\ FlashRight'
  <2>1. GlibTypeOK'
    BY <1>2 DEF GlibInv, GlibTypeOK
  <2>2. OthersUntouched'
    BY <1>2 DEF GlibInv, FlashRight, OthersUntouched, Lower, Higher
  <2> QED
    BY <1>1, <1>2, <2>1, <2>2 DEF FlashRight
<1>4. ~Begins
  BY <1>1, BeginsFacts DEF ElaRecord
<1>5. PICK e \in 0 .. size, a \in 0 .. Ela : UploadOK(e, a)
  BY <1>1, <1>4 DEF GlibInv
<1>6. a < Ela /\ Head(mcs) = Data(e, a) /\ ReadSoFar(e, a) < size
  BY <1>1, <1>5, NextInFile DEF ElaRecord
<1> DEFINE n == ReadSoFar(e, a)
<1>7. write_buffer' = Append(write_buffer, n)
  <2>1. Word(Head(mcs)) = n
    BY <1>6 DEF Word, Data, ReadSoFar, BeforeEla
  <2> QED
    BY <2>1 DEF ReadData
<1>8. /\ size \in Nat \ {0} /\ e \in Nat /\ a \in Nat /\ BeforeEla(e) \in Nat
      /\ n = BeforeEla(e) + a /\ n \in Nat /\ Len(write_buffer) \in 0 .. a
      /\ write_buffer \in Seq(Nat)
  BY <1>1, <1>5, UploadFacts DEF UploadOK, BufferOK
<1>9. /\ write_buffer' \in Seq(Nat) /\ Len(write_buffer') = Len(write_buffer) + 1
      /\ \A k \in 1 .. Len(write_buffer) : write_buffer'[k] = write_buffer[k]
      /\ write_buffer'[Len(write_buffer) + 1] = n
  BY <1>7, <1>8
<1>10. /\ a + 1 \in 0 .. Ela /\ ReadSoFar(e, a + 1) = n + 1
       /\ Stored(e, a + 1)' = Stored(e, a) /\ Stored(e, a) = n - Len(write_buffer)
       /\ Stored(e, a) \in Nat
  BY <1>6, <1>8, <1>9, GlibConstants DEF Stored, ReadSoFar
<1>11. PlaceOK(e, a + 1)'
  <2>1. BeforeEla(e) < size /\ ReadSoFar(e, a + 1) <= size /\ a + 1 <= Ela
    BY <1>5, <1>6, <1>8, <1>10 DEF UploadOK, PlaceOK
  <2>2. /\ mcs' \in Seq([type : {"00", "01", "04"}, ela : Nat, address : Nat])
        /\ Len(mcs') = Records(size) - RecordsTo(e) - (a + 1)
        /\ \A k \in 1 .. Len(mcs') : mcs'[k] = Mcs(size)[RecordsTo(e) + (a + 1) + k]
    <3>1. RecordsTo(e) \in Nat /\ Records(size) \in Nat
      BY <1>8, ElaOrder, McsLength
    <3>2. \A k \in Nat : RecordsTo(e) + a + 1 + k = RecordsTo(e) + (a + 1) + k
      BY <3>1, <1>8
    <3>3. Records(size) - RecordsTo(e) - a - 1 = Records(size) - RecordsTo(e) - (a + 1)
      BY <3>1, <1>8
    <3> QED
      BY <1>1, <1>2, <1>5, <3>2, <3>3, NextInFile
  <2>3. /\ block_number = Higher - e \div 2 /\ block_number >= Lower
        /\ first_ela_in_block = e % 2 /\ ~first_block
    BY <1>5 DEF UploadOK, PlaceOK
  <2>4. ~(a + 1 = 0)
    BY <1>8
  <2> QED
    BY <1>2, <2>1, <2>2, <2>3, <2>4 DEF PlaceOK, Higher, Lower
<1>12. BufferOK(e, a + 1)'
  <2>1. Len(write_buffer') <= a + 1 /\ Len(write_buffer') <= max_write_buffer
    <3>1. Len(write_buffer) < max_write_buffer
      BY <1>1, <1>5 DEF UploadOK, CommandsOK
    <3> QED
      BY <1>8, <1>9, <3>1, GlibConstants
  <2>2. \A k \in 1 .. Len(write_buffer') : write_buffer'[k] = Stored(e, a + 1)' + k - 1
    <3> SUFFICES ASSUME NEW k \in 1 .. Len(write_buffer')
                 PROVE  write_buffer'[k] = Stored(e, a) + k - 1
      BY <1>10
    <3>1. CASE k = Len(write_buffer) + 1
      BY <1>8, <1>9, <1>10, <3>1
    <3>2. CASE k # Len(write_buffer) + 1
      <4>1. k \in 1 .. Len(write_buffer)
        BY <1>8, <1>9, <3>2
      <4> QED
        BY <1>5, <1>9, <4>1 DEF UploadOK, BufferOK
    <3> QED
      BY <3>1, <3>2
  <2>3. data_address' = (e % 2) * Ela + (a + 1) - Len(write_buffer')
    <3>1. e % 2 \in Nat /\ (e % 2) * Ela \in Nat
      BY <1>8, GlibConstants
    <3>2. CASE write_buffer = <<>>
      <4>1. data_address' = (e % 2) * Ela + a
        BY <1>5, <1>6, <3>2 DEF ReadData, UploadOK, PlaceOK, Data
      <4> QED
        BY <1>8, <1>9, <3>1, <3>2, <4>1
    <3>3. CASE write_buffer # <<>>
      <4>1. data_address' = (e % 2) * Ela + a - Len(write_buffer)
        BY <1>5, <3>3 DEF ReadData, UploadOK, BufferOK
      <4> QED
        BY <1>8, <1>9, <3>1, <4>1
    <3> QED
      BY <3>2, <3>3
  <2>4. ((a + 1) - Len(write_buffer')) % max_write_buffer = 0
    <3>1. (a - Len(write_buffer)) % max_write_buffer = 0
      BY <1>5, <1>6, <1>8 DEF UploadOK, BufferOK
    <3>2. (a + 1) - Len(write_buffer') = a - Len(write_buffer)
      BY <1>8, <1>9
    <3> QED
      BY <3>1, <3>2
  <2> QED
    BY <1>9, <2>1, <2>2, <2>3, <2>4 DEF BufferOK
<1>13. CommandsOK(e, a + 1)' /\ LocksOK'
  <2>1. /\ unlock_and_erase_block => e % 2 = 0 /\ a = 0
        /\ ~unlock_and_erase_block => ~flash[block_number].locked
        /\ \A b \in Blocks : b # block_number => flash[b].locked
    BY <1>1, <1>5 DEF UploadOK, PlaceOK, LocksOK
  <2>2. Len(write_buffer') <= max_write_buffer /\ Len(write_buffer') \in Nat /\ write_buffer' # <<>>
    BY <1>9, <1>12 DEF BufferOK
  <2>3. unlock_and_erase_block => Len(write_buffer') = 1 /\ a + 1 = 1
    BY <1>8, <1>9, <2>1
  <2> DEFINE u == << Unlock(block_number), Erase(block_number) >>
             p == << Program(block_number) >>
  <2>4. cmds' = (IF unlock_and_erase_block THEN u ELSE <<>>)
                \o (IF Len(write_buffer') = max_write_buffer THEN p ELSE <<>>)
    BY DEF ReadData
  <2>5. CASE unlock_and_erase_block
    <3>1. cmds' = IF Len(write_buffer') = max_write_buffer
                  THEN << Unlock(block_number), Erase(block_number), Program(block_number) >> ELSE u
      BY <2>4, <2>5
    <3>2. cmds' # <<>> /\ Head(cmds').do = "unlock"
      BY <3>1 DEF Unlock
    <3>3. Len(write_buffer') # max_write_buffer => max_write_buffer > 1
      BY <2>2, <2>3, <2>5, GlibConstants
    <3>4. CommandsOK(e, a + 1)'
      BY <1>2, <2>1, <2>3, <2>5, <3>1, <3>3 DEF CommandsOK
    <3>5. LocksOK'
      BY <1>2, <2>1, <3>2 DEF LocksOK
    <3> QED
      BY <3>4, <3>5
  <2>6. CASE ~unlock_and_erase_block
    <3>1. cmds' = IF Len(write_buffer') = max_write_buffer THEN p ELSE <<>>
      BY <2>4, <2>6
    <3>2. CommandsOK(e, a + 1)'
      BY <1>2, <2>2, <3>1, GlibConstants DEF CommandsOK
    <3>3. LocksOK'
      BY <1>2, <2>1, <2>6 DEF LocksOK
    <3> QED
      BY <3>2, <3>3
  <2> QED
    BY <2>5, <2>6
<1>14. InPlace(Stored(e, a + 1))'
  BY <1>2, <1>5, <1>10 DEF UploadOK, InPlace, Higher
<1>15. UploadOK(e, a + 1)'
  BY <1>11, <1>12, <1>13, <1>14 DEF UploadOK
<1> QED
  BY <1>1, <1>2, <1>3, <1>5, <1>10, <1>15, BeginsFacts DEF GlibInv

(* At the end of an ELA before the end of the file nothing is left in the  *)
(* buffer: an ELA is as long as a number of full buffers.                  *)
LEMMA FullBuffers ==
    ASSUME NEW l \in Nat, l < max_write_buffer, (Ela - l) % max_write_buffer = 0
    PROVE  l = 0
<1> DEFINE b == max_write_buffer
<1>1. b \in Nat \ {0} /\ Ela \in Nat /\ Ela % b = 0
  BY GlibConstants
<1> HIDE DEF b
<1> DEFINE p == Ela \div b
           q == (Ela - l) \div b
<1>2. p \in Int /\ q \in Int /\ b * p \in Int /\ b * q \in Int
  BY <1>1
<1>3. Ela = b * p + (Ela % b)
  BY <1>1
<1>4. Ela - l = b * q + ((Ela - l) % b)
  BY <1>1
<1>5. l = b * p - b * q
  BY <1>1, <1>2, <1>3, <1>4 DEF b
<1> HIDE DEF p, q
<1>6. CASE p <= q
  <2>1. b * p <= b * q
    BY <1>1, <1>2, <1>6
  <2> QED
    BY <1>2, <1>5, <2>1
<1>7. CASE p >= q + 1
  <2>1. b * p >= b * (q + 1) /\ b * (q + 1) = b * q + b
    BY <1>1, <1>2, <1>7
  <2> QED
    BY <1>1, <1>2, <1>5, <2>1 DEF b
<1> QED
  BY <1>2, <1>6, <1>7

(* The blocks of two ELAs that follow each other.                          *)
LEMMA HalfBlocks ==
    ASSUME NEW e \in Nat
    PROVE  /\ (e + 1) % 2 = 0 => (e + 1) \div 2 = (e \div 2) + 1
           /\ (e + 1) % 2 # 0 => (e + 1) \div 2 = e \div 2
           /\ (e + 1) % 2 \in {0, 1} /\ e \div 2 \in Nat
OBVIOUS

(* An ELA beyond the last block of the image is beyond what fits in it.    *)
LEMMA BeyondImage ==
    ASSUME NEW e \in Nat, NEW h \in Nat, NEW l \in Nat, l <= h, h - (e \div 2) < l, BeforeEla(e) < size,
           size \in Nat
    PROVE  size > 2 * Ela * (h - l + 1)
<1> DEFINE k == h - l + 1
<1>1. k \in Nat /\ e >= 2 * k
  OBVIOUS
<1>2. Ela * e >= Ela * (2 * k) /\ Ela * (2 * k) = 2 * Ela * k /\ 2 * Ela * k \in Nat
  <2> HIDE DEF k
  <2>1. Ela * e >= Ela * (2 * k)
    <3>1. e - 2 * k \in Nat /\ Ela * (e - 2 * k) \in Nat
      BY <1>1, GlibConstants
    <3>2. Ela * e = Ela * (2 * k) + Ela * (e - 2 * k)
      BY <1>1, GlibConstants
    <3>3. Ela * (2 * k) \in Nat
      BY <1>1, GlibConstants
    <3> QED
      BY <3>1, <3>2, <3>3
  <2>2. Ela * (2 * k) = 2 * Ela * k /\ 2 * Ela * k \in Nat
    BY <1>1, GlibConstants
  <2> QED
    BY <2>1, <2>2
<1>3. Ela * e < size /\ Ela * e \in Nat
  BY GlibConstants DEF BeforeEla
<1> HIDE DEF k
<1>4. 2 * Ela * k < size
  BY <1>2, <1>3
<1> QED
  BY <1>4 DEF k

(* A new ELA that the image has room for.                                  *)
LEMMA ReadElaStep ==
    ASSUME GlibInv, ReadEla
    PROVE  GlibInv'
<1>1. thread = "reads" /\ cmds = <<>> /\ Head(mcs).type = "04"
  BY DEF ReadEla, Reads
<1>2. /\ UNCHANGED <<glib, uploading, flash, flashFaults, flashOps, page, size, write_buffer,
                     data_address, iAttempt>>
      /\ mcs' = Tail(mcs) /\ Higher' = Higher /\ Lower' = Lower
  BY DEF ReadEla, Higher, Lower
<1> DEFINE x == Head(mcs).ela
<1>3. /\ first_ela_in_block' = x % 2 /\ block_number' = Higher - x \div 2
      /\ block_number' < Lower => thread' = "terminate" /\ UNCHANGED <<cmds, first_block, unlock_and_erase_block>>
      /\ block_number' >= Lower =>
            /\ cmds' = (IF x % 2 = 0 /\ ~first_block THEN << Lock(block_number) >> ELSE <<>>)
            /\ first_block' = (first_block /\ x % 2 # 0)
            /\ unlock_and_erase_block' = (unlock_and_erase_block \/ x % 2 = 0)
            /\ thread' = thread
  <2>1. x \in Nat
    <3>1. mcs \in Seq([type : {"00", "01", "04"}, ela : Nat, address : Nat]) /\ mcs # <<>>
      <4>1. CASE Begins
        <5>1. size \in Nat \ {0} /\ mcs = Mcs(size) /\ mcs # <<>>
          BY <1>1, <4>1, BeginsFacts DEF Begins
        <5> QED
          BY <5>1, McsLength
      <4>2. CASE ~Begins
        BY <1>1, <4>2, NextInFile DEF GlibInv, UploadOK, PlaceOK
      <4> QED
        BY <4>1, <4>2
    <3>2. Head(mcs) \in [type : {"00", "01", "04"}, ela : Nat, address : Nat]
      <4> DEFINE R == [type : {"00", "01", "04"}, ela : Nat, address : Nat]
      <4> HIDE DEF R
      <4>1. mcs \in Seq(R) /\ mcs # <<>>
        BY <3>1 DEF R
      <4>2. Head(mcs) \in R
        BY <4>1
      <4> QED
        BY <4>2 DEF R
    <3> QED
      BY <3>2
  <2>2. uploading \in {0, 1, 2}
    BY DEF GlibInv, GlibTypeOK
  <2>3. Higher - x \div 2 \in Int /\ Lower \in Int
    BY <2>1, <2>2, GlibConstants DEF Higher, Lower
  <2>4. block_number' = Higher - x \div 2 /\ first_ela_in_block' = x % 2
    BY DEF ReadEla
  <2>5. block_number' >= Lower => ~(block_number' < Lower)
    BY <2>3, <2>4
  <2> HIDE DEF x
  <2> QED
    BY <2>4, <2>5 DEF ReadEla, x
<1>4. GlibTypeOK' /\ OthersUntouched' /\ thread' # "done" /\ thread' # "none" /\ uploading > 0
  <2>1. thread' \in {"reads", "terminate"}
    BY <1>1 DEF ReadEla
  <2>2. first_block' \in BOOLEAN /\ unlock_and_erase_block' \in BOOLEAN
    BY DEF ReadEla, GlibInv, GlibTypeOK
  <2>3. GlibTypeOK'
    BY <1>2, <2>1, <2>2 DEF GlibInv, GlibTypeOK
  <2>4. OthersUntouched'
    BY <1>2 DEF GlibInv, FlashRight, OthersUntouched
  <2>5. uploading > 0
    BY <1>1 DEF GlibInv, GlibTypeOK
  <2> QED
    BY <2>1, <2>3, <2>4, <2>5
<1>5. CASE Begins
  <2>1. x = 0 /\ Higher \in Nat /\ Lower \in Nat /\ Lower <= Higher /\ size \in Nat \ {0}
    BY <1>1, <1>5, BeginsFacts, GlibConstants DEF ElaRecord, Higher, Lower
  <2>2. /\ block_number' = Higher /\ first_ela_in_block' = 0 /\ cmds' = <<>> /\ ~first_block'
        /\ unlock_and_erase_block' /\ thread' = "reads" /\ write_buffer = <<>>
    <3>1. x \div 2 = 0 /\ x % 2 = 0
      BY <2>1
    <3>2. block_number' = Higher /\ block_number' >= Lower
      BY <1>3, <2>1, <3>1
    <3>3. first_block /\ write_buffer = <<>>
      BY <1>5 DEF Begins
    <3> HIDE DEF x
    <3> QED
      BY <1>1, <1>3, <3>1, <3>2, <3>3
  <2>3. BeforeEla(0) = 0 /\ ReadSoFar(0, 0) = 0 /\ RecordsTo(0) = 1 /\ Stored(0, 0)' = 0
    BY <1>2, <2>2, GlibConstants DEF BeforeEla, ReadSoFar, RecordsTo, Stored
  <2>4. PlaceOK(0, 0)'
    <3>1. Len(Tail(mcs)) = Records(size) - RecordsTo(0) - 0
          /\ \A k \in 1 .. Len(Tail(mcs)) : Tail(mcs)[k] = Mcs(size)[RecordsTo(0) + 0 + k]
      <4>1. Records(size) \in Nat
        BY <2>1, McsLength
      <4>2. Records(size) - 1 = Records(size) - RecordsTo(0) - 0
            /\ \A k \in Nat : RecordsTo(0) + 0 + k = 1 + k
        BY <2>3, <4>1
      <4>3. Len(Tail(mcs)) = Records(size) - 1
            /\ \A k \in 1 .. Len(Tail(mcs)) : k \in Nat /\ Tail(mcs)[k] = Mcs(size)[1 + k]
        BY <1>1, <1>5, <4>1, BeginsFacts
      <4> QED
        BY <4>2, <4>3
    <3> QED
      BY <1>1, <1>2, <1>5, <2>1, <2>2, <2>3, <3>1, BeginsFacts, GlibConstants DEF PlaceOK
  <2>5. BufferOK(0, 0)'
    BY <1>2, <2>2, GlibConstants DEF BufferOK
  <2>6. CommandsOK(0, 0)'
    BY <1>2, <2>2, GlibConstants DEF CommandsOK
  <2>7. LocksOK'
    BY <1>2, <1>5, <2>2 DEF LocksOK, Begins
  <2>8. InPlace(Stored(0, 0))'
    BY <2>3 DEF InPlace
  <2>9. UploadOK(0, 0)' /\ 0 \in 0 .. size' /\ 0 \in 0 .. Ela
    BY <1>2, <2>1, <2>4, <2>5, <2>6, <2>7, <2>8, GlibConstants DEF UploadOK
  <2>10. FlashRight' /\ size' \in Files
    BY <1>1, <1>2, <1>4, <2>2 DEF FlashRight, GlibInv
  <2> QED
    BY <1>2, <1>4, <2>9, <2>10 DEF GlibInv
<1>6. CASE ~Begins
  <2>1. PICK e \in 0 .. size, a \in 0 .. Ela : UploadOK(e, a)
    BY <1>1, <1>6 DEF GlibInv
  <2>2. a = Ela /\ ReadSoFar(e, a) < size /\ Head(mcs) = ElaRecord(e + 1)
    BY <1>1, <2>1, NextInFile DEF Data
  <2>3. x = e + 1
    BY <2>2 DEF ElaRecord
  <2>4. /\ size \in Nat \ {0} /\ e \in Nat /\ Higher \in Nat /\ Lower \in Nat /\ Lower <= Higher
        /\ BeforeEla(e) \in Nat /\ Len(write_buffer) \in Nat /\ Stored(e, a) = BeforeEla(e) + (a - Len(write_buffer))
        /\ ReadSoFar(e, a) = BeforeEla(e) + a
    BY <1>1, <2>1, UploadFacts
  <2>5. BeforeEla(e + 1) < size /\ BeforeEla(e + 1) \in Nat
    BY <2>2, <2>4, ElaOrder
  <2>6. write_buffer = <<>> /\ Len(write_buffer) = 0
    <3>1. Len(write_buffer) < max_write_buffer
      BY <1>1, <2>1 DEF UploadOK, CommandsOK
    <3>2. (a - Len(write_buffer)) % max_write_buffer = 0
      BY <2>1, <2>2, <2>4 DEF UploadOK, BufferOK
    <3>3. Len(write_buffer) = 0
      BY <2>2, <2>4, <3>1, <3>2, FullBuffers
    <3> QED
      BY <3>3, <2>1 DEF UploadOK, BufferOK
  <2>7. CASE block_number' < Lower
    <3>1. size > 2 * Ela * (Higher - Lower + 1)
      <4>1. e + 1 \in Nat /\ Higher - ((e + 1) \div 2) < Lower
        BY <1>3, <2>3, <2>4, <2>7
      <4> QED
        BY <2>4, <2>5, <4>1, BeyondImage
    <3>2. FlashRight' /\ thread' = "terminate"
      BY <1>2, <1>3, <1>4, <2>7, <3>1 DEF FlashRight, TooLong
    <3> QED
      BY <1>2, <1>4, <3>2 DEF GlibInv
  <2>8. CASE block_number' >= Lower
    <3> DEFINE n == block_number
    <3>1. /\ e + 1 \in 0 .. size /\ 0 \in 0 .. Ela
      BY <2>4, <2>5, ElaOrder, GlibConstants
    <3>2. /\ ~first_block /\ ~unlock_and_erase_block /\ n = Higher - e \div 2 /\ n \in Nat
          /\ ~flash[n].locked /\ \A b \in Blocks : b # n => flash[b].locked
      <4>1. ~first_block /\ ~unlock_and_erase_block /\ n = Higher - e \div 2
        BY <2>1, <2>2, GlibConstants DEF UploadOK, PlaceOK
      <4>2. n \in Nat
        BY <1>1, <2>1, <2>4, UploadFacts
      <4> QED
        BY <1>1, <2>1, <4>1, <4>2 DEF UploadOK, LocksOK
    <3>3. /\ cmds' = (IF (e + 1) % 2 = 0 THEN << Lock(n) >> ELSE <<>>)
          /\ ~first_block' /\ (unlock_and_erase_block' <=> (e + 1) % 2 = 0) /\ thread' = "reads"
          /\ block_number' = Higher - (e + 1) \div 2 /\ first_ela_in_block' = (e + 1) % 2
      BY <1>1, <1>3, <2>3, <2>8, <3>2
    <3>4. /\ (e + 1) % 2 = 0 => block_number' + 1 = n
          /\ (e + 1) % 2 # 0 => block_number' = n
          /\ block_number' \in Int
      BY <2>4, <3>2, <3>3, HalfBlocks
    <3>5. Stored(e + 1, 0)' = Stored(e, a) /\ ReadSoFar(e + 1, 0) = BeforeEla(e + 1)
      <4>1. BeforeEla(e + 1) = BeforeEla(e) + Ela
        BY <2>4, ElaOrder
      <4>2. ReadSoFar(e + 1, 0) = BeforeEla(e + 1)
        BY <2>5 DEF ReadSoFar
      <4>3. Stored(e + 1, 0)' = ReadSoFar(e + 1, 0) - Len(write_buffer')
        BY DEF Stored, ReadSoFar, BeforeEla
      <4>4. Len(write_buffer') = 0
        BY <1>2, <2>6
      <4>5. Stored(e + 1, 0)' = BeforeEla(e + 1)
        BY <2>5, <4>2, <4>3, <4>4
      <4> QED
        BY <2>2, <2>4, <2>6, <4>1, <4>2, <4>5, GlibConstants
    <3>6. PlaceOK(e + 1, 0)'
      <4>1. RecordsTo(e) \in Nat /\ RecordsTo(e + 1) = RecordsTo(e) + Ela + 1 /\ Records(size) \in Nat
        BY <2>4, ElaOrder, McsLength
      <4>2. /\ Records(size) - RecordsTo(e) - a - 1 = Records(size) - RecordsTo(e + 1) - 0
            /\ \A k \in Nat : RecordsTo(e) + a + 1 + k = RecordsTo(e + 1) + 0 + k
        BY <2>2, <4>1, GlibConstants
      <4>3. /\ mcs' \in Seq([type : {"00", "01", "04"}, ela : Nat, address : Nat])
            /\ Len(mcs') = Records(size) - RecordsTo(e + 1) - 0
            /\ \A k \in 1 .. Len(mcs') : mcs'[k] = Mcs(size)[RecordsTo(e + 1) + 0 + k]
        BY <1>1, <1>2, <2>1, <4>2, NextInFile
      <4>4. 0 <= Ela
        BY GlibConstants
      <4>5. BeforeEla(e + 1) <= size /\ block_number' >= Lower'
        BY <1>2, <2>4, <2>5, <2>8
      <4> QED
        BY <1>2, <2>5, <3>3, <3>5, <4>3, <4>4, <4>5 DEF PlaceOK
    <3>7. BufferOK(e + 1, 0)'
      BY <1>2, <2>6, GlibConstants DEF BufferOK
    <3>8. CommandsOK(e + 1, 0)'
      BY <1>2, <2>4, <2>6, <3>3, <3>4, GlibConstants DEF CommandsOK
    <3>9. LocksOK'
      BY <1>2, <3>2, <3>3, <3>4, HalfBlocks, <2>4 DEF LocksOK
    <3>10. InPlace(Stored(e + 1, 0))'
      BY <1>2, <2>1, <3>5 DEF UploadOK, InPlace
    <3>11. UploadOK(e + 1, 0)' /\ e + 1 \in 0 .. size'
      BY <1>2, <3>1, <3>6, <3>7, <3>8, <3>9, <3>10 DEF UploadOK
    <3>12. FlashRight' /\ size' \in Files
      BY <1>1, <1>2, <1>4, <3>3 DEF FlashRight, GlibInv
    <3> QED
      BY <1>2, <1>4, <3>1, <3>11, <3>12 DEF GlibInv
  <2> QED
    BY <1>3, <2>3, <2>4, <2>7, <2>8
<1> QED
  BY <1>5, <1>6

(* The end of the file: the last block is the one that is left unlocked.   *)
LEMMA ReadEofStep ==
    ASSUME GlibInv, ReadEof
    PROVE  GlibInv'
<1>1. thread = "reads" /\ cmds = <<>> /\ Head(mcs).type = "01"
  BY DEF ReadEof, Reads
<1>2. /\ UNCHANGED <<uploading, block_number, first_ela_in_block, first_block, data_address,
                     unlock_and_erase_block, write_buffer, flash, flashFaults, size>>
      /\ Higher' = Higher /\ Lower' = Lower
  BY DEF ReadEof, Higher, Lower
<1>3. ~Begins
  BY <1>1, BeginsFacts DEF ElaRecord
<1>4. PICK e \in 0 .. size, a \in 0 .. Ela : UploadOK(e, a)
  BY <1>1, <1>3 DEF GlibInv
<1>5. ReadSoFar(e, a) = size
  BY <1>1, <1>4, NextInFile DEF Data, ElaRecord
<1>6. GlibTypeOK' /\ OthersUntouched' /\ uploading > 0
  <2>1. thread' \in {"reads", "done"}
    BY <1>1 DEF ReadEof
  <2>2. GlibTypeOK'
    BY <1>2, <2>1 DEF GlibInv, GlibTypeOK
  <2>3. OthersUntouched'
    BY <1>2 DEF GlibInv, FlashRight, OthersUntouched
  <2>4. uploading > 0
    BY <1>1 DEF GlibInv, GlibTypeOK
  <2> QED
    BY <2>2, <2>3, <2>4
<1>7. /\ size \in Nat \ {0} /\ e \in Nat /\ a \in Nat /\ BeforeEla(e) \in Nat /\ BeforeEla(e) < size
      /\ ReadSoFar(e, a) = BeforeEla(e) + a /\ size \in Files
  BY <1>1, <1>4, UploadFacts DEF GlibInv
<1>8. CASE write_buffer # <<>>
  <2>1. cmds' = << Program(block_number) >> /\ thread' = "reads" /\ mcs' = mcs
    BY <1>1, <1>8 DEF ReadEof
  <2>2. PlaceOK(e, a)' /\ BufferOK(e, a)' /\ InPlace(Stored(e, a))'
    BY <1>2, <1>4, <2>1
       DEF UploadOK, PlaceOK, BufferOK, InPlace, Stored, ReadSoFar, BeforeEla, Records, RecordsTo
  <2>3. CommandsOK(e, a)'
    <3>1. ReadSoFar(e, a)' = size'
      BY <1>2, <1>5 DEF ReadSoFar, BeforeEla
    <3> QED
      BY <1>2, <1>8, <2>1, <3>1 DEF CommandsOK
  <2>4. LocksOK'
    BY <1>1, <1>2, <1>4, <2>1 DEF UploadOK, LocksOK
  <2>5. FlashRight'
    BY <1>6, <2>1 DEF FlashRight
  <2>6. UploadOK(e, a)'
    BY <2>2, <2>3, <2>4 DEF UploadOK
  <2> QED
    BY <1>2, <1>6, <1>7, <2>1, <2>5, <2>6 DEF GlibInv
<1>9. CASE write_buffer = <<>>
  <2>1. thread' = "done"
    BY <1>9 DEF ReadEof
  <2>2. Stored(e, a) = size
    BY <1>5, <1>7, <1>9 DEF Stored
  <2>3. InPlace(size)
    BY <1>4, <2>2 DEF UploadOK
  <2>4. (size - 1) \div (2 * Ela) = e \div 2
    <3>1. a - 1 \in 0 .. Ela - 1
      BY <1>5, <1>7, GlibConstants
    <3>2. ReadSoFar(e, a - 1) = size - 1
      BY <1>5, <1>7 DEF ReadSoFar
    <3> QED
      BY <1>7, <3>1, <3>2, WordPlace
  <2>5. \A b \in Blocks : b # Higher - (size - 1) \div (2 * Ela) => flash[b].locked
    BY <1>1, <1>4, <2>4 DEF UploadOK, LocksOK, PlaceOK
  <2>6. FileWritten'
    BY <1>2, <2>3, <2>5 DEF FileWritten, InPlace
  <2>7. FlashRight'
    BY <1>6, <2>1, <2>6 DEF FlashRight
  <2> QED
    BY <1>2, <1>6, <2>1, <2>7 DEF GlibInv
<1> QED
  BY <1>8, <1>9

(* The command that is next, if one is.                                    *)
LEMMA NextCommand ==
    ASSUME GlibInv, Cmd # "none"
    PROVE  /\ thread = "reads" /\ cmds # <<>> /\ Cmd = Head(cmds).do /\ ~Begins /\ uploading > 0
           /\ size \in Files
           /\ \E e \in 0 .. size, a \in 0 .. Ela : UploadOK(e, a)
<1>1. thread = "reads" /\ cmds # <<>> /\ Cmd = Head(cmds).do
  BY DEF Cmd
<1>2. ~Begins
  BY <1>1 DEF Begins
<1> QED
  BY <1>1, <1>2 DEF GlibInv, GlibTypeOK

(* A command that an error of the flash ends, or an attempt that failed.   *)
LEMMA FaultStep ==
    ASSUME GlibInv, Cmd # "none", flashFaults' = flashFaults + 1, thread' \in {"reads", "terminate"},
           UNCHANGED <<glib, uploading, cmds, parse, flash, flashOps, page, size>>
    PROVE  GlibInv'
<1>1. PICK e \in 0 .. size, a \in 0 .. Ela : UploadOK(e, a)
  BY NextCommand
<1>2. flashFaults' \in Nat /\ flashFaults' # 0
  BY DEF GlibInv, GlibTypeOK
<1>3. GlibTypeOK'
  BY <1>2 DEF GlibInv, GlibTypeOK, parse
<1>4. FlashRight'
  BY <1>2 DEF GlibInv, FlashRight, OthersUntouched, Higher, Lower
<1>5. PlaceOK(e, a)'
  BY <1>1 DEF UploadOK, PlaceOK, BeforeEla, ReadSoFar, Records, RecordsTo, parse, Higher, Lower
<1>6. BufferOK(e, a)' /\ CommandsOK(e, a)' /\ LocksOK'
  BY <1>1 DEF UploadOK, BufferOK, CommandsOK, LocksOK, Stored, BeforeEla, ReadSoFar, parse
<1>7. InPlace(Stored(e, a))'
  BY <1>1 DEF UploadOK, InPlace, Stored, BeforeEla, ReadSoFar, parse, Higher, Lower
<1>8. UploadOK(e, a)'
  BY <1>5, <1>6, <1>7 DEF UploadOK
<1>9. size' \in Files /\ size' = size /\ uploading' = uploading /\ uploading > 0
  BY NextCommand
<1> QED
  BY <1>3, <1>4, <1>8, <1>9 DEF GlibInv

(* A change to the flash is one to a block of the image that is uploaded.  *)
LEMMA FlashStep ==
    ASSUME GlibInv, Cmd # "none", B \in Lower .. Higher,
           UNCHANGED <<uploading, thread, size, first_block, unlock_and_erase_block, flashFaults>>,
           flash' \in [Blocks -> [locked : BOOLEAN, words : [Offsets -> Int]]],
           \A b \in Blocks : b # B => flash'[b] = flash[b],
           \E e \in 0 .. size, a \in 0 .. Ela : UploadOK(e, a)'
    PROVE  GlibInv'
<1>1. GlibTypeOK' /\ Higher' = Higher /\ Lower' = Lower
  BY DEF GlibInv, GlibTypeOK, Higher, Lower
<1>2. thread' = "reads" /\ uploading > 0 /\ size \in Files
  BY NextCommand
<1>3. OthersUntouched'
  BY <1>1 DEF GlibInv, FlashRight, OthersUntouched
<1>4. FlashRight'
  BY <1>2, <1>3 DEF FlashRight
<1> QED
  BY <1>1, <1>2, <1>4 DEF GlibInv

(* The place in the file does not depend on the flash.                     *)
LEMMA PlaceKept ==
    ASSUME NEW e, NEW a, PlaceOK(e, a),
           UNCHANGED <<uploading, size, mcs, block_number, first_ela_in_block, first_block,
                       unlock_and_erase_block>>
    PROVE  PlaceOK(e, a)'
BY DEF PlaceOK, BeforeEla, ReadSoFar, Records, RecordsTo, Higher, Lower

(* What is stored is in the blocks down to this one, and in this one only  *)
(* below the words that are to come.                                       *)
LEMMA StoredPlaces ==
    ASSUME GlibInv, thread = "reads", NEW e \in 0 .. size, NEW a \in 0 .. Ela, UploadOK(e, a),
           NEW w \in 0 .. Stored(e, a) - 1
    PROVE  /\ Higher - w \div (2 * Ela) \in Blocks /\ w % (2 * Ela) \in Offsets
           /\ Higher - w \div (2 * Ela) = block_number =>
                 w % (2 * Ela) < (e % 2) * Ela + (a - Len(write_buffer))
<1> DEFINE x == a - Len(write_buffer)
           v == IF x = 0 THEN ReadSoFar(e, 0) ELSE ReadSoFar(e, x - 1)
           d == w \div (2 * Ela)
           o == w % (2 * Ela)
           h == e \div 2
           p == (e % 2) * Ela
<1>1. /\ e \in Nat /\ x \in 0 .. Ela /\ BeforeEla(e) \in Nat /\ Stored(e, a) = BeforeEla(e) + x
      /\ Lower \in Nat /\ Higher \in Nat /\ Lower .. Higher \subseteq Blocks /\ block_number \in Lower .. Higher
      /\ w \in Nat
  <2>1. Len(write_buffer) \in 0 .. a /\ a \in Nat
    BY UploadFacts
  <2>2. Stored(e, a) \in Nat
    BY UploadFacts
  <2> QED
    BY <2>1, <2>2, UploadFacts, GlibConstants
<1>2. block_number = Higher - h
  BY DEF UploadOK, PlaceOK
<1>3. h \in Nat /\ p \in Nat
  BY <1>1, GlibConstants
<1> HIDE DEF x, h, p
<1>4. d \in Nat /\ o \in Offsets /\ d <= h /\ (d = h => o < p + x)
  <2>1. CASE x = 0
    <3>1. w < ReadSoFar(e, 0) /\ ReadSoFar(e, 0) \in Nat
      BY <1>1, <2>1 DEF ReadSoFar
    <3>2. ReadSoFar(e, 0) \div (2 * Ela) = h /\ ReadSoFar(e, 0) % (2 * Ela) = p + 0
      BY <1>1, WordPlace, GlibConstants DEF h, p
    <3>3. d \in Nat /\ o \in Offsets /\ d <= h /\ (d = h => o < p + 0)
      BY <1>1, <3>1, <3>2, WordOrder
    <3> QED
      BY <2>1, <3>3
  <2>2. CASE x # 0
    <3>1. x - 1 \in 0 .. Ela - 1 /\ ReadSoFar(e, x - 1) = BeforeEla(e) + x - 1
          /\ ReadSoFar(e, x - 1) \in Nat
      BY <1>1, <2>2, GlibConstants DEF ReadSoFar
    <3>2. /\ ReadSoFar(e, x - 1) \div (2 * Ela) = h
          /\ ReadSoFar(e, x - 1) % (2 * Ela) = p + (x - 1) /\ p + (x - 1) \in Offsets
      BY <1>1, <3>1, WordPlace DEF h, p
    <3>3. CASE w < ReadSoFar(e, x - 1)
      <4>1. d \in Nat /\ o \in Offsets /\ d <= h /\ (d = h => o < p + (x - 1))
        BY <1>1, <3>1, <3>2, <3>3, WordOrder
      <4>2. o \in Nat
        BY <4>1, GlibConstants DEF Offsets
      <4> HIDE DEF d, o
      <4> QED
        BY <1>1, <1>3, <4>1, <4>2
    <3>4. CASE w = ReadSoFar(e, x - 1)
      BY <1>1, <1>3, <3>2, <3>4
    <3> QED
      BY <1>1, <3>1, <3>3, <3>4
  <2> QED
    BY <2>1, <2>2
<1>5. d <= h => Higher - d \in Blocks /\ (Higher - d = block_number => d = h)
  <2> HIDE DEF d, o
  <2>1. Higher - h \in Lower .. Higher
    BY <1>1, <1>2
  <2> SUFFICES ASSUME d <= h, d \in Nat PROVE Higher - d \in Lower .. Higher /\ (Higher - d = Higher - h => d = h)
    BY <1>1, <1>2, <1>4
  <2> QED
    BY <1>1, <1>3, <2>1
<1> HIDE DEF d, o
<1> QED
  BY <1>4, <1>5 DEF d, o, x, p

(* An action that leaves the words leaves them in place.                   *)
LEMMA InPlaceKept ==
    ASSUME GlibInv, thread = "reads", NEW e \in 0 .. size, NEW a \in 0 .. Ela, UploadOK(e, a),
           UNCHANGED <<uploading, write_buffer>>,
           \A b \in Blocks : flash'[b].words = flash[b].words
    PROVE  InPlace(Stored(e, a))'
<1>1. Stored(e, a)' = Stored(e, a) /\ Higher' = Higher
  BY DEF Stored, ReadSoFar, BeforeEla, Higher
<1> SUFFICES ASSUME NEW w \in 0 .. Stored(e, a) - 1
             PROVE  flash'[Higher - w \div (2 * Ela)].words[w % (2 * Ela)] = w
  BY <1>1 DEF InPlace
<1>2. Higher - w \div (2 * Ela) \in Blocks
  BY StoredPlaces
<1>3. flash[Higher - w \div (2 * Ela)].words[w % (2 * Ela)] = w
  BY DEF UploadOK, InPlace
<1> QED
  BY <1>2, <1>3

(* Sequences without their first.                                          *)
LEMMA Tails ==
    ASSUME NEW x, NEW y, NEW z
    PROVE  Tail(<< x, y >>) = << y >> /\ Tail(<< x, y, z >>) = << y, z >>
<1>1. Tail(<< x, y >>) = << y >>
  OBVIOUS
<1>2. Tail(<< x, y, z >>) = << y, z >>
  OBVIOUS
<1> QED
  BY <1>1, <1>2

(* The commands of a block, when the first is done. *)
LEMMA CommandTails ==
    ASSUME NEW n
    PROVE  /\ Tail(<< Unlock(n), Erase(n) >>) = << Erase(n) >>
           /\ Tail(<< Unlock(n), Erase(n), Program(n) >>) = << Erase(n), Program(n) >>
           /\ Tail(<< Erase(n) >>) = <<>> /\ Tail(<< Erase(n), Program(n) >>) = << Program(n) >>
           /\ Tail(<< Program(n) >>) = <<>>
<1> DEFINE u == Unlock(n)
           r == Erase(n)
           p == Program(n)
<1> HIDE DEF u, r, p
<1>1. Tail(<< u, r >>) = << r >> /\ Tail(<< u, r, p >>) = << r, p >>
  BY Tails
<1>2. Tail(<< r, p >>) = << p >>
  BY Tails
<1>3. Tail(<< r >>) = <<>> /\ Tail(<< p >>) = <<>>
  OBVIOUS
<1> QED
  BY <1>1, <1>2, <1>3 DEF u, r, p

(* The block before is locked, or the new one is unlocked.                 *)
LEMMA LockStep ==
    ASSUME GlibInv, blockLockOrUnlock
    PROVE  GlibInv'
<1>1. Cmd \in {"lock", "unlock"} /\ UNCHANGED <<glib, uploading, parse, flashOps, page, size>>
  BY DEF blockLockOrUnlock
<1>2. CASE Fault /\ UNCHANGED <<cmds, flash>>
           /\ thread' = (IF iAttempt' = Attempts THEN "terminate" ELSE thread)
  BY <1>1, <1>2, NextCommand, FaultStep DEF Fault
<1>3. CASE /\ flash' = [flash EXCEPT ![B].locked = (Cmd = "lock")]
           /\ Done1 /\ UNCHANGED flashFaults
  <2>1. cmds' = Tail(cmds) /\ thread' = thread
    BY <1>3 DEF Done1
  <2>2. PICK e \in 0 .. size, a \in 0 .. Ela : UploadOK(e, a)
    BY <1>1, NextCommand
  <2>3. /\ thread = "reads" /\ Cmd = Head(cmds).do /\ cmds # <<>>
    BY <1>1, NextCommand
  <2>4. /\ e \in Nat /\ Lower \in Nat /\ Higher \in Nat /\ Lower .. Higher \subseteq Blocks
        /\ block_number \in Lower .. Higher
    BY <2>2, <2>3, UploadFacts
  <2>5. flash \in [Blocks -> [locked : BOOLEAN, words : [Offsets -> Int]]]
    BY DEF GlibInv, GlibTypeOK
  <2>6. PlaceOK(e, a)'
    BY <1>1, <2>2, PlaceKept DEF UploadOK, parse
  <2>7. BufferOK(e, a)'
    BY <1>1, <2>2 DEF UploadOK, BufferOK, Stored, BeforeEla, ReadSoFar, parse
  <2>8. CASE Cmd = "lock"
    <3>1. cmds = << Lock(block_number + 1) >> /\ unlock_and_erase_block /\ e > 0
      BY <2>2, <2>3, <2>8 DEF UploadOK, CommandsOK, Lock, Unlock, Erase, Program
    <3>2. cmds' = <<>> /\ B = block_number + 1
      BY <2>1, <3>1 DEF B, Lock
    <3>3. e % 2 = 0 /\ a = 0 /\ write_buffer = <<>> /\ block_number = Higher - e \div 2
      <4>1. e % 2 = 0 /\ a = 0 /\ block_number = Higher - e \div 2
        BY <2>2, <3>1 DEF UploadOK, PlaceOK
      <4> QED
        BY <2>2, <4>1 DEF UploadOK, BufferOK
    <3>4. B \in Lower .. Higher /\ B # block_number
      <4>1. e \div 2 >= 1
        BY <2>4, <3>1, <3>3
      <4> QED
        BY <2>4, <3>2, <3>3, <4>1
    <3>5. /\ flash' \in [Blocks -> [locked : BOOLEAN, words : [Offsets -> Int]]]
          /\ \A b \in Blocks : b # B => flash'[b] = flash[b]
          /\ flash'[B].locked
          /\ \A b \in Blocks : flash'[b].words = flash[b].words
      BY <1>3, <2>4, <2>5, <2>8, <3>4
    <3>6. CommandsOK(e, a)'
      BY <1>1, <3>2, <3>3, GlibConstants DEF CommandsOK, parse
    <3>7. LocksOK'
      <4>1. \A b \in Blocks : b # block_number => flash'[b].locked
        <5> SUFFICES ASSUME NEW b \in Blocks, b # block_number PROVE flash'[b].locked
          OBVIOUS
        <5>1. CASE b = B
          BY <3>5, <5>1
        <5>2. CASE b # B
          <6>1. cmds # << Lock(b) >>
            BY <3>1, <3>2, <5>2 DEF Lock
          <6> QED
            BY <2>2, <3>5, <5>2, <6>1 DEF UploadOK, LocksOK
        <5> QED
          BY <5>1, <5>2
      <4> QED
        BY <1>1, <3>1, <4>1 DEF LocksOK, parse
    <3>8. InPlace(Stored(e, a))'
      BY <1>1, <2>2, <2>3, <3>5, InPlaceKept DEF parse
    <3> QED
      BY <1>1, <1>3, <2>1, <2>6, <2>7, <3>4, <3>5, <3>6, <3>7, <3>8, FlashStep DEF UploadOK, parse
  <2>9. CASE Cmd = "unlock"
    <3> DEFINE n == block_number
    <3>1. /\ e % 2 = 0 /\ a = 1 /\ Len(write_buffer) = 1 /\ B = n
          /\ \/ max_write_buffer > 1 /\ cmds = << Unlock(n), Erase(n) >> /\ cmds' = << Erase(n) >>
             \/ max_write_buffer = 1 /\ cmds = << Unlock(n), Erase(n), Program(n) >> /\ cmds' = << Erase(n), Program(n) >>
      <4>1. Head(cmds).do = "unlock" /\ CommandsOK(e, a)
        BY <2>2, <2>3, <2>9 DEF UploadOK
      <4>2. /\ e % 2 = 0 /\ a = 1 /\ Len(write_buffer) = 1
            /\ \/ max_write_buffer > 1 /\ cmds = << Unlock(n), Erase(n) >>
               \/ max_write_buffer = 1 /\ cmds = << Unlock(n), Erase(n), Program(n) >>
        BY <2>3, <4>1 DEF CommandsOK, Lock, Erase, Program
      <4>3. B = n
        BY <4>2 DEF Unlock, B
      <4>4. /\ cmds = << Unlock(n), Erase(n) >> => cmds' = << Erase(n) >>
            /\ cmds = << Unlock(n), Erase(n), Program(n) >> => cmds' = << Erase(n), Program(n) >>
        <5>1. cmds' = Tail(cmds)
          BY <2>1
        <5> QED
          BY <5>1, CommandTails, Zenon
      <4> QED
        BY <4>2, <4>3, <4>4
    <3>2. B \in Lower .. Higher
      BY <2>4, <3>1
    <3>3. /\ flash' \in [Blocks -> [locked : BOOLEAN, words : [Offsets -> Int]]]
          /\ \A b \in Blocks : b # B => flash'[b] = flash[b]
          /\ ~flash'[B].locked
          /\ \A b \in Blocks : flash'[b].words = flash[b].words
      BY <1>3, <2>4, <2>5, <2>9, <3>2
    <3>4. CommandsOK(e, a)'
      BY <1>1, <3>1 DEF CommandsOK, parse
    <3>5. LocksOK'
      <4>1. \A b \in Blocks : b # n => flash'[b].locked
        <5>1. \A b \in Blocks : cmds # << Lock(b) >>
          BY <3>1
        <5> QED
          BY <2>2, <3>1, <3>3, <5>1 DEF UploadOK, LocksOK
      <4> QED
        BY <1>1, <3>1, <3>3, <4>1 DEF LocksOK, parse
    <3>6. InPlace(Stored(e, a))'
      BY <1>1, <2>2, <2>3, <3>3, InPlaceKept DEF parse
    <3> QED
      BY <1>1, <1>3, <2>1, <2>6, <2>7, <3>2, <3>3, <3>4, <3>5, <3>6, FlashStep DEF UploadOK, parse
  <2> QED
    BY <1>1, <2>8, <2>9
<1> QED
  BY <1>2, <1>3 DEF blockLockOrUnlock

(* A block is erased before anything of it is stored.                      *)
LEMMA EraseStep ==
    ASSUME GlibInv, blockErase
    PROVE  GlibInv'
<1>1. Cmd = "erase" /\ UNCHANGED <<glib, uploading, parse, flashOps, page, size>>
  BY DEF blockErase
<1>2. /\ thread = "reads" /\ Head(cmds).do = "erase" /\ cmds # <<>>
      /\ \E e \in 0 .. size, a \in 0 .. Ela : UploadOK(e, a)
  BY <1>1, NextCommand
<1>3. PICK e \in 0 .. size, a \in 0 .. Ela : UploadOK(e, a)
  BY <1>2
<1> DEFINE n == block_number
<1>4. /\ e % 2 = 0 /\ a = 1 /\ Len(write_buffer) = 1 /\ B = n
      /\ \/ max_write_buffer > 1 /\ cmds = << Erase(n) >>
         \/ max_write_buffer = 1 /\ cmds = << Erase(n), Program(n) >>
  <2>1. /\ e % 2 = 0 /\ a = 1 /\ Len(write_buffer) = 1
        /\ \/ max_write_buffer > 1 /\ cmds = << Erase(n) >>
           \/ max_write_buffer = 1 /\ cmds = << Erase(n), Program(n) >>
    BY <1>2, <1>3 DEF UploadOK, CommandsOK, Lock, Unlock, Program
  <2> QED
    BY <2>1 DEF B, Erase
<1>5. ~flash[B].locked
  <2>1. ~unlock_and_erase_block
    BY <1>3, <1>4 DEF UploadOK, PlaceOK
  <2> QED
    BY <1>2, <1>3, <1>4, <2>1 DEF UploadOK, LocksOK
<1>6. CASE Fault /\ Throws /\ UNCHANGED flash
  BY <1>1, <1>6, FaultStep DEF Fault, Throws
<1>7. CASE /\ ~flash[B].locked /\ Done1 /\ UNCHANGED flashFaults
           /\ flash' = [flash EXCEPT ![B].words = [o \in Offsets |-> Erased]]
  <2>1. B \in Lower .. Higher /\ Lower .. Higher \subseteq Blocks
    BY <1>2, <1>3, <1>4, UploadFacts
  <2>2. /\ flash' \in [Blocks -> [locked : BOOLEAN, words : [Offsets -> Int]]]
        /\ \A b \in Blocks : b # B => flash'[b] = flash[b]
        /\ \A b \in Blocks : flash'[b].locked = flash[b].locked
    <3>1. flash \in [Blocks -> [locked : BOOLEAN, words : [Offsets -> Int]]]
      BY DEF GlibInv, GlibTypeOK
    <3>2. [o \in Offsets |-> Erased] \in [Offsets -> Int]
      BY DEF Erased
    <3> QED
      BY <1>7, <2>1, <3>1, <3>2
  <2>3. cmds' = Tail(cmds) /\ UNCHANGED <<thread, parse, uploading, size, flashFaults>>
    BY <1>1, <1>7 DEF Done1
  <2>4. \/ max_write_buffer > 1 /\ cmds' = <<>>
        \/ max_write_buffer = 1 /\ cmds' = << Program(n) >>
    BY <1>4, <2>3, CommandTails, Zenon
  <2>5. PlaceOK(e, a)'
    BY <1>1, <1>3, PlaceKept DEF UploadOK, parse
  <2>6. BufferOK(e, a)'
    BY <1>1, <1>3 DEF UploadOK, BufferOK, Stored, BeforeEla, ReadSoFar, parse
  <2>7. CommandsOK(e, a)'
    <3>1. UNCHANGED <<write_buffer, block_number>>
      BY <2>3 DEF parse
    <3>2. write_buffer # <<>>
      BY <1>4
    <3>3. CASE max_write_buffer > 1 /\ cmds' = <<>>
      BY <1>4, <3>1, <3>3, GlibConstants DEF CommandsOK
    <3>4. CASE max_write_buffer = 1 /\ cmds' = << Program(n) >>
      BY <1>4, <3>1, <3>2, <3>4 DEF CommandsOK
    <3> QED
      BY <2>4, <3>3, <3>4
  <2>8. LocksOK'
    <3>1. \A b \in Blocks : cmds # << Lock(b) >>
      BY <1>4 DEF Lock, Erase
    <3>2. cmds' # <<>> => Head(cmds').do # "unlock"
      BY <2>4 DEF Program
    <3> QED
      BY <1>3, <1>4, <1>5, <2>1, <2>2, <2>3, <3>1 DEF UploadOK, LocksOK, parse
  <2>9. InPlace(Stored(e, a))'
    <3>1. Stored(e, a)' = Stored(e, a) /\ Higher' = Higher
      BY <2>3 DEF Stored, ReadSoFar, BeforeEla, Higher, parse
    <3> SUFFICES ASSUME NEW w \in 0 .. Stored(e, a) - 1
                 PROVE  flash'[Higher - w \div (2 * Ela)].words[w % (2 * Ela)] = w
      BY <3>1 DEF InPlace
    <3>2. Higher - w \div (2 * Ela) \in Blocks /\ Higher - w \div (2 * Ela) # B
      <4>1. /\ Higher - w \div (2 * Ela) \in Blocks /\ w % (2 * Ela) \in Offsets
            /\ Higher - w \div (2 * Ela) = n =>
                 w % (2 * Ela) < (e % 2) * Ela + (a - Len(write_buffer))
        BY <1>2, <1>3, StoredPlaces
      <4>2. (e % 2) * Ela + (a - Len(write_buffer)) = 0
        BY <1>4, GlibConstants
      <4>3. ~(w % (2 * Ela) < 0)
        BY <4>1, GlibConstants DEF Offsets
      <4> QED
        BY <1>4, <4>1, <4>2, <4>3
    <3>3. flash[Higher - w \div (2 * Ela)].words[w % (2 * Ela)] = w
      BY <1>3 DEF UploadOK, InPlace
    <3> QED
      BY <2>2, <3>2, <3>3
  <2> QED
    BY <1>1, <1>7, <2>1, <2>2, <2>3, <2>5, <2>6, <2>7, <2>8, <2>9, FlashStep DEF UploadOK, parse
<1> QED
  BY <1>5, <1>6, <1>7 DEF blockErase

(* A remainder is the same one divisor further.                            *)
LEMMA OneMore ==
    ASSUME NEW x \in Nat, NEW b \in Nat \ {0}
    PROVE  (x + b) % b = x % b
<1> DEFINE q == x \div b
           r == x % b
<1>1. q \in Nat /\ r \in 0 .. b - 1 /\ x = b * q + r
  OBVIOUS
<1> HIDE DEF q, r
<1>2. x + b = b * (q + 1) + r /\ q + 1 \in Nat
  BY <1>1
<1>3. (b * (q + 1) + r) % b = r
  BY <1>1, <1>2, Quotient
<1> QED
  BY <1>2, <1>3 DEF r

(* The buffer goes to the words that follow those already stored.          *)
LEMMA ProgramStep ==
    ASSUME GlibInv, bufferProgram
    PROVE  GlibInv'
<1>1. /\ Cmd = "program"
      /\ UNCHANGED <<glib, uploading, mcs, block_number, first_ela_in_block, first_block,
                     unlock_and_erase_block, data_address, flashOps, page, size>>
  BY DEF bufferProgram
<1>2. /\ thread = "reads" /\ Head(cmds).do = "program" /\ cmds # <<>>
      /\ \E e \in 0 .. size, a \in 0 .. Ela : UploadOK(e, a)
  BY <1>1, NextCommand
<1>3. PICK e \in 0 .. size, a \in 0 .. Ela : UploadOK(e, a)
  BY <1>2
<1> DEFINE n == block_number
           l == Len(write_buffer)
<1>4. /\ cmds = << Program(n) >> /\ write_buffer # <<>> /\ B = n
      /\ l = max_write_buffer \/ ReadSoFar(e, a) = size
  <2>1. /\ cmds = << Program(n) >> /\ write_buffer # <<>>
        /\ l = max_write_buffer \/ ReadSoFar(e, a) = size
    BY <1>2, <1>3 DEF UploadOK, CommandsOK, Lock, Unlock, Erase
  <2> QED
    BY <2>1 DEF B, Program
<1>5. /\ e \in Nat /\ a \in Nat /\ BeforeEla(e) \in Nat /\ l \in 1 .. a /\ B \in Lower .. Higher
      /\ Lower .. Higher \subseteq Blocks /\ Stored(e, a) = BeforeEla(e) + (a - l)
      /\ ReadSoFar(e, a) = BeforeEla(e) + a /\ write_buffer \in Seq(Nat) /\ n = Higher - e \div 2
      /\ a <= Ela
  <2>1. Len(write_buffer) \in 0 .. a /\ write_buffer \in Seq(Nat) /\ n = Higher - e \div 2 /\ a <= Ela
    BY <1>2, <1>3, UploadFacts DEF UploadOK, BufferOK, PlaceOK
  <2>2. l # 0
    BY <1>4, <2>1
  <2>3. /\ e \in Nat /\ a \in Nat /\ BeforeEla(e) \in Nat /\ n \in Lower .. Higher
        /\ Lower .. Higher \subseteq Blocks
    BY <1>2, <1>3, UploadFacts
  <2>4. Stored(e, a) = BeforeEla(e) + (a - l) /\ ReadSoFar(e, a) = BeforeEla(e) + a
    BY <1>2, <1>3, UploadFacts
  <2>5. l \in 1 .. a
    BY <2>1, <2>2, <2>3
  <2> QED
    BY <1>4, <2>1, <2>3, <2>4, <2>5
<1>6. ~unlock_and_erase_block /\ ~flash[B].locked
  <2>1. ~unlock_and_erase_block
    BY <1>3, <1>5 DEF UploadOK, PlaceOK
  <2> QED
    BY <1>2, <1>3, <1>4, <2>1 DEF UploadOK, LocksOK
<1>7. CASE Fault /\ Throws /\ UNCHANGED <<flash, write_buffer>>
  BY <1>1, <1>7, FaultStep DEF Fault, Throws, parse
<1>8. CASE /\ ~flash[B].locked /\ Done1 /\ UNCHANGED flashFaults
           /\ flash' = [flash EXCEPT ![B].words = [o \in Offsets |->
                  IF o - data_address + 1 \in DOMAIN write_buffer
                  THEN write_buffer[o - data_address + 1] ELSE @[o]]]
           /\ write_buffer' = <<>>
  <2> DEFINE words == [o \in Offsets |->
                  IF o - data_address + 1 \in 1 .. l
                  THEN write_buffer[o - data_address + 1] ELSE flash[B].words[o]]
  <2>1. flash \in [Blocks -> [locked : BOOLEAN, words : [Offsets -> Int]]]
    BY DEF GlibInv, GlibTypeOK
  <2>2. words \in [Offsets -> Int]
    BY <1>5, <2>1
  <2>3. flash' = [flash EXCEPT ![B].words = words]
    <3>1. DOMAIN write_buffer = 1 .. l
      BY <1>5
    <3> QED
      BY <1>5, <1>8, <3>1
  <2> HIDE DEF words
  <2>4. /\ flash' \in [Blocks -> [locked : BOOLEAN, words : [Offsets -> Int]]]
        /\ \A b \in Blocks : b # B => flash'[b] = flash[b]
        /\ \A b \in Blocks : flash'[b].locked = flash[b].locked
        /\ flash'[B].words = words
    BY <1>5, <2>1, <2>2, <2>3
  <2>5. cmds' = <<>> /\ UNCHANGED <<thread, uploading, size, flashFaults, mcs, block_number,
                     first_ela_in_block, first_block, unlock_and_erase_block, data_address>>
    <3>1. cmds' = Tail(cmds)
      BY <1>8 DEF Done1
    <3>2. cmds' = <<>>
      BY <1>4, <3>1, CommandTails, Zenon
    <3> QED
      BY <1>1, <1>8, <3>2 DEF Done1
  <2>6. PlaceOK(e, a)'
    BY <1>1, <1>3, PlaceKept DEF UploadOK
  <2>7. Len(write_buffer') = 0 /\ write_buffer' = <<>>
    BY <1>8
  <2>8. Stored(e, a)' = ReadSoFar(e, a) /\ Higher' = Higher
    <3>1. ReadSoFar(e, a)' = ReadSoFar(e, a)
      BY DEF ReadSoFar, BeforeEla
    <3>2. ReadSoFar(e, a) \in Nat
      BY <1>5
    <3> QED
      BY <2>5, <2>7, <3>1, <3>2 DEF Stored, Higher
  <2>9. BufferOK(e, a)'
    <3>1. a % max_write_buffer = 0 \/ ReadSoFar(e, a) = size
      <4>1. (a - l) % max_write_buffer = 0 \/ ReadSoFar(e, a) = size
        BY <1>3 DEF UploadOK, BufferOK
      <4> DEFINE b == max_write_buffer
      <4>3. CASE l = b /\ (a - l) % b = 0
        <5>1. a = (a - b) + b /\ a - b \in Nat /\ b \in Nat \ {0} /\ (a - b) % b = 0
          BY <1>5, <4>3, GlibConstants
        <5> HIDE DEF b
        <5>2. ((a - b) + b) % b = (a - b) % b
          BY <5>1, OneMore
        <5> QED
          BY <5>1, <5>2 DEF b
      <4> QED
        BY <1>4, <4>1, <4>3
    <3>2. ReadSoFar(e, a)' = ReadSoFar(e, a)
      BY DEF ReadSoFar, BeforeEla
    <3> QED
      BY <1>5, <2>5, <2>7, <3>1, <3>2, GlibConstants DEF BufferOK
  <2>10. CommandsOK(e, a)'
    BY <2>5, <2>7, GlibConstants DEF CommandsOK
  <2>11. LocksOK'
    <3>1. \A b \in Blocks : cmds # << Lock(b) >>
      BY <1>4 DEF Lock, Program
    <3> QED
      BY <1>3, <1>4, <1>5, <1>6, <2>4, <2>5, <3>1 DEF UploadOK, LocksOK
  <2>12. InPlace(Stored(e, a))'
    <3> SUFFICES ASSUME NEW w \in 0 .. ReadSoFar(e, a) - 1
                 PROVE  flash'[Higher - w \div (2 * Ela)].words[w % (2 * Ela)] = w
      BY <2>8 DEF InPlace
    <3> DEFINE o == w % (2 * Ela)
               k == Higher - w \div (2 * Ela)
               p == (e % 2) * Ela
    <3>1. p \in Nat /\ data_address = p + a - l
      <4>1. data_address = p + a - l
        BY <1>3, <1>4 DEF UploadOK, BufferOK
      <4> QED
        BY <1>5, <4>1, GlibConstants
    <3>2. CASE w < Stored(e, a)
      <4>1. k \in Blocks /\ o \in Offsets /\ (k = n => o < p + (a - l)) /\ flash[k].words[o] = w
        <5>1. w \in 0 .. Stored(e, a) - 1
          BY <1>5, <3>2
        <5>2. k \in Blocks /\ o \in Offsets /\ (k = n => o < p + (a - l))
          BY <1>2, <1>3, <5>1, StoredPlaces
        <5>3. flash[k].words[o] = w
          BY <1>3, <5>1 DEF UploadOK, InPlace
        <5> QED
          BY <5>2, <5>3
      <4>2. o \in Nat
        BY <4>1, GlibConstants DEF Offsets
      <4> HIDE DEF o, k, p
      <4>3. CASE k = n
        <5>1. ~(o - data_address + 1 \in 1 .. l)
          <6>1. o < p + (a - l)
            BY <4>1, <4>3
          <6> QED
            BY <1>5, <3>1, <4>2, <6>1
        <5>2. words[o] = flash[B].words[o]
          BY <4>1, <5>1 DEF words
        <5>3. flash'[k].words[o] = w
          BY <1>4, <2>4, <4>1, <4>3, <5>2
        <5> QED
          BY <5>3 DEF o, k
      <4>4. CASE k # n
        <5>1. flash'[k].words[o] = w
          BY <1>4, <2>4, <4>1, <4>4
        <5> QED
          BY <5>1 DEF o, k
      <4> QED
        BY <4>3, <4>4
    <3>3. CASE w >= Stored(e, a)
      <4> HIDE DEF o, k, p
      <4> DEFINE j == w - BeforeEla(e)
                 q == j - (a - l) + 1
      <4>1. j \in 0 .. Ela - 1 /\ q \in 1 .. l /\ w = BeforeEla(e) + j
        <5>1. w \in 0 .. BeforeEla(e) + a - 1 /\ w >= BeforeEla(e) + (a - l)
          BY <1>5, <3>3
        <5>2. BeforeEla(e) \in Nat /\ a \in 0 .. Ela /\ l \in 1 .. a
          BY <1>5
        <5> QED
          BY <5>1, <5>2, GlibConstants, BufferWord
      <4>2. ReadSoFar(e, j) = w
        BY <4>1 DEF ReadSoFar
      <4> HIDE DEF j
      <4>3. w \div (2 * Ela) = e \div 2 /\ o = p + j /\ o \in Offsets
        BY <1>5, <4>1, <4>2, WordPlace DEF o, p
      <4>4. k = B
        BY <1>4, <1>5, <4>3 DEF k
      <4>5. o - data_address + 1 = q
        BY <1>5, <3>1, <4>1, <4>3
      <4>6. write_buffer[q] = w
        <5>1. write_buffer[q] = Stored(e, a) + q - 1
          BY <1>3, <4>1 DEF UploadOK, BufferOK
        <5> QED
          BY <1>5, <4>1, <5>1
      <4>7. words[o] = w
        BY <4>1, <4>3, <4>5, <4>6 DEF words
      <4>8. flash'[k].words[o] = w
        BY <2>4, <4>4, <4>7
      <4> QED
        BY <4>8 DEF o, k
    <3> QED
      BY <1>5, <3>2, <3>3
  <2> QED
    BY <1>1, <1>2, <1>3, <1>5, <2>4, <2>5, <2>6, <2>9, <2>10, <2>11, <2>12, FlashStep DEF UploadOK
<1> QED
  BY <1>6, <1>7, <1>8 DEF bufferProgram

(* The flash at the beginning.                                             *)
LEMMA GlibInitially == InitGlib => GlibInv
<1> SUFFICES ASSUME InitGlib PROVE GlibInv
  OBVIOUS
<1>1. flash \in [Blocks -> [locked : BOOLEAN, words : [Offsets -> Int]]]
      /\ \A b \in Blocks : flash[b].locked /\ \A o \in Offsets : flash[b].words[o] = Old
  BY DEF InitGlib, Old
<1>2. uploading = 0 /\ thread = "none" /\ flashFaults = 0 /\ cmds = <<>> /\ write_buffer = <<>>
      /\ first_block = TRUE /\ unlock_and_erase_block = FALSE
  BY DEF InitGlib
<1>3. GlibTypeOK
  BY <1>1, <1>2 DEF GlibTypeOK
<1>4. FlashRight
  BY <1>1, <1>2 DEF FlashRight, OthersUntouched
<1> QED
  BY <1>1, <1>2, <1>3, <1>4 DEF GlibInv

(* An action that leaves the flash and the thread alone, as a jump to an   *)
(* image and all that the other programs do.                               *)
LEMMA FlashAlone ==
    ASSUME GlibInv, UNCHANGED <<uploading, thread, cmds, parse, flash, flashFaults, size>>
    PROVE  GlibInv'
<1>1. GlibTypeOK' /\ FlashRight'
  BY DEF GlibInv, GlibTypeOK, FlashRight, OthersUntouched, FileWritten, InPlace, TooLong,
              Higher, Lower, parse
<1>2. Begins => Begins'
  BY DEF Begins, parse
<1>3. ASSUME NEW e, NEW a, UploadOK(e, a) PROVE UploadOK(e, a)'
  <2>1. PlaceOK(e, a)'
    BY <1>3, PlaceKept DEF UploadOK, parse
  <2>2. BufferOK(e, a)' /\ CommandsOK(e, a)' /\ LocksOK' /\ InPlace(Stored(e, a))'
    BY <1>3 DEF UploadOK, BufferOK, CommandsOK, LocksOK, InPlace, Stored, BeforeEla,
                      ReadSoFar, parse, Higher
  <2> QED
    BY <2>1, <2>2 DEF UploadOK
<1> QED
  BY <1>1, <1>2, <1>3 DEF GlibInv, parse

(* A call begins an upload, once, or leaves the flash and the thread alone.*)
LEMMA GlibCallStep ==
    ASSUME GlibInv, GlibCall
    PROVE  GlibInv'
<1>1. CASE GlibJump \/ (GlibFlashProm /\ uploading > 0)
  BY <1>1, FlashAlone DEF GlibJump, GlibFlashProm, Free, parse
<1>2. CASE GlibFlashProm /\ ~(uploading > 0)
  <2>1. uploading = 0
    BY <1>2 DEF GlibInv, GlibTypeOK
  <2>2. /\ uploading' \in {1, 2} /\ thread' = "reads" /\ size' \in Files /\ mcs' = Mcs(size')
        /\ UNCHANGED <<cmds, write_buffer, first_block, unlock_and_erase_block, flash, flashFaults>>
    BY <1>2 DEF GlibFlashProm, Free
  <2>3. /\ cmds = <<>> /\ write_buffer = <<>> /\ first_block /\ ~unlock_and_erase_block
        /\ \A b \in Blocks : flash[b].locked /\ \A o \in Offsets : flash[b].words[o] = Old
    BY <2>1 DEF GlibInv
  <2>4. Begins'
    BY <2>2, <2>3 DEF Begins
  <2>5. GlibTypeOK' /\ FlashRight'
    BY <2>2, <2>3 DEF GlibInv, GlibTypeOK, FlashRight, OthersUntouched
  <2> QED
    BY <2>2, <2>4, <2>5 DEF GlibInv
<1> QED
  BY <1>1, <1>2 DEF GlibCall

(* All steps of the GLIB's programs.                                       *)
LEMMA GlibStep ==
    ASSUME GlibInv, GlibNext
    PROVE  GlibInv'
BY GlibCallStep, ReadElaStep, ReadDataStep, ReadEofStep, LockStep, EraseStep, ProgramStep
   DEF GlibNext, GlibWork

-----------------------------------------------------------------------------
(* The board with an SD card.  SdInv is the invariant behind TransfersFit  *)
(* and ImagesRight: one thread at a time has steps to do (Turn); the       *)
(* steps are a plan, in which each is followed by one that the protocol    *)
(* lets follow, and what the FIFOs hold fits the step at hand (Protocol,   *)
(* Place); an upload has so many words on the card as it has written and   *)
(* the pipe does not hold (Storing); the image is on the card when the     *)
(* upload is over (Uploads, Booted); and a download ends with the reads it *)
(* compared (Fetches, Filed, FileRight).  It holds until a reply is read   *)
(* before all of it has come; Behind is what holds after that, in the same *)
(* operation, and FpgaInv is both.                                         *)

(* Messages, the steps that follow one another, and what a FIFO holds.     *)
Messages     == {<< "text", 1, x >> : x \in Images}
                \cup {<< "secure", 1, "password" >>, << "get text", 0 >>, << "delete", 0 >>, << "list", 0 >>}
ReadMessage  == << "read", 0 >>
BootMessages == {<< "reboot", 0 >>, << "reset", 0 >>}
AnyWord  == {TextWord, GoodWord, WrongWord, BadWord, "store"} \cup Nat \cup Images
Image == Seq({GoodWord})
Streams == [image : Images \cup {None}, left : Nat, giving : BOOLEAN]
Plain == {"receive", "header", "chunks", "size", "words", "caught", "back", "start", "terminate"}
Steps == [do : {"send"}, words : Messages \cup {ReadMessage} \cup BootMessages]
         \cup [do : {"payload"}, size : Nat] \cup [do : Plain]

Follows(a, b) ==
    \/ a.do = "send" /\ a.words \in Messages /\ b.do = "receive"
    \/ a.do = "send" /\ a.words = ReadMessage /\ b.do = "size"
    \/ a.do = "send" /\ a.words \in BootMessages /\ b.do = "caught"
    \/ a.do = "header" /\ b.do = "chunks"
    \/ a.do = "chunks" /\ b.do = "receive"
    \/ a.do = "size" /\ b.do = "words"
    \/ a.do = "caught" /\ b.do = "back"
    \/ a.do \in {"receive", "payload", "words", "back"} /\ b.do \in {"send", "header", "start"}
Ends(a) == a.do \in {"receive", "payload", "words", "back", "start", "terminate"}
Texts       == {"get text", "list"}
AsksText(a) == a.do = "send" /\ a.words[1] \in Texts
Plan(s) == /\ s \in Seq(Steps)
           /\ \A k \in 1 .. Len(s) : IF k = Len(s) THEN Ends(s[k]) ELSE Follows(s[k], s[k + 1])
           /\ \A k \in 1 .. Len(s) : AsksText(s[k]) => \A j \in k + 2 .. Len(s) : s[j].do = "start"

SdTypeOK ==
    /\ toFpga \in Seq(AnyWord) /\ link \in BOOLEAN /\ image \in Images
    /\ DOMAIN sd \subseteq Images /\ \A x \in DOMAIN sd : sd[x] \in Image
    /\ stream \in Streams /\ out \in Seq(AnyWord)
    /\ todo \in [Threads -> Seq(Steps)] /\ looked \in [Threads -> BOOLEAN]
    /\ m \in [space : Nat, data : Nat] /\ lRet \in [Threads -> Seq(AnyWord)]
    /\ reads \in Seq(Seq(AnyWord))

NoStore(s)   == \A k \in 1 .. Len(s) : s[k].do \notin {"header", "chunks"}
Downloads(s) == s # <<>> /\ s[Len(s)].do = "start"

(* One thread has steps to do at a time, and who may have them.            *)
Turn ==
    /\ todo["caller"] = <<>> \/ todo["worker"] = <<>>
    /\ \A t \in Threads : todo[t] = <<>> => ~looked[t]
    /\ \A t \in Threads : t = "caller" \/ worker # "store" => NoStore(todo[t])
    /\ worker \in {"none", "store", "boot", "fetch", "done", "terminate"}
    /\ worker \in {"none", "done"} => todo["worker"] = <<>>
    /\ worker \notin {"none", "done"} => todo["caller"] = <<>>
    /\ worker \in {"store", "boot"} => op.name = "upload"
    /\ todo["caller"] # <<>> => op.name # "upload"
    /\ op.name = "upload" => numUploadingFpga = 1 /\ op.image \in Images
    /\ Downloads(todo["caller"]) \/ worker = "fetch" => op.name = "download" /\ op.image \in Images

(* What has come of a reply, with what has still to come.                  *)
Coming  == toFpga \o out
Silent  == toFpga = <<>> /\ out = <<>>
AtRest  == toMmc = <<>> /\ Silent /\ stream.left = 0
Waiting(messages) == toMmc \in messages /\ Silent /\ stream.left = 0
Replied == /\ toMmc = <<>> /\ stream.left = 0
           /\ Len(Coming) >= 2 /\ Coming[2] \in Nat /\ Len(Coming) = 2 + Coming[2]
           /\ \A k \in 3 .. Len(Coming) : Coming[k] # 0
Closing(t) == /\ toMmc # <<>> /\ toMmc[1] \in Texts => LastOfAll(t)
              /\ Len(Coming) > 2 /\ Coming[1] = 0 => LastOfAll(t)
Giving  == stream.left > 0 => /\ stream.giving /\ stream.image \in DOMAIN sd
                              /\ stream.left <= Len(sd[stream.image])

InMemory == op.image \in DOMAIN sd /\ sd[op.image] = Good

(* An image on its way to the card: w words of it are written.             *)
ToBeStored(w) ==
    /\ toMmc \in Seq(AnyWord) /\ Len(toMmc) = 2 + w /\ toMmc[1] = "store"
    /\ \A k \in 3 .. Len(toMmc) : toMmc[k] = GoodWord
    /\ Silent /\ stream.left = 0
BeingStored(w) ==
    /\ stream.left \in 1 .. TotalSize /\ ~stream.giving /\ stream.image = op.image
    /\ op.image \in DOMAIN sd /\ Len(sd[op.image]) = TotalSize - stream.left
    /\ toMmc \in Image /\ Len(sd[op.image]) + Len(toMmc) = w
    /\ Silent
HasStored(w) == toMmc = <<>> /\ Coming = Ok /\ stream.left = 0 /\ w = TotalSize /\ InMemory
RefusedToStore == toMmc \in Image /\ Coming = Error /\ stream.left = 0
Storing ==
    LET w == Len(lRet["worker"]) IN
    /\ worker = "store" /\ w <= TotalSize /\ Len(toMmc) < PipeSize
    /\ ToBeStored(w) \/ BeingStored(w) \/ HasStored(w) \/ RefusedToStore

LastReceive(t) == t = "worker" /\ worker = "store" /\ Len(todo[t]) = 1
Ending(t)      == LastOfAll(t) /\ ~LastReceive(t)

Place(t) ==
    LET d == Do(t) IN
    /\ d # None
    /\ d \in {"send", "header", "start", "back"} => AtRest
    /\ d = "send" /\ looked[t] => m.data = 0
    /\ d = "start" => ~looked[t]
    /\ d = "receive" =>
          /\ IF LastReceive(t) THEN Storing /\ (Len(lRet[t]) = TotalSize \/ RefusedToStore)
             ELSE (Waiting(Messages) \/ Replied) /\ Closing(t)
          /\ looked[t] => m.data <= Len(toFpga)
    /\ d = "chunks" =>
          /\ t = "worker" /\ Storing /\ Len(lRet[t]) < TotalSize
          /\ looked[t] => m.data <= Len(toFpga) /\ m.space + Len(toMmc) < PipeSize
    /\ d = "payload" =>
          /\ Head(todo[t]).size = Len(Coming) /\ stream.left = 0 /\ Len(lRet[t]) = 2
          /\ m.data <= Len(toFpga) + 2
          /\ \A k \in 1 .. Len(Coming) : Coming[k] # 0
          /\ lRet[t][1] # 0 \/ Coming = <<>> \/ Ending(t)
          /\ \/ toMmc = <<>>
             \/ /\ t = "worker" /\ worker = "store" /\ lRet[t][1] # 0
                /\ toMmc \in Image /\ Len(toMmc) < PipeSize
    /\ d = "size" =>
          /\ \/ Waiting({ReadMessage})
             \/ /\ toMmc = <<>> /\ Giving
                /\ Len(Coming) >= 2 /\ Coming[2] \in Nat /\ Len(Coming) - 2 + stream.left = Coming[2]
          /\ m.data <= Len(toFpga) /\ (~looked[t] => m.data < 2)
    /\ d = "words" =>
          /\ toMmc = <<>> /\ Giving
          /\ Len(lRet[t]) >= 2 /\ lRet[t][2] \in Nat
          /\ Len(lRet[t]) - 2 + Len(Coming) + stream.left = lRet[t][2]
          /\ looked[t] => m.data <= Len(toFpga)
    /\ d = "caught" =>
          /\ Silent /\ stream.left = 0
          /\ (toMmc \in BootMessages /\ link) \/ (toMmc = <<>> /\ ~link)
          /\ looked[t] => m.data = 0
    /\ d = "terminate" => stream.left = 0 /\ toMmc \in Image /\ Len(toMmc) < PipeSize /\ t = "worker"
    /\ ~link => d \in {"caught", "back"}

Protocol == /\ \A t \in Threads : Plan(todo[t]) /\ (todo[t] # <<>> => Place(t))
            /\ (\A t \in Threads : todo[t] = <<>>) => AtRest /\ link

(* What the detached thread has still to do.                               *)
UploadStep(x, a, after) ==
    \/ after = 4 /\ a = Send("text", << x >>)
    \/ after \in {0, 3} /\ a.do \in {"receive", "payload"}
    \/ after = 2 /\ a.do = "header"
    \/ after = 1 /\ a.do = "chunks"
UploadSteps(x, s) == \A k \in 1 .. Len(s) : UploadStep(x, s[k], Len(s) - k)
BootSteps(s)   == \A k \in 1 .. Len(s) : s[k].do = "send" => s[k].words[1] # "delete"
FetchSteps(s)  == \A k \in 1 .. Len(s) : /\ Len(s) - k <= 9
                                         /\ s[k].do = "words" <=> Len(s) - k \in {0, 5}
OnTheCard(s) ==
    /\ Len(s) <= 3 => text = op.image
    /\ Len(s) = 4 => (text = op.image /\ toMmc = <<>>) \/ toMmc = << "text", 1, op.image >>
    /\ s = <<>> \/ (Len(s) = 1 /\ Head(s).do = "payload" /\ lRet["worker"][1] = 0) => InMemory
Uploads  == worker = "store" /\ Do("worker") # "terminate" =>
                UploadSteps(op.image, todo["worker"]) /\ OnTheCard(todo["worker"])
Booting  == worker = "boot" => BootSteps(todo["worker"]) /\ (toMmc # <<>> => toMmc[1] # "delete")
ReadWith(l) == IF l > 5 THEN {0} ELSE IF l > 0 THEN {1, 2} ELSE {2, 3}
Fetches  == worker = "fetch" /\ Do("worker") # "terminate" =>
                FetchSteps(todo["worker"]) /\ Len(reads) \in ReadWith(Len(todo["worker"]))
Booted == worker \in {"boot", "done"} /\ op.name = "upload" => InMemory
Filed == file # <<>> /\ op.name = "download" =>
             worker = "done" /\ \A t \in Threads : todo[t] = <<>>

FileRight ==
    file # <<>> /\ op.name = "download" =>
          \A k \in DOMAIN file :
             file[k] = sd[op.image][k]
             \/ Cardinality({r \in DOMAIN reads : reads[r][k] # sd[op.image][k]}) >= 2

SdInv == /\ SdTypeOK /\ Turn /\ Protocol /\ Uploads /\ Booting /\ Booted /\ Fetches /\ Filed /\ FileRight

(* The lesser of two.                                                      *)
LEMMA LesserOf ==
    ASSUME NEW a \in Nat, NEW b \in Nat
    PROVE  Min({a, b}) \in Nat /\ Min({a, b}) <= a /\ Min({a, b}) <= b
           /\ (Min({a, b}) = a \/ Min({a, b}) = b)
<1> DEFINE P(x) == \A y \in {a, b} : x <= y
<1>1. \E x \in {a, b} : P(x)
  <2>1. CASE a <= b
    BY <2>1
  <2>2. CASE b <= a
    BY <2>2
  <2> QED
    BY <2>1, <2>2
<1>2. Min({a, b}) \in {a, b} /\ P(Min({a, b}))
  <2>1. Min({a, b}) = CHOOSE x \in {a, b} : P(x)
    BY DEF Min
  <2> HIDE DEF P
  <2> QED
    BY <1>1, <2>1
<1> QED
  BY <1>2

(* The names on the card, put in a sequence, are as many as there are.     *)
LEMMA NamesInOrder ==
    ASSUME NEW S, IsFiniteSet(S)
    PROVE  SetToSeq(S) \in Seq(S) /\ Len(SetToSeq(S)) = Cardinality(S)
<1>1. Cardinality(S) \in Nat /\ ExistsBijection(1 .. Cardinality(S), S)
  BY FS_CardinalityType
<1>2. \E f \in [1 .. Cardinality(S) -> S] : IsInjective(f)
  BY <1>1 DEF ExistsBijection, Bijection, Injection, Surjection, IsInjective
<1>3. SetToSeq(S) \in [1 .. Cardinality(S) -> S]
  BY <1>2 DEF SetToSeq
<1> QED
  BY <1>1, <1>3

(* What is assumed of the constants, and of the sets of images: a list of  *)
(* them fits in the FIFO.                                                  *)
LEMMA MmcFacts ==
    /\ PipeSize \in Nat /\ PipeSize > 3 /\ TotalSize \in Nat \ {0}
    /\ IsFiniteSet(Images) /\ Golden \in Images
    /\ \A S \in SUBSET Images : IsFiniteSet(S) /\ Cardinality(S) \in Nat /\ Cardinality(S) + 2 < PipeSize
<1>1. ASSUME NEW S \in SUBSET Images
      PROVE  IsFiniteSet(S) /\ Cardinality(S) \in Nat /\ Cardinality(S) + 2 < PipeSize
  <2>1. IsFiniteSet(S) /\ Cardinality(S) <= Cardinality(Images)
    BY FS_Subset, MmcAssumption
  <2>2. Cardinality(S) \in Nat /\ Cardinality(Images) \in Nat
    BY <2>1, FS_CardinalityType, MmcAssumption
  <2> QED
    BY <2>1, <2>2, MmcAssumption
<1> QED
  BY <1>1, MmcAssumption

(* What the microcontroller sees of a message, and that it takes it all.   *)
LEMMA MessageKinds ==
    ASSUME NEW q \in Messages \cup {ReadMessage} \cup BootMessages
    PROVE  \/ \E x \in Images : q = << "text", 1, x >>
           \/ q = << "secure", 1, "password" >>
           \/ q = << "get text", 0 >> \/ q = << "delete", 0 >> \/ q = << "list", 0 >>
           \/ q = << "read", 0 >> \/ q = << "reboot", 0 >> \/ q = << "reset", 0 >>
BY DEF Messages, ReadMessage, BootMessages

(* A message is taken whole.                                               *)
LEMMA MessageFacts ==
    ASSUME NEW q \in Messages \cup {ReadMessage} \cup BootMessages
    PROVE  /\ q # <<>> /\ Len(q) \in 2 .. 3 /\ q[1] \in Commands \ {"store"}
           /\ q[2] \in Nat /\ Len(q) = 2 + q[2]
           /\ SubSeq(q, 3 + q[2], Len(q)) = <<>> /\ <<>> \o q = q
<1>1. CASE \E x \in Images : q = << "text", 1, x >>
  <2>1. PICK x \in Images : q = << "text", 1, x >>
    BY <1>1
  <2>2. SubSeq(<< "text", 1, x >>, 4, 3) = <<>> /\ <<>> \o << "text", 1, x >> = << "text", 1, x >>
    OBVIOUS
  <2> QED
    BY <2>1, <2>2 DEF Commands
<1>2. CASE q = << "secure", 1, "password" >>
  <2>2. /\ SubSeq(<< "secure", 1, "password" >>, 4, 3) = <<>>
        /\ <<>> \o << "secure", 1, "password" >> = << "secure", 1, "password" >>
    OBVIOUS
  <2> QED
    BY <1>2, <2>2 DEF Commands
<1>3. CASE \E c \in Commands \ {"store"} : q = << c, 0 >>
  <2>1. PICK c \in Commands \ {"store"} : q = << c, 0 >>
    BY <1>3
  <2>2. SubSeq(<< c, 0 >>, 3, 2) = <<>> /\ <<>> \o << c, 0 >> = << c, 0 >>
    OBVIOUS
  <2> QED
    BY <2>1, <2>2
<1> QED
  BY <1>1, <1>2, <1>3, MessageKinds DEF Commands

(* A message that is not of a read or a reboot names its command.          *)
LEMMA TheMessages ==
    ASSUME NEW q \in Messages
    PROVE  /\ q[1] \in {"text", "secure", "get text", "delete", "list"}
           /\ q[1] = "text" => q[3] \in Images /\ q = << "text", 1, q[3] >>
<1>1. \/ \E x \in Images : q = << "text", 1, x >>
      \/ q = << "secure", 1, "password" >>
      \/ q = << "get text", 0 >> \/ q = << "delete", 0 >> \/ q = << "list", 0 >>
  BY DEF Messages
<1>2. CASE \E x \in Images : q = << "text", 1, x >>
  <2>1. PICK x \in Images : q = << "text", 1, x >>
    BY <1>2
  <2>2. q[1] = "text" /\ q[3] = x
    BY <2>1
  <2> QED
    BY <2>1, <2>2
<1>3. CASE q = << "secure", 1, "password" >>
  BY <1>3
<1>4. CASE \E c \in {"get text", "delete", "list"} : q = << c, 0 >>
  <2>1. PICK c \in {"get text", "delete", "list"} : q = << c, 0 >>
    BY <1>4
  <2>2. q[1] = c
    BY <2>1
  <2> QED
    BY <2>1, <2>2
<1> QED
  BY <1>1, <1>2, <1>3, <1>4

(* The level of a FIFO that holds less than its size is what it holds.     *)
LEMMA LevelFacts ==
    ASSUME NEW q, Len(q) \in Nat
    PROVE  Level(q) \in Nat /\ Level(q) < PipeSize /\ Level(q) <= Len(q)
           /\ (Len(q) < PipeSize => Level(q) = Len(q))
<1> DEFINE n == Len(q)
<1>1. n \in Nat /\ PipeSize \in Nat \ {0}
  BY MmcFacts
<1> HIDE DEF n
<1>2. (n % PipeSize) \in 0 .. PipeSize - 1 /\ (n < PipeSize => (n % PipeSize) = n)
  BY <1>1
<1>3. (n % PipeSize) <= n
  <2>1. CASE n < PipeSize
    BY <1>1, <1>2, <2>1
  <2>2. CASE n >= PipeSize
    BY <1>1, <1>2, <2>2
  <2> QED
    BY <1>1, <2>1, <2>2
<1> QED
  BY <1>1, <1>2, <1>3 DEF Level, n

(* Rest of plans: the tail of one is one.                                  *)
LEMMA PlanTail ==
    ASSUME NEW s \in Seq(Steps), s # <<>>
    PROVE  /\ Tail(s) \in Seq(Steps) /\ Len(Tail(s)) = Len(s) - 1
           /\ Plan(s) => /\ Plan(Tail(s))
                         /\ Tail(s) = <<>> => Ends(Head(s))
                         /\ Tail(s) # <<>> => Follows(Head(s), Head(Tail(s)))
           /\ Plan(s) /\ AsksText(Head(s)) => \A k \in 2 .. Len(Tail(s)) : Tail(s)[k].do = "start"
           /\ \A x : UploadSteps(x, s) => UploadSteps(x, Tail(s))
           /\ BootSteps(s) => BootSteps(Tail(s))
           /\ FetchSteps(s) => FetchSteps(Tail(s))
           /\ Downloads(Tail(s)) => Downloads(s)
           /\ NoStore(s) => NoStore(Tail(s))
<1> DEFINE r == Tail(s)
<1>1. /\ r \in Seq(Steps) /\ Len(s) \in Nat \ {0} /\ Len(r) = Len(s) - 1
      /\ \A k \in 1 .. Len(r) : k + 1 \in 1 .. Len(s) /\ r[k] = s[k + 1] /\ Len(r) - k = Len(s) - (k + 1)
      /\ Head(s) = s[1] /\ 1 \in 1 .. Len(s)
      /\ (r # <<>> => Len(r) # 0 /\ Head(r) = r[1] /\ r[1] = s[2] /\ Len(s) # 1)
      /\ (r = <<>> => Len(s) = 1)
  <2>1. r \in Seq(Steps) /\ Len(s) \in Nat \ {0} /\ Len(r) = Len(s) - 1 /\ Head(s) = s[1]
    OBVIOUS
  <2>2. \A k \in 1 .. Len(r) : r[k] = s[k + 1]
    OBVIOUS
  <2>3. \A k \in 1 .. Len(r) : k + 1 \in 1 .. Len(s) /\ Len(r) - k = Len(s) - (k + 1)
    BY <2>1
  <2> HIDE DEF r
  <2>4. r # <<>> => Len(r) # 0 /\ Head(r) = r[1] /\ 1 \in 1 .. Len(r)
    BY <2>1
  <2>5. r = <<>> => Len(s) = 1
    BY <2>1
  <2> QED
    BY <2>1, <2>2, <2>3, <2>4, <2>5
<1> HIDE DEF r
<1>2. ASSUME Plan(s)
      PROVE  /\ Plan(r) /\ (r = <<>> => Ends(Head(s))) /\ (r # <<>> => Follows(Head(s), Head(r)))
             /\ AsksText(Head(s)) => \A k \in 2 .. Len(r) : r[k].do = "start"
  <2>1. \A k \in 1 .. Len(s) : IF k = Len(s) THEN Ends(s[k]) ELSE Follows(s[k], s[k + 1])
    BY <1>2 DEF Plan
  <2>2. ASSUME NEW k \in 1 .. Len(r)
        PROVE  IF k = Len(r) THEN Ends(r[k]) ELSE Follows(r[k], r[k + 1])
    <3>1. k # Len(r) => k + 1 \in 1 .. Len(r) /\ r[k + 1] = s[(k + 1) + 1]
      BY <1>1
    <3>2. k = Len(r) <=> k + 1 = Len(s)
      BY <1>1
    <3> QED
      BY <1>1, <2>1, <3>1, <3>2
  <2>3. IF 1 = Len(s) THEN Ends(s[1]) ELSE Follows(s[1], s[2])
    BY <1>1, <2>1
  <2>4. \A k \in 1 .. Len(s) : AsksText(s[k]) => \A j \in k + 2 .. Len(s) : s[j].do = "start"
    BY <1>2 DEF Plan
  <2>5. ASSUME NEW k \in 0 .. Len(r), AsksText(s[k + 1]), NEW j \in k + 2 .. Len(r)
        PROVE  r[j].do = "start"
    <3>1. k + 1 \in 1 .. Len(s) /\ j \in 1 .. Len(r) /\ j + 1 \in (k + 1) + 2 .. Len(s)
      BY <1>1
    <3> QED
      BY <1>1, <2>4, <2>5, <3>1
  <2>6. AsksText(Head(s)) => \A k \in 2 .. Len(r) : r[k].do = "start"
    <3> SUFFICES ASSUME AsksText(Head(s)), NEW k \in 2 .. Len(r) PROVE r[k].do = "start"
      OBVIOUS
    <3>1. 0 \in 0 .. Len(r) /\ 0 + 1 = 1 /\ 0 + 2 = 2 /\ AsksText(s[1])
      BY <1>1
    <3> QED
      BY <2>5, <3>1
  <2>7. \A k \in 1 .. Len(r) : AsksText(r[k]) => \A j \in k + 2 .. Len(r) : r[j].do = "start"
    <3> SUFFICES ASSUME NEW k \in 1 .. Len(r), AsksText(r[k]), NEW j \in k + 2 .. Len(r)
                 PROVE  r[j].do = "start"
      OBVIOUS
    <3>1. k \in 0 .. Len(r) /\ AsksText(s[k + 1])
      BY <1>1
    <3> QED
      BY <2>5, <3>1
  <2> QED
    BY <1>1, <2>2, <2>3, <2>6, <2>7 DEF Plan
<1>3. \A x : UploadSteps(x, s) => UploadSteps(x, r)
  BY <1>1 DEF UploadSteps
<1>4. BootSteps(s) => BootSteps(r)
  BY <1>1 DEF BootSteps
<1>5. FetchSteps(s) => FetchSteps(r)
  BY <1>1 DEF FetchSteps
<1>6. (Downloads(r) => Downloads(s)) /\ (NoStore(s) => NoStore(r))
  BY <1>1 DEF Downloads, NoStore
<1> QED
  BY <1>1, <1>2, <1>3, <1>4, <1>5, <1>6 DEF r

(* What the step at hand can be.                                           *)
LEMMA NextOfPlan ==
    ASSUME NEW s \in Seq(Steps), s # <<>>
    PROVE  /\ Len(s) \in Nat \ {0} /\ Head(s) \in Steps
           /\ \A x : UploadSteps(x, s) => UploadStep(x, Head(s), Len(s) - 1)
           /\ NoStore(s) => Head(s).do \notin {"header", "chunks"}
           /\ BootSteps(s) => (Head(s).do = "send" => Head(s).words[1] # "delete")
           /\ FetchSteps(s) => Len(s) - 1 <= 9 /\ (Head(s).do = "words" <=> Len(s) - 1 \in {0, 5})
<1>1. Len(s) \in Nat \ {0} /\ Head(s) = s[1] /\ s[1] \in Steps
  OBVIOUS
<1>2. 1 \in 1 .. Len(s)
  BY <1>1
<1> QED
  BY <1>1, <1>2 DEF UploadSteps, BootSteps, FetchSteps, NoStore

(* The payload of a reply takes the place of its header.                   *)
LEMMA PlanPayload ==
    ASSUME NEW s \in Seq(Steps), s # <<>>, Head(s).do = "receive", NEW n \in Nat
    PROVE  LET r == << [do |-> "payload", size |-> n] >> \o Tail(s) IN
           /\ r \in Seq(Steps) /\ Len(r) = Len(s) /\ r # <<>> /\ Head(r) = [do |-> "payload", size |-> n]
           /\ (\A k \in 2 .. Len(s) : s[k].do = "start") => \A k \in 2 .. Len(r) : r[k].do = "start"
           /\ Plan(s) => Plan(r)
           /\ \A x : UploadSteps(x, s) => UploadSteps(x, r)
           /\ BootSteps(s) => BootSteps(r)
           /\ FetchSteps(s) => FetchSteps(r)
           /\ Downloads(r) => Downloads(s)
           /\ NoStore(s) => NoStore(r)
<1> DEFINE a == [do |-> "payload", size |-> n]
           r == << a >> \o Tail(s)
<1>1. a \in Steps /\ a.do = "payload" /\ a.size = n
  BY DEF Steps
<1> HIDE DEF a
<1>2. /\ r \in Seq(Steps) /\ Len(s) \in Nat \ {0} /\ Len(r) = Len(s) /\ r[1] = a /\ r # <<>>
      /\ \A k \in 1 .. Len(s) : k # 1 => r[k] = s[k]
      /\ Head(s) = s[1] /\ Head(r) = a
  BY <1>1
<1> HIDE DEF r
<1>3. ASSUME Plan(s) PROVE Plan(r)
  <2>1. \A k \in 1 .. Len(s) : IF k = Len(s) THEN Ends(s[k]) ELSE Follows(s[k], s[k + 1])
    BY <1>3 DEF Plan
  <2>2. ASSUME NEW k \in 1 .. Len(r)
        PROVE  IF k = Len(r) THEN Ends(r[k]) ELSE Follows(r[k], r[k + 1])
    <3>1. k # Len(r) => k + 1 \in 1 .. Len(s) /\ r[k + 1] = s[k + 1]
      BY <1>2
    <3>2. CASE k = 1
      <4>1. IF 1 = Len(s) THEN Ends(s[1]) ELSE Follows(s[1], s[2])
        BY <1>2, <2>1
      <4> QED
        BY <1>1, <1>2, <3>1, <3>2, <4>1 DEF Ends, Follows
    <3>3. CASE k # 1
      BY <1>2, <2>1, <3>1, <3>3
    <3> QED
      BY <3>2, <3>3
  <2>3. \A k \in 1 .. Len(r) : AsksText(r[k]) => \A j \in k + 2 .. Len(r) : r[j].do = "start"
    <3> SUFFICES ASSUME NEW k \in 1 .. Len(r), AsksText(r[k]), NEW j \in k + 2 .. Len(r)
                 PROVE  r[j].do = "start"
      OBVIOUS
    <3>1. k # 1
      BY <1>1, <1>2 DEF AsksText
    <3>2. k \in 1 .. Len(s) /\ j \in k + 2 .. Len(s) /\ j \in 1 .. Len(s) /\ j # 1 /\ r[k] = s[k]
      BY <1>2, <3>1
    <3>3. \A h \in 1 .. Len(s) : AsksText(s[h]) => \A g \in h + 2 .. Len(s) : s[g].do = "start"
      BY <1>3 DEF Plan
    <3> QED
      BY <1>2, <3>2, <3>3
  <2> QED
    BY <1>2, <2>2, <2>3 DEF Plan
<1>4. \A x : UploadSteps(x, s) => UploadSteps(x, r)
  <2> SUFFICES ASSUME NEW x, UploadSteps(x, s), NEW k \in 1 .. Len(r)
               PROVE  UploadStep(x, r[k], Len(r) - k)
    BY DEF UploadSteps
  <2>1. UploadStep(x, s[k], Len(s) - k) /\ k \in 1 .. Len(s)
    BY <1>2 DEF UploadSteps
  <2>2. CASE k = 1
    BY <1>1, <1>2, <2>1, <2>2 DEF UploadStep, Send
  <2>3. CASE k # 1
    BY <1>2, <2>1, <2>3
  <2> QED
    BY <2>2, <2>3
<1>5. BootSteps(s) => BootSteps(r)
  BY <1>1, <1>2 DEF BootSteps
<1>6. FetchSteps(s) => FetchSteps(r)
  BY <1>1, <1>2 DEF FetchSteps
<1>7. (Downloads(r) => Downloads(s)) /\ (NoStore(s) => NoStore(r))
  BY <1>1, <1>2 DEF Downloads, NoStore
<1>8. (\A k \in 2 .. Len(s) : s[k].do = "start") => \A k \in 2 .. Len(r) : r[k].do = "start"
  <2>1. \A k \in 2 .. Len(r) : k \in 1 .. Len(s) /\ k # 1 /\ k \in 2 .. Len(s)
    BY <1>2
  <2> QED
    BY <1>2, <2>1
<1> QED
  BY <1>1, <1>2, <1>3, <1>4, <1>5, <1>6, <1>7, <1>8 DEF r, a

(* A plan that another may follow.                                         *)
Block(s) == /\ Plan(s) /\ s # <<>> /\ s[1].do \in {"send", "header"}
            /\ s[Len(s)].do \in {"receive", "words", "back"}
Textless(s) == \A k \in 1 .. Len(s) : ~AsksText(s[k])
Starts(s)   == \A k \in 1 .. Len(s) : s[k].do = "start"

(* Plans one after the other make a plan.                                  *)
LEMMA PlanJoin ==
    ASSUME NEW p, NEW q, Block(p), Plan(q), q # <<>>, q[1].do \in {"send", "header", "start"},
           Textless(p) \/ Starts(q)
    PROVE  /\ Plan(p \o q) /\ p \o q # <<>> /\ (p \o q)[1] = p[1]
           /\ Block(q) => Block(p \o q)
           /\ BootSteps(p) /\ BootSteps(q) => BootSteps(p \o q)
           /\ NoStore(p) /\ NoStore(q) => NoStore(p \o q)
           /\ Textless(p) /\ Textless(q) => Textless(p \o q)
<1> DEFINE r == p \o q
           l == Len(p)
<1>1. /\ p \in Seq(Steps) /\ q \in Seq(Steps) /\ r \in Seq(Steps) /\ l \in Nat \ {0}
      /\ Len(q) \in Nat \ {0} /\ Len(r) = l + Len(q)
  BY DEF Block, Plan
<1>2. \A k \in 1 .. Len(r) : r[k] = IF k <= l THEN p[k] ELSE q[k - l]
  BY <1>1
<1> HIDE DEF r, l
<1>3. r # <<>> /\ r[1] = p[1] /\ r[Len(r)] = q[Len(q)]
  <2>1. 1 \in 1 .. Len(r) /\ Len(r) \in 1 .. Len(r) /\ ~(Len(r) <= l) /\ Len(r) - l = Len(q) /\ 1 <= l
    BY <1>1
  <2> QED
    BY <1>1, <1>2, <2>1
<1>9. \A k \in 1 .. Len(r) : AsksText(r[k]) => \A j \in k + 2 .. Len(r) : r[j].do = "start"
  <2> SUFFICES ASSUME NEW k \in 1 .. Len(r), AsksText(r[k]), NEW j \in k + 2 .. Len(r)
               PROVE  r[j].do = "start"
    OBVIOUS
  <2>1. j \in 1 .. Len(r) /\ ~(j <= l) => j - l \in 1 .. Len(q)
    BY <1>1
  <2>2. CASE k <= l
    <3>1. k \in 1 .. Len(p) /\ AsksText(p[k])
      BY <1>1, <1>2, <2>2 DEF l
    <3>2. Starts(q) /\ \A h \in k + 2 .. Len(p) : p[h].do = "start"
      BY <3>1 DEF Textless, Block, Plan
    <3>3. j <= l => j \in k + 2 .. Len(p)
      BY <1>1, <3>1 DEF l
    <3>4. j \in 1 .. Len(r)
      BY <1>1
    <3> QED
      BY <1>2, <2>1, <3>2, <3>3, <3>4 DEF Starts
  <2>3. CASE ~(k <= l)
    <3>1. /\ k - l \in 1 .. Len(q) /\ j - l \in (k - l) + 2 .. Len(q) /\ j \in 1 .. Len(r) /\ ~(j <= l)
      BY <1>1, <2>3
    <3>2. AsksText(q[k - l]) /\ r[j] = q[j - l]
      BY <1>2, <2>3, <3>1
    <3> QED
      BY <3>1, <3>2 DEF Plan
  <2> QED
    BY <2>2, <2>3
<1>4. Plan(r)
  <2> SUFFICES ASSUME NEW k \in 1 .. Len(r)
               PROVE  IF k = Len(r) THEN Ends(r[k]) ELSE Follows(r[k], r[k + 1])
    BY <1>1, <1>9 DEF Plan
  <2>1. CASE k < l
    <3>1. k \in 1 .. l /\ k + 1 \in 1 .. Len(r) /\ k + 1 <= l /\ k # Len(r) /\ k # l
      BY <1>1, <2>1
    <3>2. Follows(p[k], p[k + 1])
      BY <1>1, <3>1 DEF Block, Plan, l
    <3> QED
      BY <1>1, <1>2, <3>1, <3>2
  <2>2. CASE k = l
    <3>1. k + 1 \in 1 .. Len(r) /\ ~(k + 1 <= l) /\ (k + 1) - l = 1 /\ k # Len(r)
      BY <1>1, <2>2
    <3>2. r[k] = p[l] /\ r[k + 1] = q[1]
      BY <1>1, <1>2, <2>2, <3>1
    <3>3. p[l].do \in {"receive", "words", "back"}
      BY DEF Block, l
    <3> QED
      BY <3>1, <3>2, <3>3 DEF Follows
  <2>3. CASE k > l
    <3>1. k - l \in 1 .. Len(q) /\ ~(k <= l) /\ (k = Len(r) <=> k - l = Len(q))
      BY <1>1, <2>3
    <3>2. k # Len(r) => k + 1 \in 1 .. Len(r) /\ ~(k + 1 <= l) /\ (k + 1) - l = (k - l) + 1
      BY <1>1, <2>3
    <3>3. IF k - l = Len(q) THEN Ends(q[k - l]) ELSE Follows(q[k - l], q[(k - l) + 1])
      BY <3>1 DEF Plan
    <3> QED
      BY <1>2, <3>1, <3>2, <3>3
  <2> QED
    BY <1>1, <2>1, <2>2, <2>3
<1>5. Block(q) => Block(r)
  BY <1>3, <1>4 DEF Block
<1>6. \A k \in 1 .. Len(r) : IF k <= l THEN k \in 1 .. Len(p) ELSE k - l \in 1 .. Len(q)
  BY <1>1 DEF l
<1>7. BootSteps(p) /\ BootSteps(q) => BootSteps(r)
  BY <1>2, <1>6 DEF BootSteps
<1>8. NoStore(p) /\ NoStore(q) => NoStore(r)
  BY <1>2, <1>6 DEF NoStore
<1>10. Textless(p) /\ Textless(q) => Textless(r)
  BY <1>2, <1>6 DEF Textless
<1> QED
  BY <1>3, <1>4, <1>5, <1>7, <1>8, <1>10 DEF r

(* Two sequences joined.                                                   *)
LEMMA Joined ==
    ASSUME NEW S, NEW a \in Seq(S), NEW b \in Seq(S)
    PROVE  /\ a \o b \in Seq(S) /\ Len(a \o b) = Len(a) + Len(b)
           /\ \A k \in 1 .. Len(a) + Len(b) :
                 (a \o b)[k] = IF k <= Len(a) THEN a[k] ELSE b[k - Len(a)]
OBVIOUS

(* The messages of the code, and the answers awaited.                      *)
LEMMA SendFacts ==
    /\ \A x : Send("text", << x >>) = [do |-> "send", words |-> << "text", 1, x >>]
    /\ Send("secure", << "password" >>) = [do |-> "send", words |-> << "secure", 1, "password" >>]
    /\ \A c : Send(c, <<>>) = [do |-> "send", words |-> << c, 0 >>]
<1>1. ASSUME NEW c, NEW x PROVE << c, Len(<< x >>) >> \o << x >> = << c, 1, x >>
  <2> DEFINE S == {c, 1, x}
             a == << c, Len(<< x >>) >>
             b == << x >>
             d == << c, 1, x >>
  <2>1. a \in Seq(S) /\ b \in Seq(S) /\ d \in Seq(S) /\ Len(a) = 2 /\ Len(b) = 1 /\ Len(d) = 3
        /\ a[1] = c /\ a[2] = 1 /\ b[1] = x /\ d[1] = c /\ d[2] = 1 /\ d[3] = x
    OBVIOUS
  <2> HIDE DEF a, b, d, S
  <2>2. a \o b \in Seq(S) /\ Len(a \o b) = 3
        /\ (a \o b)[1] = c /\ (a \o b)[2] = 1 /\ (a \o b)[3] = x
    <3>1. a \o b \in Seq(S) /\ Len(a \o b) = Len(a) + Len(b)
      BY <2>1, Joined
    <3>2. \A k \in 1 .. Len(a) + Len(b) : (a \o b)[k] = IF k <= Len(a) THEN a[k] ELSE b[k - Len(a)]
      BY <2>1, Joined
    <3>3. /\ 1 \in 1 .. 3 /\ 2 \in 1 .. 3 /\ 3 \in 1 .. 3 /\ 3 - 2 = 1 /\ 2 + 1 = 3
          /\ 1 <= 2 /\ 2 <= 2 /\ ~(3 <= 2)
      OBVIOUS
    <3> QED
      BY <2>1, <3>1, <3>2, <3>3
  <2>3. a \o b = d
    <3>1. \A k \in 1 .. 3 : (a \o b)[k] = d[k]
      <4>1. \A k \in 1 .. 3 : k = 1 \/ k = 2 \/ k = 3
        OBVIOUS
      <4> QED
        BY <2>1, <2>2, <4>1
    <3> QED
      BY <2>1, <2>2, <3>1
  <2> QED
    BY <2>3 DEF a, b, d
<1>2. \A c : << c, Len(<<>>) >> \o <<>> = << c, 0 >>
  OBVIOUS
<1> QED
  BY <1>1, <1>2 DEF Send

(* A message and its answer are a block.                                   *)
LEMMA Exchange ==
    ASSUME NEW w \in Messages
    PROVE  LET s == << [do |-> "send", words |-> w], Step("receive") >> IN
           Block(s) /\ NoStore(s) /\ (w[1] # "delete" => BootSteps(s)) /\ (w[1] \notin Texts => Textless(s))
<1> DEFINE a == [do |-> "send", words |-> w]
           b == Step("receive")
           s == << a, b >>
<1>1. a \in Steps /\ b \in Steps /\ a.do = "send" /\ a.words = w /\ b.do = "receive"
  BY DEF Steps, Plain, Step
<1> HIDE DEF a, b
<1>2. s \in Seq(Steps) /\ Len(s) = 2 /\ s[1] = a /\ s[2] = b /\ s # <<>>
  BY <1>1
<1> HIDE DEF s
<1>3. Plan(s)
  BY <1>1, <1>2 DEF Plan, Follows, Ends
<1>4. w[1] # "delete" => BootSteps(s)
  BY <1>1, <1>2 DEF BootSteps
<1>5. NoStore(s)
  BY <1>1, <1>2 DEF NoStore
<1>6. w[1] \notin Texts => Textless(s)
  BY <1>1, <1>2 DEF Textless, AsksText
<1> QED
  BY <1>1, <1>2, <1>3, <1>4, <1>5, <1>6 DEF Block, a, b, s

(* So are the three steps of each of the others.                           *)
LEMMA ThreeSteps ==
    ASSUME NEW a, NEW b, NEW c, a \in Steps, b \in Steps, c \in Steps,
           Follows(a, b), Follows(b, c), a.do \in {"send", "header"},
           c.do \in {"receive", "words", "back"}, ~AsksText(a)
    PROVE  LET s == << a, b, c >> IN
           /\ Block(s) /\ Len(s) = 3 /\ Textless(s)
           /\ a.do = "send" => NoStore(s) /\ (a.words[1] # "delete" => BootSteps(s))
<1> DEFINE s == << a, b, c >>
<1>1. s \in Seq(Steps) /\ Len(s) = 3 /\ s[1] = a /\ s[2] = b /\ s[3] = c /\ s # <<>>
  OBVIOUS
<1> HIDE DEF s
<1>4. Textless(s)
  <2>1. \A k \in 1 .. 3 : k = 1 \/ k = 2 \/ k = 3
    OBVIOUS
  <2>2. ~AsksText(b) /\ ~AsksText(c)
    BY DEF Follows, AsksText
  <2> QED
    BY <1>1, <2>1, <2>2 DEF Textless
<1>2. Plan(s)
  <2>1. \A k \in 1 .. 3 : k = 1 \/ k = 2 \/ k = 3
    OBVIOUS
  <2> QED
    BY <1>1, <1>4, <2>1 DEF Plan, Ends, Textless
<1>3. a.do = "send" => NoStore(s) /\ (a.words[1] # "delete" => BootSteps(s))
  <2>1. \A k \in 1 .. 3 : k = 1 \/ k = 2 \/ k = 3
    OBVIOUS
  <2>2. b.do # "send" /\ (a.do = "send" => b.do \notin {"header", "chunks"})
    BY DEF Follows
  <2> QED
    BY <1>1, <2>1, <2>2 DEF BootSteps, NoStore
<1> QED
  BY <1>1, <1>2, <1>3, <1>4 DEF Block, s

(* Blocks that write nothing to the card.                                  *)
Aside(s) == Block(s) /\ NoStore(s)

(* The operations are plans, each of the kind its thread needs.            *)
LEMMA Operations ==
    ASSUME NEW x \in Images
    PROVE  /\ Aside(SetTextSpace(x)) /\ BootSteps(SetTextSpace(x)) /\ Textless(SetTextSpace(x))
           /\ Aside(EnterSecureMode) /\ BootSteps(EnterSecureMode) /\ Textless(EnterSecureMode)
           /\ Aside(GetTextSpace) /\ BootSteps(GetTextSpace)
           /\ Aside(ListFilesOnSD)
           /\ Aside(<< Send("delete", <<>>), ReceiveOk >>)
           /\ \A c \in {"reboot", "reset"} :
                 LET s == << Send(c, <<>>), Step("caught"), Step("back") >> IN
                 Aside(s) /\ BootSteps(s) /\ Textless(s)
           /\ LET s == << Send("read", <<>>), Step("size"), Step("words") >> IN Aside(s) /\ Textless(s)
           /\ Block(<< Step("header"), Step("chunks"), ReceiveOk >>)
<1> USE DEF Aside
<1>1. << "text", 1, x >> \in Messages /\ << "secure", 1, "password" >> \in Messages
      /\ << "get text", 0 >> \in Messages /\ << "list", 0 >> \in Messages /\ << "delete", 0 >> \in Messages
  BY DEF Messages
<1>2. Aside(SetTextSpace(x)) /\ BootSteps(SetTextSpace(x)) /\ Textless(SetTextSpace(x))
  <2>1. << "text", 1, x >>[1] = "text" /\ "text" \notin Texts
    BY DEF Texts
  <2> QED
    BY <1>1, <2>1, Exchange, SendFacts DEF SetTextSpace, ReceiveOk
<1>3. Aside(EnterSecureMode) /\ BootSteps(EnterSecureMode) /\ Textless(EnterSecureMode)
  <2>1. << "secure", 1, "password" >>[1] = "secure" /\ "secure" \notin Texts
    BY DEF Texts
  <2> QED
    BY <1>1, <2>1, Exchange, SendFacts DEF EnterSecureMode, ReceiveOk
<1>4. Aside(GetTextSpace) /\ BootSteps(GetTextSpace)
  <2>1. << "get text", 0 >>[1] = "get text"
    OBVIOUS
  <2> QED
    BY <1>1, <2>1, Exchange, SendFacts DEF GetTextSpace, ReceiveOk
<1>5. Aside(ListFilesOnSD) /\ Aside(<< Send("delete", <<>>), ReceiveOk >>)
  BY <1>1, Exchange, SendFacts DEF ListFilesOnSD, ReceiveOk
<1>6. ASSUME NEW c \in {"reboot", "reset"}
      PROVE  LET s == << Send(c, <<>>), Step("caught"), Step("back") >> IN
             Aside(s) /\ BootSteps(s) /\ Textless(s)
  <2> DEFINE a == [do |-> "send", words |-> << c, 0 >>]
  <2>1. << c, 0 >> \in BootMessages /\ << c, 0 >>[1] # "delete" /\ << c, 0 >>[1] \notin Texts
    BY DEF BootMessages, Texts
  <2>2. /\ a \in Steps /\ a.do = "send" /\ a.words \in BootMessages /\ a.words[1] # "delete"
        /\ a = Send(c, <<>>) /\ ~AsksText(a)
    BY <2>1, SendFacts DEF Steps, AsksText
  <2> HIDE DEF a
  <2>3. /\ Step("caught") \in Steps /\ Step("back") \in Steps
        /\ Step("caught").do = "caught" /\ Step("back").do = "back"
    BY DEF Steps, Step, Plain
  <2>4. Follows(a, Step("caught")) /\ Follows(Step("caught"), Step("back"))
    BY <2>2, <2>3 DEF Follows
  <2> QED
    BY <2>2, <2>3, <2>4, ThreeSteps
<1>7. LET s == << Send("read", <<>>), Step("size"), Step("words") >> IN Aside(s) /\ Textless(s)
  <2> DEFINE a == [do |-> "send", words |-> << "read", 0 >>]
  <2>2. a \in Steps /\ a.do = "send" /\ a.words = ReadMessage /\ a = Send("read", <<>>) /\ ~AsksText(a)
    BY SendFacts DEF Steps, ReadMessage, AsksText, Texts
  <2> HIDE DEF a
  <2>3. /\ Step("size") \in Steps /\ Step("words") \in Steps
        /\ Step("size").do = "size" /\ Step("words").do = "words"
    BY DEF Steps, Step, Plain
  <2>4. Follows(a, Step("size")) /\ Follows(Step("size"), Step("words"))
    BY <2>2, <2>3 DEF Follows
  <2> QED
    BY <2>2, <2>3, <2>4, ThreeSteps
<1>8. Block(<< Step("header"), Step("chunks"), ReceiveOk >>)
  <2>3. /\ Step("header") \in Steps /\ Step("chunks") \in Steps /\ ReceiveOk \in Steps
        /\ Step("header").do = "header" /\ Step("chunks").do = "chunks" /\ ReceiveOk.do = "receive"
    BY DEF Steps, Step, Plain, ReceiveOk
  <2>4. Follows(Step("header"), Step("chunks")) /\ Follows(Step("chunks"), ReceiveOk) /\ ~AsksText(Step("header"))
    BY <2>3 DEF Follows, AsksText
  <2> QED
    BY <2>3, <2>4, ThreeSteps
<1> QED
  BY <1>2, <1>3, <1>4, <1>5, <1>6, <1>7, <1>8

(* The plans of the caller and of the detached thread.                     *)
LEMMA Plans ==
    ASSUME NEW x \in Images
    PROVE  /\ Aside(ListFilesOnSD) /\ Aside(DeleteFromSD(x)) /\ Aside(BoardHardReset)
           /\ Aside(RebootFPGA(x)) /\ BootSteps(RebootFPGA(x))
           /\ Block(FileToSD(x)) /\ Aside(FileFromSD(x)) /\ Aside(FileFromSD(x) \o FileFromSD(x))
           /\ LET s == ListFilesOnSD \o << Step("start") >> IN
              Plan(s) /\ s # <<>> /\ NoStore(s) /\ s[1].do \in {"send", "header"}
<1>1. \A p, q : Block(p) /\ Block(q) /\ Textless(p) => Block(p \o q)
  BY PlanJoin DEF Block
<1>2. \A p, q : Aside(p) /\ Aside(q) /\ Textless(p) =>
                  Aside(p \o q) /\ (Textless(q) => Textless(p \o q))
  BY PlanJoin DEF Block, Aside
<1>3. \A p, q : Aside(p) /\ Aside(q) /\ BootSteps(p) /\ BootSteps(q) /\ Textless(p) => BootSteps(p \o q)
  BY PlanJoin DEF Block, Aside
<1>4. /\ Aside(DeleteFromSD(x)) /\ Aside(BoardHardReset) /\ Block(FileToSD(x))
      /\ Aside(FileFromSD(x)) /\ Textless(FileFromSD(x))
  BY <1>1, <1>2, Operations DEF DeleteFromSD, BoardHardReset, FileToSD, FileFromSD, Aside
<1>5. Aside(RebootFPGA(x)) /\ BootSteps(RebootFPGA(x))
  <2> DEFINE a == SetTextSpace(x) \o EnterSecureMode
             b == << Send("reboot", <<>>), Step("caught"), Step("back") >>
  <2>1. Aside(a) /\ BootSteps(a) /\ Aside(b) /\ BootSteps(b) /\ Textless(a) /\ Textless(b)
    BY <1>2, <1>3, Operations
  <2> HIDE DEF a, b
  <2>2. Aside(a \o b) /\ BootSteps(a \o b) /\ Textless(a \o b)
    BY <1>2, <1>3, <2>1
  <2>3. Aside((a \o b) \o GetTextSpace) /\ BootSteps((a \o b) \o GetTextSpace)
    BY <1>2, <1>3, <2>2, Operations
  <2>4. RebootFPGA(x) = (a \o b) \o GetTextSpace
    BY DEF a, b, RebootFPGA
  <2> QED
    BY <2>3, <2>4
<1>6. LET s == ListFilesOnSD \o << Step("start") >> IN
      Plan(s) /\ s # <<>> /\ NoStore(s) /\ s[1].do \in {"send", "header"}
  <2> DEFINE a == Step("start")
             q == << a >>
  <2>1. a \in Steps /\ a.do = "start"
    BY DEF Steps, Step, Plain
  <2> HIDE DEF a
  <2>2. Plan(q) /\ q # <<>> /\ q[1].do = "start" /\ NoStore(q) /\ Starts(q)
    BY <2>1 DEF Plan, Ends, NoStore, Starts
  <2>3. Block(ListFilesOnSD) /\ NoStore(ListFilesOnSD)
    BY Operations DEF Aside
  <2> HIDE DEF q
  <2>4. /\ Plan(ListFilesOnSD \o q) /\ ListFilesOnSD \o q # <<>> /\ NoStore(ListFilesOnSD \o q)
        /\ (ListFilesOnSD \o q)[1] = ListFilesOnSD[1]
    BY <2>2, <2>3, PlanJoin
  <2> QED
    BY <2>3, <2>4 DEF q, a, Block
<1>7. Aside(FileFromSD(x) \o FileFromSD(x))
  BY <1>2, <1>4
<1> QED
  BY <1>4, <1>5, <1>6, <1>7, Operations

(* A sequence of five steps, in two parts.                                 *)
LEMMA FiveSteps ==
    ASSUME NEW p, NEW q, NEW r, NEW u, NEW v, << p, q >> \in Seq(Steps), << r, u, v >> \in Seq(Steps)
    PROVE  LET s == << p, q >> \o << r, u, v >> IN
           /\ s \in Seq(Steps) /\ Len(s) = 5
           /\ s[1] = p /\ s[2] = q /\ s[3] = r /\ s[4] = u /\ s[5] = v
<1> DEFINE j == << p, q >>
           l == << r, u, v >>
<1>1. /\ Len(j) = 2 /\ Len(l) = 3 /\ j[1] = p /\ j[2] = q /\ l[1] = r /\ l[2] = u /\ l[3] = v
      /\ j \in Seq(Steps) /\ l \in Seq(Steps)
  OBVIOUS
<1> HIDE DEF j, l
<1>2. j \in Seq(Steps) /\ l \in Seq(Steps)
  BY <1>1
<1>3. /\ j \o l \in Seq(Steps) /\ Len(j \o l) = Len(j) + Len(l)
      /\ \A k \in 1 .. Len(j) + Len(l) : (j \o l)[k] = IF k <= Len(j) THEN j[k] ELSE l[k - Len(j)]
  BY <1>2, Joined, Zenon
<1>4. Len(j \o l) = 5 /\ \A k \in 1 .. 5 : (j \o l)[k] = IF k <= 2 THEN j[k] ELSE l[k - 2]
  BY <1>1, <1>3
<1>5. (j \o l)[1] = j[1] /\ (j \o l)[2] = j[2] /\ (j \o l)[3] = l[1] /\ (j \o l)[4] = l[2]
      /\ (j \o l)[5] = l[3]
  BY <1>4
<1> QED
  BY <1>1, <1>3, <1>4, <1>5 DEF j, l

(* An upload has five steps, and so has each read of a download.           *)
LEMMA TransferSteps ==
    ASSUME NEW x \in Images
    PROVE  /\ UploadSteps(x, FileToSD(x)) /\ Len(FileToSD(x)) = 5
           /\ FetchSteps(FileFromSD(x)) /\ Len(FileFromSD(x)) = 5
           /\ FetchSteps(FileFromSD(x) \o FileFromSD(x)) /\ Len(FileFromSD(x) \o FileFromSD(x)) = 10
<1>1. /\ Block(SetTextSpace(x)) /\ Block(<< Step("header"), Step("chunks"), ReceiveOk >>)
      /\ Block(<< Send("read", <<>>), Step("size"), Step("words") >>)
  BY Operations DEF Aside
<1> DEFINE a == Send("text", << x >>)
           b == ReceiveOk
           c == Step("header")
           d == Step("chunks")
           e == Send("read", <<>>)
           g == Step("size")
           h == Step("words")
<1>2. /\ a.do = "send" /\ b.do = "receive" /\ c.do = "header" /\ d.do = "chunks" /\ e.do = "send"
      /\ g.do = "size" /\ h.do = "words"
  BY DEF Send, Step, ReceiveOk
<1>3. /\ a = Send("text", << x >>) /\ SetTextSpace(x) = << a, b >>
      /\ FileToSD(x) = << a, b >> \o << c, d, b >>
      /\ FileFromSD(x) = << a, b >> \o << e, g, h >>
      /\ << a, b >> \in Seq(Steps) /\ << c, d, b >> \in Seq(Steps) /\ << e, g, h >> \in Seq(Steps)
  BY <1>1 DEF Block, Plan, SetTextSpace, FileToSD, FileFromSD
<1> HIDE DEF a, b, c, d, e, g, h
<1>6. \A k \in 1 .. 5 : k = 1 \/ k = 2 \/ k = 3 \/ k = 4 \/ k = 5
  OBVIOUS
<1>7. UploadSteps(x, FileToSD(x)) /\ Len(FileToSD(x)) = 5
  <2> DEFINE s == << a, b >> \o << c, d, b >>
  <2>1. Len(s) = 5 /\ s[1] = a /\ s[2] = b /\ s[3] = c /\ s[4] = d /\ s[5] = b
    BY <1>3, FiveSteps
  <2> HIDE DEF s
  <2>2. UploadSteps(x, s)
    BY <1>2, <1>3, <1>6, <2>1 DEF UploadSteps, UploadStep
  <2> QED
    BY <1>3, <2>1, <2>2 DEF s
<1> DEFINE f == FileFromSD(x)
<1>8. f \in Seq(Steps) /\ Len(f) = 5 /\ f[1] = a /\ f[2] = b /\ f[3] = e /\ f[4] = g /\ f[5] = h
  BY <1>3, FiveSteps
<1> HIDE DEF f
<1>9. \A k \in 1 .. 5 : f[k].do = "words" <=> k = 5
  BY <1>2, <1>6, <1>8
<1>10. FetchSteps(f)
  BY <1>8, <1>9 DEF FetchSteps
<1>11. FetchSteps(f \o f) /\ Len(f \o f) = 10
  <2>1. Len(f \o f) = 10 /\ \A k \in 1 .. 10 : (f \o f)[k] = IF k <= 5 THEN f[k] ELSE f[k - 5]
    <3>1. f \in Seq(Steps)
      BY <1>8
    <3>2. /\ Len(f \o f) = Len(f) + Len(f)
          /\ \A k \in 1 .. Len(f) + Len(f) : (f \o f)[k] = IF k <= Len(f) THEN f[k] ELSE f[k - Len(f)]
      BY <3>1, Joined, Zenon
    <3> QED
      BY <1>8, <3>2
  <2> SUFFICES ASSUME NEW k \in 1 .. 10
               PROVE  10 - k <= 9 /\ ((f \o f)[k].do = "words" <=> 10 - k \in {0, 5})
    BY <2>1 DEF FetchSteps
  <2>2. CASE k <= 5
    BY <1>9, <2>1, <2>2
  <2>3. CASE ~(k <= 5)
    <3>1. k - 5 \in 1 .. 5 /\ (k - 5 = 5 <=> k = 10) /\ (10 - k \in {0, 5} <=> k = 10)
      BY <2>3
    <3> QED
      BY <1>9, <2>1, <2>3, <3>1
  <2> QED
    BY <2>2, <2>3
<1> QED
  BY <1>7, <1>8, <1>10, <1>11 DEF f

(* What has come of a reply is its beginning.                              *)
LEMMA ComingFacts ==
    ASSUME NEW a \in Seq(AnyWord), NEW b \in Seq(AnyWord)
    PROVE  /\ a \o b \in Seq(AnyWord) /\ Len(a \o b) = Len(a) + Len(b) /\ Len(a) \in Nat /\ Len(b) \in Nat
           /\ \A k \in 1 .. Len(a) : (a \o b)[k] = a[k]
           /\ a \o b = <<>> <=> a = <<>> /\ b = <<>>
           /\ b = <<>> => a \o b = a
           /\ a = <<>> => a \o b = b
           /\ Len(a) = 0 <=> a = <<>>
           /\ Len(a \o b) = 0 <=> a \o b = <<>>
<1>1. a \o b \in Seq(AnyWord) /\ Len(a \o b) = Len(a) + Len(b) /\ Len(a) \in Nat /\ Len(b) \in Nat
  OBVIOUS
<1>2. \A k \in 1 .. Len(a) : (a \o b)[k] = a[k]
  OBVIOUS
<1>3. \A c \in Seq(AnyWord) : Len(c) = 0 <=> c = <<>>
  OBVIOUS
<1>4. (b = <<>> => a \o b = a) /\ (a = <<>> => a \o b = b)
  OBVIOUS
<1>5. a \o b = <<>> <=> a = <<>> /\ b = <<>>
  <2> PICK c \in Seq(AnyWord) : c = a \o b
    BY <1>1
  <2>1. Len(c) = 0 <=> Len(a) = 0 /\ Len(b) = 0
    BY <1>1
  <2> QED
    BY <1>3, <2>1
<1> QED
  BY <1>1, <1>2, <1>3, <1>4, <1>5, Zenon

(* The thread that has steps to do is the only one.                        *)
LEMMA Acting ==
    ASSUME SdInv, NEW t \in Threads, todo[t] # <<>>
    PROVE  /\ \A u \in Threads : u # t => todo[u] = <<>> /\ ~looked[u]
           /\ Place(t) /\ Plan(todo[t]) /\ todo[t] \in Seq(Steps) /\ Do(t) = Head(todo[t]).do
           /\ lRet[t] \in Seq(AnyWord) /\ toFpga \in Seq(AnyWord) /\ m.data \in Nat /\ m.space \in Nat
           /\ looked[t] \in BOOLEAN /\ stream.left \in Nat /\ Len(toFpga) \in Nat
           /\ out \in Seq(AnyWord) /\ Coming \in Seq(AnyWord) /\ Len(Coming) = Len(toFpga) + Len(out)
           /\ (Coming = <<>> <=> Silent) /\ \A k \in 1 .. Len(toFpga) : Coming[k] = toFpga[k]
           /\ t = "worker" => worker \notin {"none", "done"}
           /\ t = "caller" => worker \in {"none", "done"}
<1>1. Threads = {"caller", "worker"}
  BY DEF Threads
<1>2. toFpga \in Seq(AnyWord) /\ out \in Seq(AnyWord)
  BY DEF SdInv, SdTypeOK
<1>3. /\ Coming \in Seq(AnyWord) /\ Len(Coming) = Len(toFpga) + Len(out)
      /\ (Coming = <<>> <=> Silent) /\ \A k \in 1 .. Len(toFpga) : Coming[k] = toFpga[k]
  BY <1>2, ComingFacts DEF Coming, Silent
<1> QED
  BY <1>1, <1>2, <1>3 DEF SdInv, SdTypeOK, Streams, Turn, Protocol, Do

(* What it does leaves the rest as it is.                                  *)
LEMMA MoveKeeps ==
    ASSUME SdInv, NEW t \in Threads, todo[t] # <<>>,
           NEW s \in Seq(Steps), NEW b \in BOOLEAN,
           todo' = [todo EXCEPT ![t] = s], looked' = [looked EXCEPT ![t] = b],
           s = <<>> => b = FALSE,
           UNCHANGED <<mmc, api, worker>>,
           Plan(s), s # <<>> => Place(t)', s = <<>> => AtRest' /\ link,
           toFpga' \in Seq(AnyWord), m' \in [space : Nat, data : Nat],
           lRet' \in [Threads -> Seq(AnyWord)], reads' \in Seq(Seq(AnyWord)),
           t = "worker" => Uploads' /\ Booting' /\ Fetches',
           Downloads(s) /\ t = "caller" => Downloads(todo[t]), NoStore(todo[t]) => NoStore(s)
    PROVE  SdInv'
<1>1. /\ todo \in [Threads -> Seq(Steps)] /\ looked \in [Threads -> BOOLEAN] /\ Threads = {"caller", "worker"}
      /\ \A u \in Threads : u # t => todo[u] = <<>> /\ ~looked[u]
  BY Acting DEF SdInv, SdTypeOK, Streams, Threads
<1>2. /\ todo'[t] = s /\ looked'[t] = b
      /\ \A u \in Threads : u # t => todo'[u] = <<>> /\ ~looked'[u]
      /\ todo' \in [Threads -> Seq(Steps)] /\ looked' \in [Threads -> BOOLEAN]
  BY <1>1
<1>3. SdTypeOK'
  BY <1>2 DEF SdInv, SdTypeOK, Streams, mmc
<1>4. Turn'
  <2>1. NoStore(<<>>)
    BY DEF NoStore
  <2>2. \A u \in Threads : u = "caller" \/ worker # "store" => NoStore(todo'[u])
    BY <1>1, <1>2, <2>1 DEF SdInv, Turn
  <2> QED
    BY <1>1, <1>2, <2>2, Acting DEF SdInv, Turn, api
<1>5. Plan(<<>>)
  BY DEF Plan
<1>6. Protocol'
  <2>1. \A u \in Threads : Plan(todo'[u])
    BY <1>1, <1>2, <1>5
  <2>2. \A u \in Threads : todo'[u] # <<>> => Place(u)'
    BY <1>1, <1>2
  <2>3. (\A u \in Threads : todo'[u] = <<>>) => AtRest' /\ link'
    BY <1>2 DEF mmc
  <2> QED
    BY <2>1, <2>2, <2>3 DEF Protocol
<1>7. t = "caller" => Uploads' /\ Booting' /\ Fetches'
  BY Acting DEF Uploads, Booting, Fetches
<1>8. Booted' /\ Filed' /\ FileRight'
  <2>1. ~(file # <<>> /\ op.name = "download")
    BY DEF SdInv, Filed
  <2> QED
    BY <2>1 DEF SdInv, Booted, Filed, FileRight, InMemory, mmc, api
<1> QED
  BY <1>1, <1>3, <1>4, <1>6, <1>7, <1>8 DEF SdInv

(* The initial states satisfy the invariant.                               *)
LEMMA InitialSd == InitFpgaConfig => SdInv
<1> SUFFICES ASSUME InitFpgaConfig PROVE SdInv
  OBVIOUS
<1> USE DEF InitFpgaConfig, InitPipe
<1>1. Good \in Image /\ DOMAIN sd = {Golden} /\ sd[Golden] = Good
  <2>1. Good \in Image
    BY MmcFacts DEF Good, Image
  <2> QED
    BY <2>1
<1>2. SdTypeOK
  BY <1>1, MmcFacts DEF SdTypeOK, Streams, Threads, Nothing
<1>3. Turn
  BY DEF Turn, Threads, NoOp, None, Downloads, NoStore
<1>4. Protocol
  BY DEF Protocol, Plan, AtRest, Silent, Nothing
<1>5. Uploads /\ Booting /\ Fetches /\ Booted /\ Filed /\ FileRight
  BY DEF Uploads, Booting, Fetches, Booted, Filed, FileRight, NoOp, None
<1> QED
  BY <1>2, <1>3, <1>4, <1>5 DEF SdInv

(* What is on its way to the microcontroller is never more than the FIFO   *)
(* takes.                                                                  *)
LEMMA InTheFifo ==
    ASSUME SdInv, NEW t \in Threads, todo[t] # <<>>
    PROVE  Len(toMmc) \in Nat /\ Len(toMmc) < PipeSize
<1>1. Place(t) /\ Do(t) = Head(todo[t]).do /\ todo[t] \in Seq(Steps)
  BY Acting
<1>2. \/ Do(t) = "send" \/ Do(t) = "payload" \/ Do(t) \in Plain
  <2>1. Head(todo[t]) \in Steps
    BY <1>1
  <2> QED
    BY <1>1, <2>1 DEF Steps
<1>3. Len(<<>>) = 0 /\ PipeSize \in Nat /\ PipeSize > 3
  BY MmcFacts
<1>4. CASE toMmc = <<>>
  BY <1>3, <1>4
<1>5. CASE toMmc \in Messages \cup {ReadMessage} \cup BootMessages
  <2>1. Len(toMmc) \in 2 .. 3
    BY <1>5, MessageFacts
  <2>2. \A n \in 2 .. 3 : n \in Nat /\ n < PipeSize
    BY <1>3
  <2> QED
    BY <2>1, <2>2
<1>6. CASE Storing
  <2>1. Len(toMmc) \in Nat
    BY <1>6 DEF Storing, ToBeStored, BeingStored, HasStored, RefusedToStore, Image
  <2> QED
    BY <1>6, <2>1 DEF Storing
<1>7. CASE toMmc \in Image /\ Len(toMmc) < PipeSize
  BY <1>7 DEF Image
<1> QED
  BY <1>1, <1>2, <1>4, <1>5, <1>6, <1>7
     DEF Plain, Place, AtRest, Waiting, Replied, Step

(* A thread looks at the fill levels.                                      *)
LEMMA LookStep ==
    ASSUME SdInv, NEW t \in Threads, UpdateCounters(t), UNCHANGED <<api, worker>>
    PROVE  SdInv'
<1>1. /\ Do(t) \in Looks /\ link /\ ~looked[t]
      /\ (Do(t) = "size" => m.data < 2)
      /\ m' = [space |-> PipeSize - 1 - Level(toMmc), data |-> Level(toFpga)]
      /\ looked' = [looked EXCEPT ![t] = TRUE]
      /\ UNCHANGED <<fifos, mmc, todo, torn, lRet, i, reads, progressValue>>
  BY DEF UpdateCounters
<1>2. todo[t] # <<>>
  BY <1>1 DEF Do, Looks, None
<1>3. /\ Place(t) /\ Plan(todo[t]) /\ todo[t] \in Seq(Steps) /\ toFpga \in Seq(AnyWord) /\ Len(toFpga) \in Nat
  BY <1>2, Acting
<1>4. Len(toMmc) \in Nat /\ Len(toMmc) < PipeSize /\ PipeSize \in Nat
  BY <1>2, InTheFifo, MmcFacts
<1>5. /\ m'.data \in Nat /\ m'.data <= Len(toFpga) /\ m'.space \in Nat /\ m'.space + Len(toMmc) < PipeSize
      /\ m' \in [space : Nat, data : Nat]
  <2>1. Level(toFpga) \in Nat /\ Level(toFpga) <= Len(toFpga)
    BY <1>3, LevelFacts
  <2>2. Level(toMmc) = Len(toMmc)
    BY <1>4, LevelFacts
  <2> QED
    BY <1>1, <1>4, <2>1, <2>2
<1>6. looked'[t] = TRUE /\ todo' = [todo EXCEPT ![t] = todo[t]]
  BY <1>1, <1>2, Acting DEF SdInv, SdTypeOK, Streams
<1>7. Do(t)' = Do(t) /\ Place(t)'
  <2>1. /\ Do(t)' = Do(t) /\ toMmc' = toMmc /\ toFpga' = toFpga /\ lRet' = lRet /\ todo' = todo /\ link' = link
        /\ stream' = stream /\ sd' = sd /\ worker' = worker /\ op' = op /\ out' = out
    BY <1>1 DEF Do, fifos, mmc, api
  <2>2. /\ AtRest' = AtRest /\ Waiting(Messages)' = Waiting(Messages) /\ Replied' = Replied /\ Giving' = Giving
        /\ Storing' = Storing /\ RefusedToStore' = RefusedToStore /\ LastReceive(t)' = LastReceive(t)
        /\ Waiting({ReadMessage})' = Waiting({ReadMessage}) /\ Closing(t)' = Closing(t)
        /\ Silent' = Silent /\ Coming' = Coming /\ LastOfAll(t)' = LastOfAll(t)
    BY <2>1 DEF AtRest, Waiting, Replied, Giving, Storing, RefusedToStore, LastReceive, Silent, Coming,
         Closing, LastOfAll, ToBeStored, BeingStored, HasStored, InMemory
  <2>3. AtRest => m'.data = 0
    BY <1>3, <1>5 DEF AtRest, Silent
  <2>4. toFpga = <<>> => m'.data = 0
    BY <1>3, <1>5
  <2>5. Do(t) # "start" /\ Do(t) # "payload" /\ (Silent => toFpga = <<>>)
    BY <1>1 DEF Looks, Silent
  <2> QED
    BY <1>3, <1>5, <1>6, <2>1, <2>2, <2>3, <2>4, <2>5 DEF Place
<1>8. t = "worker" => Uploads' /\ Booting' /\ Fetches'
  BY <1>1, <1>7 DEF SdInv, Uploads, Booting, Fetches, OnTheCard, InMemory, Do, api, mmc, fifos
<1>9. lRet' \in [Threads -> Seq(AnyWord)] /\ reads' \in Seq(Seq(AnyWord)) /\ toFpga' \in Seq(AnyWord)
  BY <1>1, <1>3 DEF SdInv, SdTypeOK, Streams, fifos
<1>10. UNCHANGED <<mmc, api, worker>>
  BY <1>1
<1> QED
  BY <1>1, <1>2, <1>3, <1>5, <1>6, <1>7, <1>8, <1>9, <1>10, MoveKeeps

(* A read more, when the words of an image have all come.                  *)
LEMMA ReadOn ==
    ASSUME NEW s \in Seq(Steps), s # <<>>, FetchSteps(s), NEW n \in Nat, n \in ReadWith(Len(s)),
           NEW k, k = IF Head(s).do = "words" THEN n + 1 ELSE n
    PROVE  FetchSteps(Tail(s)) /\ k \in ReadWith(Len(Tail(s)))
<1>1. FetchSteps(Tail(s)) /\ Len(Tail(s)) = Len(s) - 1 /\ Len(s) \in Nat \ {0} /\ Head(s) = s[1]
  BY PlanTail
<1> DEFINE l == Len(s)
<1>2. l - 1 <= 9 /\ (Head(s).do = "words" <=> l - 1 \in {0, 5})
  BY NextOfPlan
<1>3. l \in Nat \ {0} /\ Len(Tail(s)) = l - 1 /\ n \in ReadWith(l)
  BY <1>1
<1> HIDE DEF l
<1>4. k \in ReadWith(l - 1)
  <2>1. CASE Head(s).do = "words"
    <3>1. (l = 1 \/ l = 6) /\ k = n + 1
      BY <1>2, <1>3, <2>1
    <3> QED
      BY <1>3, <3>1 DEF ReadWith
  <2>2. CASE Head(s).do # "words"
    <3>1. l # 1 /\ l # 6 /\ k = n
      BY <1>2, <1>3, <2>2
    <3> QED
      BY <1>3, <3>1 DEF ReadWith
  <2> QED
    BY <2>1, <2>2
<1> QED
  BY <1>1, <1>3, <1>4

(* A step done, the thread goes on with the next.                          *)
LEMMA Advance ==
    ASSUME SdInv, NEW t \in Threads, todo[t] # <<>>, Next1(t), UNCHANGED <<mmc, api, worker>>,
           Tail(todo[t]) # <<>> => Place(t)',
           Tail(todo[t]) = <<>> => AtRest' /\ link,
           toFpga' \in Seq(AnyWord), m' \in [space : Nat, data : Nat],
           lRet' \in [Threads -> Seq(AnyWord)], reads' \in Seq(Seq(AnyWord)),
           Do(t) # "terminate",
           t = "worker" /\ worker = "store" => OnTheCard(todo[t])',
           t = "worker" /\ worker = "boot" => toMmc' = <<>> \/ toMmc'[1] # "delete",
           t = "worker" /\ worker = "fetch" =>
               Len(reads') = IF Do(t) = "words" THEN Len(reads) + 1 ELSE Len(reads)
    PROVE  SdInv'
<1> DEFINE s == Tail(todo[t])
<1>1. /\ todo' = [todo EXCEPT ![t] = s] /\ looked' = [looked EXCEPT ![t] = FALSE]
      /\ todo'[t] = s /\ Do(t) = Head(todo[t]).do /\ todo[t] \in Seq(Steps) /\ Plan(todo[t])
  BY Acting DEF Next1, SdInv, SdTypeOK, Streams
<1>2. /\ s \in Seq(Steps) /\ Plan(s) /\ (Downloads(s) => Downloads(todo[t]))
      /\ (NoStore(todo[t]) => NoStore(s))
      /\ (UploadSteps(op.image, todo[t]) => UploadSteps(op.image, s))
      /\ (BootSteps(todo[t]) => BootSteps(s))
  BY <1>1, PlanTail
<1> HIDE DEF s
<1>3. t = "worker" => Uploads'
  <2> SUFFICES ASSUME t = "worker", worker = "store" PROVE UploadSteps(op.image, s)
    BY <1>1 DEF Uploads, api
  <2>1. UploadSteps(op.image, todo[t])
    BY DEF SdInv, Uploads
  <2> QED
    BY <1>2, <2>1 DEF s
<1>4. t = "worker" => Booting'
  BY <1>1, <1>2 DEF SdInv, Booting
<1>5. t = "worker" => Fetches'
  <2> SUFFICES ASSUME t = "worker", worker = "fetch" PROVE FetchSteps(s) /\ Len(reads') \in ReadWith(Len(s))
    BY <1>1 DEF Fetches
  <2>1. FetchSteps(todo[t]) /\ Len(reads) \in ReadWith(Len(todo[t])) /\ Len(reads) \in Nat
    BY DEF SdInv, SdTypeOK, Streams, Fetches
  <2> QED
    BY <1>1, <2>1, ReadOn DEF s
<1> QED
  BY <1>1, <1>2, <1>3, <1>4, <1>5, MoveKeeps DEF s

(* A thread that looks again.                                              *)
LEMMA LookAgain ==
    ASSUME SdInv, NEW t \in Threads, todo[t] # <<>>, Again(t), UNCHANGED <<mmc, api, worker>>,
           Place(t)', Do(t) # "payload", Do(t) # "chunks" => toMmc' = toMmc,
           toFpga' \in Seq(AnyWord), lRet' \in [Threads -> Seq(AnyWord)], UNCHANGED <<m, reads>>
    PROVE  SdInv'
<1> DEFINE s == todo[t]
<1>1. /\ todo' = [todo EXCEPT ![t] = s] /\ looked' = [looked EXCEPT ![t] = FALSE] /\ todo' = todo
      /\ Do(t) = Head(todo[t]).do /\ todo[t] \in Seq(Steps) /\ Plan(todo[t]) /\ Do(t)' = Do(t)
  BY Acting DEF Again, SdInv, SdTypeOK, Streams, Do
<1>2. t = "worker" => Uploads'
  <2> SUFFICES ASSUME t = "worker", worker = "store", Do(t) # "terminate"
               PROVE  UploadSteps(op.image, s) /\ OnTheCard(todo[t])'
    BY <1>1 DEF Uploads, api
  <2>1. UploadSteps(op.image, s) /\ OnTheCard(todo[t])
    BY DEF SdInv, Uploads
  <2>2. Do(t) = "chunks" => Len(s) = 2
    <3>1. UploadStep(op.image, Head(s), Len(s) - 1) /\ Len(s) \in Nat
      BY <1>1, <2>1, NextOfPlan
    <3> QED
      BY <1>1, <3>1 DEF UploadStep, Send
  <2>3. UNCHANGED <<text, op, sd>>
    BY DEF mmc, api
  <2>4. OnTheCard(todo[t])'
    <3>1. todo'[t] = todo[t] /\ Head(todo[t]).do # "payload" /\ InMemory' = InMemory
      BY <1>1, <2>3 DEF InMemory
    <3>2. Len(todo[t]) = 2 \/ toMmc' = toMmc
      BY <2>2
    <3>3. /\ Len(todo[t]) <= 3 => text = op.image
          /\ Len(todo[t]) = 4 => (text = op.image /\ toMmc = <<>>) \/ toMmc = << "text", 1, op.image >>
      BY <2>1 DEF OnTheCard
    <3> HIDE DEF s
    <3>4. Len(todo'[t]) <= 3 => text' = op'.image
      BY <2>3, <3>1, <3>3
    <3>5. Len(todo'[t]) = 4 => (text' = op'.image /\ toMmc' = <<>>) \/ toMmc' = << "text", 1, op'.image >>
      BY <2>3, <3>1, <3>2, <3>3
    <3>6. todo'[t] # <<>> /\ Head(todo'[t]).do # "payload"
      BY <3>1
    <3> QED
      BY <3>4, <3>5, <3>6 DEF OnTheCard
  <2> QED
    BY <2>1, <2>4
<1>3. t = "worker" => Booting' /\ Fetches'
  <2>1. worker = "boot" /\ t = "worker" => Do(t) # "chunks"
    <3> SUFFICES ASSUME worker = "boot", t = "worker" PROVE Do(t) # "chunks"
      OBVIOUS
    <3>1. NoStore(s)
      BY DEF SdInv, Turn
    <3> QED
      BY <1>1, <3>1, NextOfPlan
  <2> QED
    BY <1>1, <2>1 DEF SdInv, Booting, Fetches
<1>4. m' \in [space : Nat, data : Nat] /\ reads' \in Seq(Seq(AnyWord)) /\ s \in Seq(Steps) /\ Plan(s)
  BY <1>1 DEF SdInv, SdTypeOK, Streams
<1>5. s # <<>> /\ (Downloads(s) => Downloads(todo[t])) /\ (NoStore(todo[t]) => NoStore(s))
  OBVIOUS
<1> HIDE DEF s
<1> QED
  BY <1>1, <1>2, <1>3, <1>4, <1>5, MoveKeeps

(* A message is sent whole.                                                *)
LEMMA SendStep ==
    ASSUME SdInv, NEW t \in Threads, SendMessage(t), UNCHANGED <<api, worker>>
    PROVE  SdInv'
<1> DEFINE a == Head(todo[t])
           s == Tail(todo[t])
<1>1. /\ Do(t) = "send" /\ looked[t] /\ todo[t] # <<>>
      /\ UNCHANGED <<toFpga, mmc, m, torn, lRet, i, reads, progressValue>>
  BY DEF SendMessage, Do, None
<1>2. /\ Place(t) /\ Plan(todo[t]) /\ todo[t] \in Seq(Steps) /\ a.do = "send" /\ AtRest /\ m.data = 0 /\ link
      /\ link' = link /\ stream' = stream /\ op' = op /\ text' = text /\ sd' = sd /\ worker' = worker
  BY <1>1, Acting DEF Place, mmc, api
<1>3. /\ toFpga' \in Seq(AnyWord) /\ m' \in [space : Nat, data : Nat]
      /\ lRet' \in [Threads -> Seq(AnyWord)] /\ reads' \in Seq(Seq(AnyWord)) /\ looked' \in [Threads -> BOOLEAN]
      /\ todo'[t] = (IF m.space < Len(a.words) THEN todo[t] ELSE s) /\ looked'[t] = FALSE
  BY <1>1 DEF SdInv, SdTypeOK, Streams, SendMessage, Again, Next1
<1>4. UNCHANGED <<mmc, api, worker>>
  BY <1>1
<1>5. CASE m.space < Len(a.words)
  <2>1. Again(t) /\ UNCHANGED toMmc
    BY <1>5 DEF SendMessage
  <2>2. Place(t)'
    BY <1>1, <1>2, <1>3, <1>5, <2>1 DEF Place, Do, AtRest, Silent, mmc
  <2> QED
    BY <1>1, <1>3, <1>4, <2>1, <2>2, LookAgain
<1>6. CASE ~(m.space < Len(a.words))
  <2>1. Next1(t) /\ toMmc' = toMmc \o a.words
    BY <1>6 DEF SendMessage
  <2>2. /\ s # <<>> /\ Follows(a, Head(s)) /\ Len(s) = Len(todo[t]) - 1 /\ Len(todo[t]) \in Nat
        /\ (todo[t])' = s
    <3>1. s = <<>> => Ends(a)
      BY <1>1, <1>2, PlanTail
    <3>2. s # <<>> => Follows(a, Head(s))
      BY <1>1, <1>2, PlanTail
    <3>3. s # <<>>
      BY <1>2, <3>1 DEF Ends
    <3>4. Len(s) = Len(todo[t]) - 1 /\ Len(todo[t]) \in Nat
      BY <1>1, <1>2
    <3>5. (todo[t])' = s
      BY <1>3, <1>6
    <3> QED
      BY <3>2, <3>3, <3>4, <3>5
  <2>3. toMmc' = a.words /\ a.words \in Messages \cup {ReadMessage} \cup BootMessages /\ a.words # <<>>
    BY <1>2, <2>1, <2>2, MessageFacts DEF Follows, AtRest
  <2>4. Silent' /\ stream'.left = 0 /\ link' /\ m'.data = 0 /\ Len(toFpga') = 0 /\ Coming' = <<>>
    BY <1>1, <1>2 DEF AtRest, Silent, Coming, mmc
  <2>5. Do(t)' = Head(s).do
    BY <2>2 DEF Do
  <2> HIDE DEF a, s
  <2>6. ASSUME t = "worker", worker = "store"
        PROVE  Len(todo[t]) = 5 /\ a.words = << "text", 1, op.image >>
    <3>1. UploadStep(op.image, a, Len(todo[t]) - 1)
      BY <1>1, <1>2, <2>6, NextOfPlan DEF SdInv, Uploads, a
    <3>2. a = Send("text", << op.image >>) /\ Len(todo[t]) - 1 = 4
      BY <1>2, <3>1 DEF UploadStep, a
    <3>3. a.words = << "text", 1, op.image >>
      <4>1. Send("text", << op.image >>) = [do |-> "send", words |-> << "text", 1, op.image >>]
        BY SendFacts, Zenon
      <4> HIDE DEF s
      <4> QED
        BY <3>2, <4>1
    <3>4. Len(todo[t]) = 5
      BY <2>2, <3>2
    <3> QED
      BY <3>3, <3>4
  <2>11. Closing(t)'
    <3>1. AsksText(a) => \A k \in 2 .. Len(s) : s[k].do = "start"
      BY <1>1, <1>2, PlanTail DEF a, s
    <3>2. toMmc'[1] \in Texts => LastOfAll(t)'
      BY <1>2, <2>2, <2>3, <3>1 DEF AsksText, LastOfAll, a
    <3> QED
      BY <2>4, <3>2 DEF Closing
  <2>7. Place(t)'
    <3>1. CASE a.words \in Messages /\ Head(s).do = "receive"
      <4>1. ~LastReceive(t)'
        <5>1. ASSUME t = "worker", worker = "store" PROVE Len(todo'[t]) = 4
          <6>1. Len(todo[t]) = 5
            BY <2>6, <5>1
          <6>2. Len(s) = 4 /\ todo'[t] = s
            BY <2>2, <6>1
          <6> QED
            BY <6>2
        <5>2. worker' = worker
          BY <1>2
        <5> QED
          BY <5>1, <5>2 DEF LastReceive
      <4> QED
        BY <1>3, <2>3, <2>4, <2>5, <2>11, <3>1, <4>1 DEF Place, Waiting, None
    <3>2. CASE a.words = ReadMessage /\ Head(s).do = "size"
      BY <1>3, <2>3, <2>4, <2>5, <3>2 DEF Place, Waiting, None
    <3>3. CASE a.words \in BootMessages /\ Head(s).do = "caught"
      BY <1>3, <2>3, <2>4, <2>5, <3>3 DEF Place, None
    <3>4. a.do = "send"
      BY <1>2 DEF a
    <3> QED
      BY <2>2, <3>1, <3>2, <3>3, <3>4 DEF Follows
  <2>8. t = "worker" /\ worker = "store" => OnTheCard(todo[t])'
    <3> SUFFICES ASSUME t = "worker", worker = "store" PROVE OnTheCard(todo[t])'
      OBVIOUS
    <3>1. Len(s) = 4 /\ toMmc' = << "text", 1, op.image >>
      BY <2>2, <2>3, <2>6
    <3>2. todo'[t] = s /\ op' = op /\ s # <<>>
      BY <1>2, <2>2
    <3>3. ~(Len(todo'[t]) <= 3) /\ Len(todo'[t]) # 1 /\ todo'[t] # <<>>
      <4>1. Len(todo'[t]) = 4 /\ todo'[t] # <<>>
        BY <3>1, <3>2, Zenon
      <4>2. ~(4 <= 3) /\ 4 # 1
        OBVIOUS
      <4> QED
        BY <4>1, <4>2, Zenon
    <3>4. toMmc' = << "text", 1, op'.image >>
      BY <3>1, <3>2
    <3> QED
      BY <3>3, <3>4, Zenon DEF OnTheCard
  <2>9. t = "worker" /\ worker = "boot" => toMmc'[1] # "delete"
    BY <1>2, <1>1, <2>3, NextOfPlan DEF SdInv, Booting, a
  <2>10. Len(reads') = Len(reads) /\ Do(t) # "words" /\ Do(t) # "terminate"
    BY <1>1
  <2> QED
    BY <1>1, <1>3, <1>4, <2>1, <2>2, <2>7, <2>8, <2>9, <2>10, Advance DEF s
<1> QED
  BY <1>5, <1>6

(* Pieces of an image.                                                     *)
LEMMA Pieces ==
    ASSUME NEW n \in 0 .. TotalSize
    PROVE  SubSeq(Good, 1, n) \in Image /\ SubSeq(Good, 1, n) \in Seq(AnyWord) /\ Len(SubSeq(Good, 1, n)) = n
<1>1. Good \in Seq({GoodWord}) /\ Len(Good) = TotalSize /\ TotalSize \in Nat
  BY MmcFacts DEF Good
<1>2. SubSeq(Good, 1, n) \in Seq({GoodWord}) /\ Len(SubSeq(Good, 1, n)) = n
  BY <1>1
<1>3. \A q \in Seq({GoodWord}) : q \in Seq(AnyWord)
  BY DEF AnyWord
<1> QED
  BY <1>2, <1>3 DEF Image

(* Only the thread of an upload writes to the card.                        *)
LEMMA Uploading ==
    ASSUME SdInv, NEW t \in Threads, Do(t) \in {"header", "chunks"}
    PROVE  /\ t = "worker" /\ worker = "store" /\ todo[t] # <<>>
           /\ Len(todo[t]) = (IF Do(t) = "header" THEN 3 ELSE 2) /\ text = op.image
           /\ Tail(todo[t]) # <<>> /\ Len(Tail(todo[t])) = Len(todo[t]) - 1
           /\ Do(t) = "header" => Head(Tail(todo[t])).do = "chunks"
           /\ Do(t) = "chunks" => Head(Tail(todo[t])).do = "receive"
<1>1. todo[t] # <<>> /\ Threads = {"caller", "worker"}
  BY DEF Do, None, Threads
<1>2. /\ todo[t] \in Seq(Steps) /\ Do(t) = Head(todo[t]).do /\ Plan(todo[t])
  BY <1>1, Acting
<1>3. t = "worker" /\ worker = "store"
  <2>1. ~NoStore(todo[t])
    BY <1>1, <1>2, NextOfPlan
  <2> QED
    BY <1>1, <2>1 DEF SdInv, Turn
<1>4. UploadSteps(op.image, todo[t]) /\ OnTheCard(todo[t])
  BY <1>3 DEF SdInv, Uploads
<1>5. UploadStep(op.image, Head(todo[t]), Len(todo[t]) - 1) /\ Len(todo[t]) \in Nat \ {0}
  BY <1>1, <1>2, <1>4, NextOfPlan
<1>6. Len(todo[t]) = (IF Do(t) = "header" THEN 3 ELSE 2)
  <2>1. Send("text", << op.image >>).do = "send"
    BY DEF Send
  <2>2. Len(todo[t]) - 1 = (IF Do(t) = "header" THEN 2 ELSE 1)
    BY <1>2, <1>5, <2>1 DEF UploadStep
  <2> QED
    BY <1>5, <2>2
<1>7. text = op.image
  BY <1>4, <1>6 DEF OnTheCard
<1>8. /\ Len(Tail(todo[t])) = Len(todo[t]) - 1
      /\ (Tail(todo[t]) = <<>> => Ends(Head(todo[t])))
      /\ (Tail(todo[t]) # <<>> => Follows(Head(todo[t]), Head(Tail(todo[t]))))
  BY <1>1, <1>2, PlanTail
<1>9. Tail(todo[t]) # <<>>
  BY <1>2, <1>8 DEF Ends
<1>10. Follows(Head(todo[t]), Head(Tail(todo[t])))
  BY <1>8, <1>9
<1> QED
  BY <1>1, <1>2, <1>3, <1>6, <1>7, <1>8, <1>9, <1>10 DEF Follows

(* The header of an image is written, without a look at the FIFO, which is *)
(* empty then.                                                             *)
LEMMA HeaderStep ==
    ASSUME SdInv, NEW t \in Threads, WriteHeader(t), UNCHANGED <<api, worker>>
    PROVE  SdInv'
<1>1. /\ Do(t) = "header" /\ toMmc' = toMmc \o << "store", TotalSize >> /\ Next1(t)
      /\ lRet' = [lRet EXCEPT ![t] = <<>>] /\ UNCHANGED <<toFpga, mmc, m, torn, reads, progressValue>>
  BY DEF WriteHeader
<1>2. /\ t = "worker" /\ worker = "store" /\ todo[t] # <<>> /\ Len(todo[t]) = 3 /\ text = op.image
      /\ Tail(todo[t]) # <<>> /\ Len(Tail(todo[t])) = 2 /\ Head(Tail(todo[t])).do = "chunks"
  <2>1. /\ t = "worker" /\ worker = "store" /\ todo[t] # <<>> /\ text = op.image
        /\ Len(todo[t]) = (IF Do(t) = "header" THEN 3 ELSE 2)
        /\ Tail(todo[t]) # <<>> /\ Len(Tail(todo[t])) = Len(todo[t]) - 1
        /\ Do(t) = "header" => Head(Tail(todo[t])).do = "chunks"
    <3>1. Do(t) \in {"header", "chunks"}
      BY <1>1
    <3> QED
      BY <3>1, Uploading, Zenon
  <2> QED
    BY <1>1, <2>1
<1>3. Place(t) /\ AtRest /\ link /\ todo'[t] = Tail(todo[t]) /\ looked'[t] = FALSE
  BY <1>1, <1>2, Acting DEF Place, Next1, SdInv, SdTypeOK, Streams
<1>4. UNCHANGED <<mmc, api, worker>> /\ link' = link /\ stream' = stream /\ text' = text /\ op' = op /\ worker' = worker
  BY <1>1 DEF mmc, api
<1>5. /\ toFpga' \in Seq(AnyWord) /\ m' \in [space : Nat, data : Nat] /\ reads' \in Seq(Seq(AnyWord))
      /\ lRet' \in [Threads -> Seq(AnyWord)] /\ lRet'[t] = <<>>
  BY <1>1 DEF SdInv, SdTypeOK, Streams
<1>6. toMmc' \in Seq(AnyWord) /\ Len(toMmc') = 2 /\ toMmc'[1] = "store" /\ Silent' /\ stream'.left = 0
  <2>1. << "store", TotalSize >> \in Seq(AnyWord)
    BY MmcFacts DEF AnyWord
  <2>2. <<>> \o << "store", TotalSize >> = << "store", TotalSize >>
    OBVIOUS
  <2> QED
    BY <1>1, <1>3, <1>4, <2>1, <2>2 DEF AtRest, Silent, mmc
<1>7. Storing' /\ Len(lRet'[t]) < TotalSize
  <2>1. Len(lRet'["worker"]) = 0 /\ TotalSize \in Nat \ {0} /\ PipeSize \in Nat /\ PipeSize > 3
    BY <1>2, <1>5, MmcFacts
  <2>2. ToBeStored(0)'
    BY <1>6 DEF ToBeStored
  <2>3. ToBeStored(Len(lRet["worker"]))'
    BY <2>1, <2>2
  <2> QED
    BY <1>2, <1>4, <1>6, <2>1, <2>3 DEF Storing
<1>8. Place(t)'
  BY <1>2, <1>3, <1>4, <1>7 DEF Place, Do, None
<1>9. OnTheCard(todo[t])'
  <2>1. /\ Len(todo'[t]) = 2 /\ Len(todo'[t]) <= 3 /\ Len(todo'[t]) # 4 /\ Len(todo'[t]) # 1
        /\ todo'[t] # <<>> /\ text' = op'.image
    <3>1. Len(todo'[t]) = 2 /\ todo'[t] # <<>>
      BY <1>2, <1>3, Zenon
    <3>2. text' = op'.image
      BY <1>2, <1>4
    <3> QED
      BY <3>1, <3>2
  <2> QED
    BY <2>1, Zenon DEF OnTheCard
<1> QED
  BY <1>1, <1>2, <1>4, <1>5, <1>8, <1>9, Advance

(* Three summed.                                                           *)
LEMMA Regrouped ==
    ASSUME NEW a \in Nat, NEW b \in Nat, NEW c \in Nat PROVE a + (b + c) = (a + b) + c
OBVIOUS

(* Nothing is neither of the two short replies.                            *)
LEMMA NothingComes == Silent => Coming = <<>> /\ Coming # Error /\ Coming # Ok
<1>1. <<>> \o <<>> = <<>> /\ << 1, 1, TextWord >> # <<>> /\ << 0, 0 >> # <<>>
  OBVIOUS
<1> QED
  BY <1>1 DEF Silent, Coming, Error, Ok

(* Words more in the FIFO, of an image that is being stored.               *)
LEMMA BeingStoredMore ==
    ASSUME NEW w \in Nat, NEW n \in Nat, NEW v \in Nat, v = w + n, BeingStored(w),
           UNCHANGED <<toFpga, out, stream, op, sd>>, Len(toMmc) \in Nat,
           toMmc' \in Image, Len(toMmc') = Len(toMmc) + n
    PROVE  BeingStored(v)'
<1>1. Len(sd[op.image]) \in Nat
  <2>1. Len(sd[op.image]) = TotalSize - stream.left /\ stream.left \in 1 .. TotalSize
    BY DEF BeingStored
  <2>2. \A n1 \in 1 .. TotalSize : TotalSize - n1 \in Nat
    BY MmcFacts
  <2> QED
    BY <2>1, <2>2, Zenon
<1> PICK s \in Nat, a \in Nat : s = Len(sd[op.image]) /\ a = Len(toMmc)
  BY <1>1, Zenon
<1>2. s + a = w
  BY DEF BeingStored
<1>3. s + (a + n) = v
  <2>1. s + (a + n) = (s + a) + n
    BY Regrouped, Zenon
  <2> QED
    BY <1>2, <2>1, Zenon
<1> QED
  BY <1>3 DEF BeingStored, Silent

(* A chunk more on the way to the card.                                    *)
LEMMA StoringMore ==
    ASSUME NEW p \in Seq({GoodWord}), NEW l \in Seq(AnyWord),
           Storing, UNCHANGED <<toFpga, out, stream, op, sd, worker>>, l = lRet["worker"],
           Len(l) < TotalSize, Len(p) <= TotalSize - Len(l), Len(p) + Len(toMmc) < PipeSize,
           toMmc' = toMmc \o p, lRet'["worker"] = l \o p
    PROVE  /\ Storing' /\ (RefusedToStore => RefusedToStore')
           /\ l \o p \in Seq(AnyWord) /\ Len(l \o p) = Len(l) + Len(p)
<1> PICK n \in Nat : n = Len(p)
  OBVIOUS
<1>1. p \in Seq(AnyWord) /\ p \in Seq({GoodWord}) /\ Len(p) = n
  BY DEF AnyWord
<1>2. /\ TotalSize \in Nat /\ PipeSize \in Nat /\ Len(l) \in Nat /\ Len(l) < TotalSize
      /\ n + Len(toMmc) < PipeSize
  BY MmcFacts
<1>3. l \o p \in Seq(AnyWord) /\ Len(l \o p) = Len(l) + n
  <2>1. l \o p \in Seq(AnyWord) /\ Len(l \o p) = Len(l) + Len(p)
    BY <1>1, <1>2, Joined, Zenon
  <2> QED
    BY <1>1, <2>1
<1>4. ASSUME toMmc \in Image PROVE toMmc' \in Image /\ Len(toMmc') = Len(toMmc) + n /\ Len(toMmc) \in Nat
  <2>1. toMmc \in Seq({GoodWord})
    BY <1>4 DEF Image
  <2>2. toMmc \o p \in Seq({GoodWord}) /\ Len(toMmc \o p) = Len(toMmc) + Len(p)
    BY <1>1, <2>1, Joined, Zenon
  <2> QED
    BY <1>1, <1>2, <2>1, <2>2 DEF Image
<1> PICK w \in Nat, v \in Nat : w = Len(l) /\ v = Len(l) + n
  BY <1>2
<1>5. Len(lRet["worker"]) = w /\ Len(lRet'["worker"]) = v /\ v <= TotalSize
  <2>1. Len(l \o p) = v
    BY <1>3
  <2>2. v <= TotalSize
    BY <1>2
  <2> QED
    BY <2>1, <2>2
<1>6. CASE ToBeStored(w)
  <2>1. toMmc \in Seq(AnyWord) /\ Len(toMmc) = 2 + w /\ toMmc[1] = "store"
    BY <1>6 DEF ToBeStored
  <2>2. /\ toMmc \o p \in Seq(AnyWord) /\ Len(toMmc \o p) = Len(toMmc) + Len(p)
        /\ \A k \in 1 .. Len(toMmc) + Len(p) :
              (toMmc \o p)[k] = IF k <= Len(toMmc) THEN toMmc[k] ELSE p[k - Len(toMmc)]
    <3>1. toMmc \in Seq(AnyWord) /\ p \in Seq(AnyWord)
      BY <1>1, <2>1
    <3> QED
      BY <3>1, Joined, Zenon
  <2>3. \A k \in 1 .. Len(toMmc) + Len(p) :
           toMmc'[k] = IF k <= Len(toMmc) THEN toMmc[k] ELSE p[k - Len(toMmc)]
    BY <2>2, Zenon
  <2>4. Len(toMmc') = 2 + v /\ toMmc' \in Seq(AnyWord) /\ Len(toMmc) \in Nat /\ 1 <= Len(toMmc)
    BY <1>1, <1>2, <2>1, <2>2
  <2>5. toMmc'[1] = "store"
    <3>1. 1 \in 1 .. Len(toMmc) + Len(p)
      BY <1>1, <1>2, <2>4
    <3> QED
      BY <1>2, <2>1, <2>3, <2>4, <3>1
  <2>6. ASSUME NEW k \in 3 .. Len(toMmc') PROVE toMmc'[k] = GoodWord
    <3>1. k \in 1 .. Len(toMmc) + Len(p)
      BY <1>2, <2>2, <2>4
    <3>2. CASE k <= Len(toMmc)
      <4>1. k \in 3 .. Len(toMmc)
        BY <2>4, <3>2
      <4> QED
        BY <1>2, <1>6, <2>3, <3>1, <3>2, <4>1 DEF ToBeStored
    <3>3. CASE ~(k <= Len(toMmc))
      <4>1. k - Len(toMmc) \in 1 .. Len(p)
        BY <1>1, <1>2, <2>4, <3>1, <3>3
      <4>2. p[k - Len(toMmc)] \in {GoodWord}
        BY <1>1, <4>1
      <4> QED
        BY <1>2, <2>3, <3>1, <3>3, <4>2
    <3> QED
      BY <3>2, <3>3
  <2>7. Silent /\ stream.left = 0 /\ Coming # Error
    BY <1>6, NothingComes DEF ToBeStored
  <2>8. ToBeStored(v)'
    BY <2>4, <2>5, <2>6, <2>7 DEF ToBeStored, Silent
  <2>9. Len(toMmc') < PipeSize
    BY <1>1, <1>2, <2>2, <2>4
  <2> QED
    BY <1>2, <1>3, <1>5, <2>7, <2>8, <2>9 DEF Storing, RefusedToStore
<1>7. CASE BeingStored(w)
  <2>1. toMmc \in Image /\ Silent /\ Coming # Error
    BY <1>7, NothingComes DEF BeingStored
  <2>2. toMmc' \in Image /\ Len(toMmc') = Len(toMmc) + n /\ Len(toMmc) \in Nat
    BY <1>4, <2>1
  <2>3. Len(toMmc') < PipeSize
    BY <1>2, <2>2
  <2>6. v = w + n
    BY <1>2
  <2>7. BeingStored(v)'
    BY <1>7, <2>2, <2>6, BeingStoredMore
  <2> QED
    BY <1>2, <1>3, <1>5, <2>1, <2>3, <2>7 DEF Storing, RefusedToStore
<1>8. CASE RefusedToStore
  <2>1. toMmc \in Image
    BY <1>8 DEF RefusedToStore
  <2>2. toMmc' \in Image /\ Len(toMmc') = Len(toMmc) + n /\ Len(toMmc) \in Nat
    BY <1>4, <2>1
  <2>3. RefusedToStore' /\ Len(toMmc') < PipeSize
    BY <1>2, <1>8, <2>2 DEF RefusedToStore, Coming
  <2> QED
    BY <1>2, <1>3, <1>5, <2>3 DEF Storing
<1>9. ~HasStored(w)
  BY <1>2 DEF HasStored
<1> QED
  BY <1>5, <1>6, <1>7, <1>8, <1>9 DEF Storing

(* The loop that writes an image writes a chunk, or stops.                 *)
LEMMA ChunkStep ==
    ASSUME SdInv, NEW t \in Threads, WriteChunk(t), UNCHANGED <<api, worker>>
    PROVE  SdInv'
<1> DEFINE w == Len(lRet[t])
           n == Min({m.space, TotalSize - w})
           rest == TotalSize - w - n
<1>1. /\ Do(t) = "chunks" /\ looked[t] /\ UNCHANGED <<toFpga, mmc, m, torn, reads>>
      /\ IF m.data > 0 THEN Next1(t) /\ UNCHANGED <<toMmc, lRet>>
         ELSE /\ toMmc' = toMmc \o SubSeq(Good, 1, n)
              /\ lRet' = [lRet EXCEPT ![t] = lRet[t] \o SubSeq(Good, 1, n)]
              /\ IF rest = 0 THEN Next1(t) ELSE Again(t)
  BY DEF WriteChunk
<1>2. /\ t = "worker" /\ worker = "store" /\ todo[t] # <<>> /\ Len(todo[t]) = 2 /\ text = op.image
      /\ Tail(todo[t]) # <<>> /\ Len(Tail(todo[t])) = 1 /\ Head(Tail(todo[t])).do = "receive"
  <2>1. /\ t = "worker" /\ worker = "store" /\ todo[t] # <<>> /\ text = op.image
        /\ Len(todo[t]) = (IF Do(t) = "header" THEN 3 ELSE 2)
        /\ Tail(todo[t]) # <<>> /\ Len(Tail(todo[t])) = Len(todo[t]) - 1
        /\ Do(t) = "chunks" => Head(Tail(todo[t])).do = "receive"
    <3>1. Do(t) \in {"header", "chunks"}
      BY <1>1
    <3> QED
      BY <3>1, Uploading, Zenon
  <2> QED
    BY <1>1, <2>1
<1>3. /\ Place(t) /\ Storing /\ w \in Nat /\ w < TotalSize /\ link /\ lRet[t] \in Seq(AnyWord)
      /\ m.data <= Len(toFpga) /\ m.space + Len(toMmc) < PipeSize
      /\ m.data \in Nat /\ m.space \in Nat /\ TotalSize \in Nat /\ PipeSize \in Nat
      /\ Len(toMmc) \in Nat
  <2>1. /\ Place(t) /\ lRet[t] \in Seq(AnyWord) /\ m.data \in Nat /\ m.space \in Nat
    BY <1>2, Acting
  <2>2. TotalSize \in Nat /\ PipeSize \in Nat /\ Len(toMmc) \in Nat
    BY <1>2, MmcFacts, InTheFifo
  <2>3. Storing /\ w < TotalSize /\ link /\ m.data <= Len(toFpga) /\ m.space + Len(toMmc) < PipeSize
    BY <1>1, <2>1 DEF Place
  <2> QED
    BY <2>1, <2>2, <2>3
<1>4. /\ UNCHANGED <<mmc, api, worker>> /\ link' = link /\ stream' = stream /\ text' = text /\ op' = op
      /\ worker' = worker /\ sd' = sd /\ toFpga' = toFpga /\ out' = out
  BY <1>1 DEF mmc, api
<1>5. toFpga' \in Seq(AnyWord) /\ m' \in [space : Nat, data : Nat] /\ reads' \in Seq(Seq(AnyWord))
      /\ lRet \in [Threads -> Seq(AnyWord)] /\ todo \in [Threads -> Seq(Steps)] /\ looked \in [Threads -> BOOLEAN]
  BY <1>1 DEF SdInv, SdTypeOK, Streams
<1> HIDE DEF w
<1>6. ASSUME Next1(t), Storing', RefusedToStore' \/ Len(lRet'[t]) = TotalSize,
             lRet' \in [Threads -> Seq(AnyWord)]
      PROVE  SdInv'
  <2>1. /\ todo'[t] = Tail(todo[t]) /\ looked'[t] = FALSE /\ Do(t)' = "receive" /\ LastReceive(t)'
    BY <1>2, <1>4, <1>5, <1>6 DEF Next1, Do, LastReceive
  <2>2. Place(t)'
    BY <1>3, <1>4, <1>6, <2>1 DEF Place, None
  <2>3. OnTheCard(todo[t])'
    <3>1. /\ Len(todo'[t]) = 1 /\ Len(todo'[t]) <= 3 /\ Len(todo'[t]) # 4 /\ text' = op'.image
          /\ todo'[t] # <<>> /\ Head(todo'[t]).do # "payload"
      BY <1>2, <1>4, <2>1
    <3> QED
      BY <3>1, Zenon DEF OnTheCard
  <2> QED
    BY <1>1, <1>2, <1>4, <1>5, <1>6, <2>2, <2>3, Advance
<1>7. CASE m.data > 0
  <2>1. toFpga # <<>>
    BY <1>3, <1>7
  <2>2. RefusedToStore
    BY <1>2, <1>3, <2>1 DEF Storing, ToBeStored, BeingStored, HasStored, Silent, w
  <2>3. Next1(t) /\ UNCHANGED <<toMmc, lRet>>
    BY <1>1, <1>7
  <2>4. Storing' /\ RefusedToStore'
    BY <1>2, <1>3, <1>4, <2>2, <2>3 DEF Storing, RefusedToStore, Coming
  <2> QED
    BY <1>5, <1>6, <2>3, <2>4
<1>8. CASE ~(m.data > 0)
  <2>1. n \in Nat /\ n <= m.space /\ n <= TotalSize - w
    BY <1>3, LesserOf
  <2>2. n \in 0 .. TotalSize /\ n + Len(toMmc) < PipeSize /\ rest \in Nat
    BY <1>3, <2>1
  <2>3. toMmc' = toMmc \o SubSeq(Good, 1, n) /\ lRet' = [lRet EXCEPT ![t] = lRet[t] \o SubSeq(Good, 1, n)]
        /\ IF rest = 0 THEN Next1(t) ELSE Again(t)
    BY <1>1, <1>8 DEF w
  <2>4. lRet'[t] = lRet[t] \o SubSeq(Good, 1, n)
    BY <1>5, <2>3
  <2> HIDE DEF n
  <2>5. /\ Storing' /\ lRet'["worker"] \in Seq(AnyWord) /\ Len(lRet'["worker"]) = w + n
    <3> DEFINE p == SubSeq(Good, 1, n)
               l == lRet["worker"]
    <3>1. p \in Seq({GoodWord}) /\ Len(p) = n
      BY <2>2, Pieces DEF Image
    <3>2. /\ toMmc' = toMmc \o p /\ lRet'["worker"] = l \o p /\ l \in Seq(AnyWord) /\ l = lRet["worker"]
          /\ Len(l) = w
      BY <1>2, <1>3, <2>3, <2>4 DEF w
    <3> HIDE DEF p, l
    <3>3. Storing' /\ l \o p \in Seq(AnyWord) /\ Len(l \o p) = Len(l) + Len(p)
      BY <1>3, <1>4, <2>1, <2>2, <3>1, <3>2, StoringMore
    <3> QED
      BY <3>1, <3>2, <3>3
  <2>6. lRet' \in [Threads -> Seq(AnyWord)]
    BY <1>2, <1>5, <2>3, <2>4, <2>5
  <2>7. CASE rest = 0
    <3>1. Len(lRet'[t]) = TotalSize
      BY <1>2, <1>3, <2>1, <2>5, <2>7
    <3> QED
      BY <1>6, <2>3, <2>5, <2>6, <2>7, <3>1
  <2>8. CASE rest # 0
    <3>1. Len(lRet'[t]) < TotalSize /\ Again(t)
      BY <1>2, <1>3, <2>1, <2>2, <2>3, <2>5, <2>8
    <3>2. Do(t)' = "chunks" /\ looked'[t] = FALSE
      BY <1>1, <1>5, <3>1 DEF Again, Do
    <3>3. Place(t)'
      BY <1>2, <1>3, <1>4, <2>5, <3>1, <3>2 DEF Place, None
    <3> QED
      BY <1>1, <1>2, <1>4, <1>5, <2>6, <3>1, <3>3, LookAgain
  <2> QED
    BY <2>7, <2>8
<1> QED
  BY <1>7, <1>8

(* The first two words are read, and the rest stays.                       *)
LEMMA HeaderRead ==
    ASSUME NEW q \in Seq(AnyWord), Len(q) >= 2
    PROVE  /\ SubSeq(q, 1, 2) \in Seq(AnyWord) /\ Len(SubSeq(q, 1, 2)) = 2
           /\ SubSeq(q, 1, 2)[1] = q[1] /\ SubSeq(q, 1, 2)[2] = q[2]
           /\ SubSeq(q, 3, Len(q)) \in Seq(AnyWord) /\ Len(SubSeq(q, 3, Len(q))) = Len(q) - 2
OBVIOUS

(* What comes after them, too.                                             *)
LEMMA ComesAfter ==
    ASSUME NEW q \in Seq(AnyWord), NEW b \in Seq(AnyWord), Len(q) >= 2
    PROVE  LET c == SubSeq(q, 3, Len(q)) \o b IN
           /\ c \in Seq(AnyWord) /\ Len(c) = Len(q \o b) - 2
           /\ \A k \in 1 .. Len(c) : c[k] = (q \o b)[k + 2]
           /\ (q \o b)[1] = q[1] /\ (q \o b)[2] = q[2]
<1> DEFINE p == SubSeq(q, 3, Len(q))
<1>1. /\ p \in Seq(AnyWord) /\ Len(p) = Len(q) - 2 /\ Len(q) \in Nat /\ Len(b) \in Nat
      /\ \A k \in 1 .. Len(p) : p[k] = q[k + 2]
  <2>1. p \in Seq(AnyWord) /\ Len(p) = Len(q) - 2 /\ Len(q) \in Nat /\ Len(b) \in Nat
    BY HeaderRead
  <2>2. \A k \in 1 .. Len(q) - 2 : p[k] = q[k + 2]
    OBVIOUS
  <2> QED
    BY <2>1, <2>2
<1> HIDE DEF p
<1>2. /\ p \o b \in Seq(AnyWord) /\ Len(p \o b) = Len(p) + Len(b)
      /\ \A k \in 1 .. Len(p) + Len(b) : (p \o b)[k] = IF k <= Len(p) THEN p[k] ELSE b[k - Len(p)]
  BY <1>1, Joined, Zenon
<1>3. /\ q \o b \in Seq(AnyWord) /\ Len(q \o b) = Len(q) + Len(b)
      /\ \A k \in 1 .. Len(q) + Len(b) : (q \o b)[k] = IF k <= Len(q) THEN q[k] ELSE b[k - Len(q)]
  BY Joined, Zenon
<1>4. ASSUME NEW k \in 1 .. Len(p) + Len(b) PROVE (p \o b)[k] = (q \o b)[k + 2]
  <2>1. k + 2 \in 1 .. Len(q) + Len(b)
    BY <1>1
  <2>2. CASE k <= Len(p)
    <3>1. k \in 1 .. Len(p) /\ k + 2 <= Len(q)
      BY <1>1, <2>2
    <3> QED
      BY <1>1, <1>2, <1>3, <2>1, <2>2, <3>1
  <2>3. CASE ~(k <= Len(p))
    <3>1. ~(k + 2 <= Len(q)) /\ (k + 2) - Len(q) = k - Len(p)
      BY <1>1, <2>3
    <3> QED
      BY <1>2, <1>3, <2>1, <2>3, <3>1
  <2> QED
    BY <2>2, <2>3
<1>5. Len(p \o b) = Len(q \o b) - 2
  BY <1>1, <1>2, <1>3
<1>6. (q \o b)[1] = q[1] /\ (q \o b)[2] = q[2]
  <2>1. 1 \in 1 .. Len(q) + Len(b) /\ 2 \in 1 .. Len(q) + Len(b) /\ 1 <= Len(q) /\ 2 <= Len(q)
    BY <1>1
  <2> QED
    BY <1>3, <2>1
<1> QED
  BY <1>2, <1>4, <1>5, <1>6 DEF p

(* The texts are no numbers.                                               *)
LEMMA ErrorReply == Len(Error) = 3 /\ Error[1] = 1 /\ Error[2] = 1 /\ \A k \in 3 .. 3 : Error[k] # 0
<1>1. TextWord # 0
  <2>1. TextWord \notin Nat
    BY WordsAssumption
  <2> QED
    BY <2>1
<1> QED
  BY <1>1 DEF Error

(* A reply whose header has come is known; how large its payload is.       *)
LEMMA ReplyCome ==
    ASSUME SdInv, NEW t \in Threads, Do(t) = "receive", todo[t] # <<>>, toFpga # <<>>
    PROVE  /\ Len(Coming) >= 2 /\ Coming[2] \in Nat /\ Len(Coming) = 2 + Coming[2] /\ stream.left = 0
           /\ \A k \in 3 .. Len(Coming) : Coming[k] # 0
           /\ Coming[1] # 0 \/ Len(Coming) = 2 \/ Ending(t)
           /\ \/ toMmc = <<>>
              \/ t = "worker" /\ worker = "store" /\ Coming[1] # 0 /\ toMmc \in Image /\ Len(toMmc) < PipeSize
           /\ t = "worker" /\ worker = "store" /\ Len(todo[t]) = 1 /\ Coming[1] = 0 => InMemory
<1>1. Place(t) /\ ~Silent
  BY Acting DEF Silent
<1>2. CASE LastReceive(t)
  <2>1. Storing /\ t = "worker" /\ worker = "store"
    BY <1>1, <1>2 DEF Place, LastReceive
  <2>2. HasStored(Len(lRet["worker"])) \/ RefusedToStore
    BY <1>1, <2>1 DEF Storing, ToBeStored, BeingStored
  <2>3. CASE HasStored(Len(lRet["worker"]))
    <3>1. Coming = Ok /\ toMmc = <<>> /\ stream.left = 0 /\ InMemory
      BY <2>3 DEF HasStored
    <3>2. Len(Coming) = 2 /\ Coming[2] = 0
      BY <3>1 DEF Ok
    <3>3. \A k \in 3 .. 2 : Coming[k] # 0
      OBVIOUS
    <3> QED
      BY <3>1, <3>2, <3>3
  <2>4. CASE RefusedToStore
    <3>1. Coming = Error /\ toMmc \in Image /\ stream.left = 0 /\ Len(toMmc) < PipeSize
      BY <2>1, <2>4 DEF RefusedToStore, Storing
    <3>2. Len(Coming) = 3 /\ Coming[2] = 1 /\ Coming[1] # 0 /\ \A k \in 3 .. 3 : Coming[k] # 0
      BY <3>1, ErrorReply
    <3> QED
      BY <2>1, <3>1, <3>2
  <2> QED
    BY <2>2, <2>3, <2>4
<1>3. CASE ~LastReceive(t)
  <2>1. Replied /\ Closing(t)
    BY <1>1, <1>3 DEF Place, Waiting
  <2>2. Coming[1] # 0 \/ Len(Coming) = 2 \/ Ending(t)
    <3>1. Len(Coming) >= 2 /\ Len(Coming) \in Nat
      BY <2>1, Acting DEF Replied
    <3>2. Len(Coming) > 2 \/ Len(Coming) = 2
      <4> PICK c \in Nat : c = Len(Coming)
        BY <3>1
      <4>1. c >= 2
        BY <3>1
      <4>2. c > 2 \/ c = 2
        BY <4>1
      <4> QED
        BY <4>2
    <3> QED
      BY <1>3, <2>1, <3>2 DEF Closing, Ending
  <2> QED
    BY <1>3, <2>1, <2>2 DEF Replied, LastReceive
<1> QED
  BY <1>2, <1>3

(* The header of a reply is read when it is there.                         *)
LEMMA ReceiveStep ==
    ASSUME SdInv, NEW t \in Threads, Receive(t), UNCHANGED <<api, worker>>
    PROVE  SdInv'
<1>1. /\ Do(t) \in {"receive", "caught"} /\ looked[t] /\ UNCHANGED <<toMmc, mmc, m, torn, reads>>
      /\ todo[t] # <<>>
  BY DEF Receive, Do, None
<1>2. /\ Place(t) /\ todo[t] \in Seq(Steps) /\ Plan(todo[t]) /\ Do(t) = Head(todo[t]).do
      /\ toFpga \in Seq(AnyWord) /\ m.data \in Nat /\ out \in Seq(AnyWord) /\ Len(toFpga) \in Nat
      /\ todo \in [Threads -> Seq(Steps)] /\ looked \in [Threads -> BOOLEAN]
      /\ lRet \in [Threads -> Seq(AnyWord)] /\ m' \in [space : Nat, data : Nat]
      /\ reads' \in Seq(Seq(AnyWord))
  BY <1>1, Acting DEF SdInv, SdTypeOK, Streams
<1>3. /\ UNCHANGED <<mmc, api, worker>> /\ link' = link /\ stream' = stream /\ text' = text /\ op' = op
      /\ worker' = worker /\ sd' = sd /\ toMmc' = toMmc /\ m' = m /\ reads' = reads
      /\ out' = out
  BY <1>1 DEF mmc, api
<1>4. CASE m.data < 2
  <2>1. Again(t) /\ toFpga' = toFpga /\ lRet' = lRet
    BY <1>4 DEF Receive
  <2>2. todo' = todo /\ looked'[t] = FALSE /\ Do(t)' = Do(t)
    BY <1>2, <2>1 DEF Again, Do
  <2>3. /\ Waiting(Messages)' = Waiting(Messages) /\ Replied' = Replied /\ Storing' = Storing
        /\ RefusedToStore' = RefusedToStore /\ LastReceive(t)' = LastReceive(t)
        /\ Silent' = Silent /\ Coming' = Coming /\ Closing(t)' = Closing(t)
    BY <1>3, <2>1, <2>2 DEF Silent, Coming, Closing, LastOfAll, Waiting, Replied, Storing, RefusedToStore, LastReceive,
         ToBeStored, BeingStored, HasStored, InMemory
  <2>4. Place(t)'
    BY <1>1, <1>2, <1>3, <2>1, <2>2, <2>3 DEF Place
  <2> QED
    BY <1>1, <1>2, <1>3, <2>1, <2>4, LookAgain
<1>5. CASE ~(m.data < 2)
  <2> DEFINE n == Coming[2]
             p == [do |-> "payload", size |-> n]
             s == << p >> \o Tail(todo[t])
  <2>2. Do(t) = "receive" /\ m.data <= Len(toFpga) /\ Len(toFpga) >= 2 /\ toFpga # <<>> /\ link
    <3>1. Do(t) # "caught"
      BY <1>1, <1>2, <1>5 DEF Place
    <3>2. Do(t) = "receive" /\ m.data <= Len(toFpga) /\ link
      BY <1>1, <1>2, <3>1 DEF Place
    <3> QED
      BY <1>2, <1>5, <3>2
  <2>3. /\ Len(Coming) >= 2 /\ n \in Nat /\ Len(Coming) = 2 + n /\ stream.left = 0
        /\ \A k \in 3 .. Len(Coming) : Coming[k] # 0
        /\ Coming[1] # 0 \/ Len(Coming) = 2 \/ Ending(t)
        /\ \/ toMmc = <<>>
           \/ t = "worker" /\ worker = "store" /\ Coming[1] # 0 /\ toMmc \in Image /\ Len(toMmc) < PipeSize
        /\ t = "worker" /\ worker = "store" /\ Len(todo[t]) = 1 /\ Coming[1] = 0 => InMemory
    BY <1>1, <2>2, ReplyCome
  <2>12. /\ toFpga' = SubSeq(toFpga, 3, Len(toFpga)) /\ lRet' = [lRet EXCEPT ![t] = SubSeq(toFpga, 1, 2)]
         /\ todo' = [todo EXCEPT ![t] = <<[do |-> "payload", size |-> Size(toFpga[2])]>> \o Tail(todo[t])]
         /\ looked' = [looked EXCEPT ![t] = looked[t]]
    BY <1>2, <1>5 DEF Receive
  <2>13. /\ Coming' \in Seq(AnyWord) /\ Len(Coming') = Len(Coming) - 2
         /\ \A k \in 1 .. Len(Coming') : Coming'[k] = Coming[k + 2]
         /\ Coming[1] = toFpga[1] /\ Coming[2] = toFpga[2]
    BY <1>2, <1>3, <2>2, <2>12, ComesAfter DEF Coming
  <2>1. /\ todo' = [todo EXCEPT ![t] = s]
    BY <2>3, <2>12, <2>13 DEF Size
  <2>4. /\ toFpga' \in Seq(AnyWord) /\ Len(Coming') = n /\ lRet' \in [Threads -> Seq(AnyWord)]
        /\ Len(lRet'[t]) = 2 /\ lRet'[t][1] = Coming[1] /\ Len(toFpga') = Len(toFpga) - 2
    <3>1. /\ SubSeq(toFpga, 1, 2) \in Seq(AnyWord) /\ Len(SubSeq(toFpga, 1, 2)) = 2
          /\ SubSeq(toFpga, 1, 2)[1] = toFpga[1]
          /\ SubSeq(toFpga, 3, Len(toFpga)) \in Seq(AnyWord) /\ Len(SubSeq(toFpga, 3, Len(toFpga))) = Len(toFpga) - 2
      BY <1>2, <2>2, HeaderRead
    <3>2. lRet'[t] = SubSeq(toFpga, 1, 2) /\ lRet' \in [Threads -> Seq(AnyWord)]
      BY <1>2, <2>12, <3>1
    <3>3. Len(Coming') = n
      BY <2>3, <2>13
    <3> HIDE DEF n
    <3> QED
      BY <2>12, <2>13, <3>1, <3>2, <3>3, Zenon
  <2>14. /\ m'.data <= Len(toFpga') + 2
         /\ \A k \in 1 .. Len(Coming') : Coming'[k] # 0
         /\ lRet'[t][1] # 0 \/ Coming' = <<>> \/ Ending(t)
    <3>1. m'.data <= Len(toFpga') + 2
      BY <1>2, <1>3, <2>2, <2>4
    <3>2. \A k \in 1 .. Len(Coming') : k + 2 \in 3 .. Len(Coming)
      BY <2>3, <2>13
    <3>3. Len(Coming) = 2 => Coming' = <<>>
      BY <2>13
    <3> QED
      BY <2>3, <2>4, <2>13, <3>1, <3>2, <3>3
  <2>5. /\ s \in Seq(Steps) /\ Len(s) = Len(todo[t]) /\ s # <<>> /\ Head(s) = p
        /\ Plan(s) /\ (Downloads(s) => Downloads(todo[t])) /\ (NoStore(todo[t]) => NoStore(s))
        /\ (UploadSteps(op.image, todo[t]) => UploadSteps(op.image, s))
        /\ (BootSteps(todo[t]) => BootSteps(s)) /\ (FetchSteps(todo[t]) => FetchSteps(s))
        /\ ((\A k \in 2 .. Len(todo[t]) : todo[t][k].do = "start") => \A k \in 2 .. Len(s) : s[k].do = "start")
    <3> SUFFICES ASSUME NEW l \in Nat, l = n
                 PROVE  LET u == << [do |-> "payload", size |-> l] >> \o Tail(todo[t]) IN
        /\ u \in Seq(Steps) /\ Len(u) = Len(todo[t]) /\ u # <<>> /\ Head(u) = [do |-> "payload", size |-> l]
        /\ Plan(u) /\ (Downloads(u) => Downloads(todo[t])) /\ (NoStore(todo[t]) => NoStore(u))
        /\ (UploadSteps(op.image, todo[t]) => UploadSteps(op.image, u))
        /\ (BootSteps(todo[t]) => BootSteps(u)) /\ (FetchSteps(todo[t]) => FetchSteps(u))
        /\ ((\A k \in 2 .. Len(todo[t]) : todo[t][k].do = "start") => \A k \in 2 .. Len(u) : u[k].do = "start")
      BY <2>3
    <3> QED
      BY <1>1, <1>2, <2>2, PlanPayload
  <2>6. p.do = "payload" /\ p.size = n
    OBVIOUS
  <2> HIDE DEF n, p, s
  <2>7. /\ todo'[t] = s /\ looked'[t] = looked[t] /\ Do(t)' = "payload" /\ Head(todo'[t]).size = Len(Coming')
    BY <1>2, <2>1, <2>4, <2>5, <2>6, <2>12 DEF Do
  <2>15. Ending(t) => Ending(t)'
    BY <1>3, <2>5, <2>7 DEF LastOfAll, LastReceive, Ending
  <2>8. Place(t)'
    BY <1>3, <2>2, <2>3, <2>4, <2>7, <2>14, <2>15 DEF Place, None
  <2>9. t = "worker" => Uploads'
    <3> SUFFICES ASSUME t = "worker", worker = "store"
                 PROVE  UploadSteps(op.image, s) /\ OnTheCard(todo[t])'
      BY <1>3, <2>7 DEF Uploads
    <3>1. UploadSteps(op.image, todo[t]) /\ OnTheCard(todo[t])
      BY <1>1, <2>2 DEF SdInv, Uploads
    <3>2. /\ Len(todo[t]) <= 3 => text = op.image
          /\ Len(todo[t]) = 4 => (text = op.image /\ toMmc = <<>>) \/ toMmc = << "text", 1, op.image >>
      BY <3>1 DEF OnTheCard
    <3>3. /\ Len(todo'[t]) <= 3 => text' = op'.image
          /\ Len(todo'[t]) = 4 => (text' = op'.image /\ toMmc' = <<>>) \/ toMmc' = << "text", 1, op'.image >>
      BY <1>3, <2>5, <2>7, <3>2
    <3>4. todo'[t] # <<>>
      BY <2>5, <2>7
    <3>5. Len(todo'[t]) = 1 /\ lRet'["worker"][1] = 0 => InMemory'
      BY <1>3, <2>3, <2>4, <2>5, <2>7 DEF InMemory
    <3> QED
      BY <2>5, <3>1, <3>3, <3>4, <3>5 DEF OnTheCard
  <2>10. t = "worker" => Booting' /\ Fetches'
    BY <1>1, <1>3, <2>2, <2>5, <2>7 DEF SdInv, Booting, Fetches
  <2>11. looked[t] \in BOOLEAN
    BY <1>2
  <2> QED
    BY <1>1, <1>2, <1>3, <2>1, <2>4, <2>5, <2>8, <2>9, <2>10, <2>11, <2>12, MoveKeeps
<1> QED
  BY <1>4, <1>5

(* An exception ends the call of the caller, or is on its way to end the   *)
(* program.                                                                *)
LEMMA ThrowKeeps ==
    ASSUME SdInv, NEW t \in Threads, todo[t] # <<>>, Threw(t), UNCHANGED <<mmc, api, worker>>,
           link, t = "caller" => AtRest', stream.left = 0,
           t = "worker" => toMmc' \in Image /\ Len(toMmc') < PipeSize /\ (worker = "boot" => toMmc' = <<>>),
           toFpga' \in Seq(AnyWord), m' \in [space : Nat, data : Nat],
           lRet' \in [Threads -> Seq(AnyWord)], reads' \in Seq(Seq(AnyWord))
    PROVE  SdInv'
<1> DEFINE a == Step("terminate")
           s == IF t = "worker" THEN << a >> ELSE <<>>
<1>1. todo' = [todo EXCEPT ![t] = s] /\ looked' = [looked EXCEPT ![t] = FALSE] /\ Threads = {"caller", "worker"}
  BY DEF Threw, Threads
<1>2. a \in Steps /\ a.do = "terminate"
  BY DEF Steps, Step, Plain
<1> HIDE DEF a
<1>3. /\ s \in Seq(Steps) /\ (t = "worker" => Len(s) = 1 /\ s[1] = a /\ s # <<>> /\ Head(s) = a)
      /\ (t = "caller" => s = <<>> /\ Len(s) = 0) /\ (t = "caller" \/ t = "worker")
  BY <1>1, <1>2
<1> HIDE DEF s
<1>4. Plan(s) /\ BootSteps(s) /\ NoStore(s)
  BY <1>2, <1>3 DEF Plan, Ends, BootSteps, NoStore
<1>5. ~(Downloads(s) /\ t = "caller")
  BY <1>3 DEF Downloads
<1>6. todo \in [Threads -> Seq(Steps)] /\ looked \in [Threads -> BOOLEAN]
  BY DEF SdInv, SdTypeOK, Streams
<1>7. todo'[t] = s /\ looked'[t] = FALSE
  BY <1>1, <1>6
<1>8. s # <<>> => Place(t)'
  <2> SUFFICES ASSUME t = "worker" PROVE Place(t)'
    BY <1>3
  <2>1. Do(t)' = "terminate"
    BY <1>2, <1>3, <1>7 DEF Do
  <2>2. stream'.left = 0 /\ link'
    BY DEF mmc
  <2> QED
    BY <2>1, <2>2 DEF Place, None
<1>9. s = <<>> => AtRest' /\ link
  BY <1>3
<1>10. t = "worker" => Uploads' /\ Booting' /\ Fetches'
  <2> SUFFICES ASSUME t = "worker" PROVE Uploads' /\ Booting' /\ Fetches'
    OBVIOUS
  <2>1. Do("worker")' = "terminate" /\ todo'["worker"] = s
    BY <1>2, <1>3, <1>7 DEF Do
  <2>2. worker' = worker
    OBVIOUS
  <2> QED
    BY <1>4, <2>1, <2>2 DEF Uploads, Booting, Fetches
<1>11. UNCHANGED <<mmc, api, worker>>
  OBVIOUS
<1> QED
  BY <1>1, <1>3, <1>4, <1>5, <1>8, <1>9, <1>10, <1>11, MoveKeeps

(* All the words are read.                                                 *)
LEMMA AllRead ==
    ASSUME NEW q \in Seq(AnyWord), NEW l \in Seq(AnyWord), NEW n \in 0 .. Len(q)
    PROVE  /\ SubSeq(q, n + 1, Len(q)) \in Seq(AnyWord) /\ Len(SubSeq(q, n + 1, Len(q))) = Len(q) - n
           /\ l \o SubSeq(q, 1, n) \in Seq(AnyWord) /\ Len(l \o SubSeq(q, 1, n)) = Len(l) + n
           /\ \A k \in 1 .. Len(l) : (l \o SubSeq(q, 1, n))[k] = l[k]
           /\ n = Len(q) => SubSeq(q, n + 1, Len(q)) = <<>>
<1> DEFINE p == SubSeq(q, 1, n)
<1>1. p \in Seq(AnyWord) /\ Len(p) = n
  OBVIOUS
<1>2. SubSeq(q, n + 1, Len(q)) \in Seq(AnyWord) /\ Len(SubSeq(q, n + 1, Len(q))) = Len(q) - n
  OBVIOUS
<1>3. n = Len(q) => SubSeq(q, n + 1, Len(q)) = <<>>
  BY <1>2
<1> HIDE DEF p
<1>4. /\ l \o p \in Seq(AnyWord) /\ Len(l \o p) = Len(l) + Len(p)
      /\ \A k \in 1 .. Len(l) + Len(p) : (l \o p)[k] = IF k <= Len(l) THEN l[k] ELSE p[k - Len(l)]
  BY <1>1, Joined, Zenon
<1>5. \A k \in 1 .. Len(l) : (l \o p)[k] = l[k]
  <2> TAKE k \in 1 .. Len(l)
  <2>1. k \in 1 .. Len(l) + Len(p) /\ k <= Len(l)
    BY <1>1
  <2> QED
    BY <1>4, <2>1
<1> QED
  BY <1>1, <1>2, <1>3, <1>4, <1>5 DEF p

(* The payload of a reply.                                                 *)
LEMMA PayloadStep ==
    ASSUME SdInv, NEW t \in Threads, ReceivePayload(t), UNCHANGED <<api, worker>>, ~torn'
    PROVE  SdInv'
<1> DEFINE n == Head(todo[t]).size
<1>1. Do(t) = "payload" /\ UNCHANGED <<toMmc, mmc, reads>> /\ todo[t] # <<>>
  BY DEF ReceivePayload, Do, None
<1>2. /\ Place(t) /\ todo[t] \in Seq(Steps) /\ Plan(todo[t]) /\ Do(t) = Head(todo[t]).do
      /\ toFpga \in Seq(AnyWord) /\ out \in Seq(AnyWord) /\ Len(Coming) = Len(toFpga) + Len(out)
      /\ m.data \in Nat /\ looked[t] \in BOOLEAN
      /\ todo \in [Threads -> Seq(Steps)] /\ looked \in [Threads -> BOOLEAN]
      /\ lRet \in [Threads -> Seq(AnyWord)] /\ m \in [space : Nat, data : Nat]
      /\ reads' \in Seq(Seq(AnyWord)) /\ Len(toFpga) \in Nat /\ lRet[t] \in Seq(AnyWord)
  BY <1>1, Acting DEF SdInv, SdTypeOK, Streams
<1>3. /\ UNCHANGED <<mmc, api, worker>> /\ link' = link /\ stream' = stream /\ text' = text /\ op' = op
      /\ worker' = worker /\ sd' = sd /\ toMmc' = toMmc /\ reads' = reads
      /\ out' = out
  BY <1>1 DEF mmc, api
<1>4. /\ n = Len(Coming) /\ stream.left = 0 /\ Len(lRet[t]) = 2 /\ link
      /\ \/ toMmc = <<>>
         \/ /\ t = "worker" /\ worker = "store" /\ lRet[t][1] # 0
            /\ toMmc \in Image /\ Len(toMmc) < PipeSize
  BY <1>1, <1>2 DEF Place
<1>5. CASE m.data < n
  <2>1. /\ m' = [m EXCEPT !.data = Level(toFpga)] /\ toFpga' = toFpga /\ lRet' = lRet /\ todo' = todo
        /\ looked' = looked
    BY <1>5 DEF ReceivePayload
  <2>2. m' \in [space : Nat, data : Nat]
    BY <1>2, <2>1, LevelFacts
  <2>7. m'.data <= Len(toFpga) + 2
    <3>1. m'.data = Level(toFpga) /\ Level(toFpga) \in Nat /\ Level(toFpga) <= Len(toFpga)
      BY <1>2, <2>1, LevelFacts
    <3> QED
      BY <1>2, <3>1
  <2>8. Coming' = Coming /\ Ending(t)' = Ending(t)
    BY <1>3, <2>1 DEF Coming, LastOfAll, LastReceive, Ending
  <2>3. Place(t)'
    BY <1>1, <1>2, <1>3, <1>4, <2>1, <2>7, <2>8 DEF Place, Do, None
  <2>4. Uploads' /\ Booting' /\ Fetches'
    BY <1>3, <2>1 DEF SdInv, Uploads, Booting, Fetches, OnTheCard, InMemory, Do
  <2>5. /\ todo' = [todo EXCEPT ![t] = todo[t]] /\ looked' = [looked EXCEPT ![t] = looked[t]]
        /\ toFpga' \in Seq(AnyWord) /\ lRet' \in [Threads -> Seq(AnyWord)]
    BY <1>2, <2>1
  <2> DEFINE s == todo[t]
  <2>6. s \in Seq(Steps) /\ Plan(s) /\ s # <<>> /\ todo' = [todo EXCEPT ![t] = s]
        /\ (Downloads(s) /\ t = "caller" => Downloads(todo[t])) /\ (NoStore(todo[t]) => NoStore(s))
    BY <1>1, <1>2, <2>5
  <2> HIDE DEF s
  <2> QED
    BY <1>1, <1>2, <1>3, <2>2, <2>3, <2>4, <2>5, <2>6, MoveKeeps
<1>6. CASE ~(m.data < n)
  <2> DEFINE there == Min({n, Len(toFpga)})
  <2>7. /\ toFpga' = SubSeq(toFpga, there + 1, Len(toFpga)) /\ torn' = (torn \/ there < n)
        /\ \E w \in Images \cup {BadWord} :
              lRet' = [lRet EXCEPT ![t] = @ \o SubSeq(toFpga, 1, there) \o [k \in 1 .. n - there |-> w]]
        /\ (IF lRet[t][1] # 0 THEN Threw(t) ELSE Next1(t)) /\ m' = m
    BY <1>6 DEF ReceivePayload, Flagged
  <2>8. n \in Nat /\ Len(out) \in Nat /\ n = Len(toFpga) + Len(out)
    BY <1>2, <1>4
  <2>9. there \in Nat /\ there <= n /\ there <= Len(toFpga)
    <3> HIDE DEF n
    <3> QED
      BY <1>2, <2>8, LesserOf
  <2>10. there = n
    <3>1. ~(there < n)
      BY <2>7
    <3> HIDE DEF n, there
    <3> QED
      BY <2>8, <2>9, <3>1
  <2>11. n = Len(toFpga) /\ out = <<>>
    <3> HIDE DEF n, there
    <3> QED
      BY <1>2, <2>8, <2>9, <2>10
  <2> HIDE DEF there
  <2>12. PICK w \in AnyWord : lRet' = [lRet EXCEPT ![t] = @ \o SubSeq(toFpga, 1, n) \o [k \in 1 .. 0 |-> w]]
    <3>1. PICK w \in Images \cup {BadWord} :
              lRet' = [lRet EXCEPT ![t] = @ \o SubSeq(toFpga, 1, there) \o [k \in 1 .. n - there |-> w]]
      BY <2>7
    <3>2. w \in AnyWord /\ n - there = 0
      BY <2>8, <2>10 DEF AnyWord
    <3> QED
      BY <2>10, <3>1, <3>2
  <2>1. /\ toFpga' = SubSeq(toFpga, n + 1, Len(toFpga))
        /\ (IF lRet[t][1] # 0 THEN Threw(t) ELSE Next1(t)) /\ m' = m
    BY <2>7, <2>10
  <2>2. toFpga' = <<>> /\ lRet' \in [Threads -> Seq(AnyWord)] /\ out' = <<>>
    <3>1. n \in 0 .. Len(toFpga)
      BY <1>2, <2>11
    <3> HIDE DEF n
    <3>2. SubSeq(toFpga, n + 1, Len(toFpga)) = <<>> /\ lRet[t] \o SubSeq(toFpga, 1, n) \in Seq(AnyWord)
      <4>1. n = Len(toFpga) => SubSeq(toFpga, n + 1, Len(toFpga)) = <<>>
        BY <1>2, <3>1, AllRead
      <4>2. lRet[t] \o SubSeq(toFpga, 1, n) \in Seq(AnyWord)
        BY <1>2, <3>1, AllRead
      <4> QED
        BY <2>11, <4>1, <4>2
    <3>3. [k \in 1 .. 0 |-> w] \in Seq(AnyWord)
      OBVIOUS
    <3>4. lRet[t] \o SubSeq(toFpga, 1, n) \o [k \in 1 .. 0 |-> w] \in Seq(AnyWord)
      BY <3>2, <3>3, Joined, Zenon
    <3>5. lRet' = [lRet EXCEPT ![t] = lRet[t] \o SubSeq(toFpga, 1, n) \o [k \in 1 .. 0 |-> w]]
      BY <2>12
    <3> QED
      BY <1>2, <1>3, <2>1, <2>11, <3>2, <3>4, <3>5
  <2>3. toFpga' \in Seq(AnyWord) /\ m' \in [space : Nat, data : Nat]
    <3>1. <<>> \in Seq(AnyWord)
      OBVIOUS
    <3> QED
      BY <1>2, <2>1, <2>2, <3>1, Zenon
  <2> HIDE DEF n
  <2>4. toMmc = <<>> => AtRest' /\ toMmc' \in Image /\ Len(toMmc') < PipeSize
    BY <1>3, <1>4, <2>2, MmcFacts DEF AtRest, Silent, Image
  <2>5. CASE lRet[t][1] # 0
    <3>1. Threw(t) /\ (t = "caller" => AtRest')
      BY <1>4, <2>1, <2>4, <2>5
    <3>2. toMmc' \in Image /\ Len(toMmc') < PipeSize /\ (worker = "boot" => toMmc' = <<>>)
      BY <1>3, <1>4, <2>4
    <3> QED
      BY <1>1, <1>2, <1>3, <1>4, <2>2, <2>3, <3>1, <3>2, ThrowKeeps
  <2>6. CASE lRet[t][1] = 0
    <3>1. Next1(t) /\ toMmc = <<>> /\ AtRest'
      BY <1>4, <2>1, <2>4, <2>6
    <3>2. todo'[t] = Tail(todo[t]) /\ looked'[t] = FALSE
      BY <1>2, <3>1 DEF Next1
    <3>3. Tail(todo[t]) # <<>> => Place(t)'
      <4> SUFFICES ASSUME Tail(todo[t]) # <<>> PROVE Place(t)'
        OBVIOUS
      <4>1. Follows(Head(todo[t]), Head(Tail(todo[t])))
        BY <1>1, <1>2, PlanTail
      <4>2. Do(t)' \in {"send", "header", "start"}
        BY <1>1, <1>2, <3>2, <4>1 DEF Follows, Do
      <4> QED
        BY <1>3, <1>4, <3>1, <3>2, <4>2 DEF Place, None
    <3>4. t = "worker" /\ worker = "store" => OnTheCard(todo[t])'
      <4> SUFFICES ASSUME t = "worker", worker = "store" PROVE OnTheCard(todo[t])'
        OBVIOUS
      <4>1. UploadSteps(op.image, todo[t]) /\ OnTheCard(todo[t])
        BY <1>1 DEF SdInv, Uploads
      <4>2. UploadStep(op.image, Head(todo[t]), Len(todo[t]) - 1) /\ Len(todo[t]) \in Nat \ {0}
        BY <1>1, <1>2, <4>1, NextOfPlan
      <4>3. Len(todo[t]) = 1 \/ Len(todo[t]) = 4
        <5>1. Len(todo[t]) - 1 \in {0, 3}
          BY <1>1, <1>2, <4>2 DEF UploadStep, Send
        <5> QED
          BY <4>2, <5>1
      <4>4. text = op.image /\ (Len(todo[t]) = 1 => InMemory)
        <5>1. toMmc # << "text", 1, op.image >>
          BY <3>1
        <5>2. text = op.image
          <6>1. /\ Len(todo[t]) <= 3 => text = op.image
                /\ Len(todo[t]) = 4 => (text = op.image /\ toMmc = <<>>) \/ toMmc = << "text", 1, op.image >>
            BY <4>1 DEF OnTheCard
          <6>2. CASE Len(todo[t]) = 1
            BY <6>1, <6>2
          <6>3. CASE Len(todo[t]) = 4
            BY <5>1, <6>1, <6>3, Zenon
          <6> QED
            BY <4>3, <6>2, <6>3
        <5>3. lRet["worker"][1] = 0 /\ Head(todo[t]).do = "payload"
          BY <1>1, <1>2, <2>6
        <5> QED
          BY <4>1, <5>2, <5>3 DEF OnTheCard
      <4>5. Len(Tail(todo[t])) = Len(todo[t]) - 1
        BY <1>1, <1>2, PlanTail
      <4>6. CASE Len(todo[t]) = 1
        <5>1. Len(todo'[t]) = 0 /\ text' = op'.image /\ InMemory'
          BY <1>3, <3>2, <4>4, <4>5, <4>6 DEF InMemory
        <5> QED
          BY <5>1 DEF OnTheCard
      <4>7. CASE Len(todo[t]) = 4
        <5>1. Len(todo'[t]) = 3 /\ text' = op'.image
          BY <1>3, <3>2, <4>4, <4>5, <4>7
        <5>2. todo'[t] # <<>> /\ Len(todo'[t]) # 1 /\ Len(todo'[t]) # 4
          <6>1. Len(<<>>) = 0 /\ 3 # 0 /\ 3 # 1 /\ 3 # 4
            OBVIOUS
          <6> QED
            BY <5>1, <6>1, Zenon
        <5> QED
          BY <5>1, <5>2 DEF OnTheCard
      <4> QED
        BY <4>3, <4>6, <4>7
    <3>5. toMmc' = <<>> /\ Len(reads') = Len(reads) /\ Do(t) # "words" /\ Do(t) # "terminate"
      BY <1>1, <1>3, <3>1
    <3> QED
      BY <1>1, <1>2, <1>3, <1>4, <2>2, <2>3, <3>1, <3>3, <3>4, <3>5, Advance
  <2> QED
    BY <2>5, <2>6
<1> QED
  BY <1>5, <1>6

(* An upload takes none of these steps.                                    *)
LEMMA NotUploading ==
    ASSUME SdInv, NEW t \in Threads, Do(t) \in {"size", "words", "caught", "back", "start"}
    PROVE  ~(t = "worker" /\ worker = "store") /\ todo[t] # <<>>
<1>1. todo[t] # <<>>
  BY DEF Do, None
<1>2. todo[t] \in Seq(Steps) /\ Do(t) = Head(todo[t]).do
  BY <1>1, Acting
<1>3. ASSUME t = "worker", worker = "store" PROVE FALSE
  <2>1. UploadSteps(op.image, todo[t])
    BY <1>3 DEF SdInv, Uploads
  <2>2. UploadStep(op.image, Head(todo[t]), Len(todo[t]) - 1)
    BY <1>1, <1>2, <2>1, NextOfPlan
  <2>3. Send("text", << op.image >>).do = "send"
    BY DEF Send
  <2> QED
    BY <1>2, <2>2, <2>3 DEF UploadStep
<1> QED
  BY <1>1, <1>3

(* After the last step of an exchange all is at rest.                      *)
LEMMA RestsNext ==
    ASSUME SdInv, NEW t \in Threads, Do(t) \in {"receive", "payload", "words", "back"}, Next1(t),
           AtRest', link', Tail(todo[t]) # <<>>
    PROVE  Place(t)'
<1>1. todo[t] # <<>>
  BY DEF Do, None
<1>2. todo[t] \in Seq(Steps) /\ Do(t) = Head(todo[t]).do /\ Plan(todo[t])
  BY <1>1, Acting
<1>3. todo'[t] = Tail(todo[t]) /\ looked'[t] = FALSE
  BY DEF Next1, SdInv, SdTypeOK, Streams
<1>4. Follows(Head(todo[t]), Head(Tail(todo[t])))
  BY <1>1, <1>2, PlanTail
<1>5. Do(t)' \in {"send", "header", "start"}
  BY <1>2, <1>3, <1>4 DEF Follows, Do
<1> QED
  BY <1>3, <1>5 DEF Place, None

(* The size of an image is read.                                           *)
LEMMA SizeStep ==
    ASSUME SdInv, NEW t \in Threads, ReadSize(t), UNCHANGED <<api, worker>>
    PROVE  SdInv'
<1>1. Do(t) = "size" /\ UNCHANGED <<toMmc, mmc, m, torn, reads>> /\ todo[t] # <<>>
  BY DEF ReadSize, Do, None
<1>2. /\ Place(t) /\ todo[t] \in Seq(Steps) /\ Plan(todo[t]) /\ Do(t) = Head(todo[t]).do
      /\ toFpga \in Seq(AnyWord) /\ m.data \in Nat /\ out \in Seq(AnyWord) /\ Len(toFpga) \in Nat
      /\ Len(Coming) = Len(toFpga) + Len(out)
      /\ todo \in [Threads -> Seq(Steps)] /\ looked \in [Threads -> BOOLEAN]
      /\ lRet \in [Threads -> Seq(AnyWord)] /\ m' \in [space : Nat, data : Nat]
      /\ reads' \in Seq(Seq(AnyWord)) /\ stream.left \in Nat
  BY <1>1, Acting DEF SdInv, SdTypeOK, Streams
<1>3. /\ UNCHANGED <<mmc, api, worker>> /\ link' = link /\ stream' = stream /\ text' = text /\ op' = op
      /\ worker' = worker /\ sd' = sd /\ toMmc' = toMmc /\ m' = m /\ reads' = reads
      /\ out' = out
  BY <1>1 DEF mmc, api
<1>4. ~(t = "worker" /\ worker = "store")
  BY <1>1, NotUploading
<1>5. /\ link /\ m.data <= Len(toFpga)
      /\ \/ toMmc \in {ReadMessage} /\ toFpga = <<>>
         \/ /\ toMmc = <<>> /\ Giving /\ Len(Coming) >= 2 /\ Coming[2] \in Nat
            /\ Len(Coming) - 2 + stream.left = Coming[2]
  BY <1>1, <1>2 DEF Place, Waiting, Silent
<1>6. CASE m.data < 2
  <2>1. looked[t] /\ Again(t) /\ toFpga' = toFpga /\ lRet' = lRet
    BY <1>6 DEF ReadSize
  <2>2. todo' = todo /\ looked'[t] = FALSE /\ Do(t)' = Do(t) /\ Giving' = Giving
        /\ Waiting({ReadMessage})' = Waiting({ReadMessage}) /\ Coming' = Coming
    BY <1>2, <1>3, <2>1 DEF Again, Do, Giving, Waiting, Silent, Coming
  <2>3. Place(t)'
    BY <1>1, <1>2, <1>3, <1>6, <2>1, <2>2 DEF Place
  <2> QED
    BY <1>1, <1>2, <1>3, <2>1, <2>3, LookAgain
<1>7. CASE ~(m.data < 2)
  <2>1. /\ toFpga' = SubSeq(toFpga, 3, Len(toFpga)) /\ lRet' = [lRet EXCEPT ![t] = SubSeq(toFpga, 1, 2)]
        /\ Next1(t)
    BY <1>7 DEF ReadSize
  <2>2. toFpga # <<>> /\ Len(toFpga) >= 2
    BY <1>2, <1>5, <1>7
  <2>12. /\ Coming' \in Seq(AnyWord) /\ Len(Coming') = Len(Coming) - 2 /\ Coming[2] = toFpga[2]
    BY <1>2, <1>3, <2>1, <2>2, ComesAfter DEF Coming
  <2>3. /\ toMmc = <<>> /\ Giving /\ toFpga[2] \in Nat /\ Len(Coming) >= 2
        /\ Len(Coming) - 2 + stream.left = toFpga[2]
    BY <1>5, <2>2, <2>12
  <2>4. /\ SubSeq(toFpga, 1, 2) \in Seq(AnyWord) /\ Len(SubSeq(toFpga, 1, 2)) = 2
        /\ SubSeq(toFpga, 1, 2)[2] = toFpga[2]
        /\ SubSeq(toFpga, 3, Len(toFpga)) \in Seq(AnyWord)
        /\ Len(SubSeq(toFpga, 3, Len(toFpga))) = Len(toFpga) - 2
    BY <1>2, <2>2, HeaderRead
  <2>5. /\ lRet'[t] = SubSeq(toFpga, 1, 2) /\ lRet' \in [Threads -> Seq(AnyWord)]
        /\ todo'[t] = Tail(todo[t]) /\ looked'[t] = FALSE
    BY <1>2, <2>1, <2>4 DEF Next1
  <2>6. /\ Len(lRet'[t]) = 2 /\ lRet'[t][2] = toFpga[2] /\ toFpga' \in Seq(AnyWord)
    BY <2>1, <2>4, <2>5
  <2>7. Tail(todo[t]) # <<>> /\ Head(Tail(todo[t])).do = "words"
    <3>1. Tail(todo[t]) = <<>> => Ends(Head(todo[t]))
      BY <1>1, <1>2, PlanTail
    <3>2. Tail(todo[t]) # <<>> => Follows(Head(todo[t]), Head(Tail(todo[t])))
      BY <1>1, <1>2, PlanTail
    <3> QED
      BY <1>1, <1>2, <3>1, <3>2 DEF Ends, Follows
  <2>8. Do(t)' = "words"
    BY <2>5, <2>7 DEF Do
  <2>9. Len(lRet'[t]) - 2 + Len(Coming') + stream'.left = lRet'[t][2]
    <3>1. PICK a \in Nat, b \in Nat, c \in Nat : a = Len(Coming) /\ b = stream.left /\ c = toFpga[2] /\ a - 2 + b = c
      <4>1. Len(Coming) \in Nat /\ Len(toFpga) >= 2
        BY <1>1, <2>2, Acting
      <4> QED
        BY <1>2, <2>3, <4>1
    <3>2. 2 - 2 + (a - 2) + b = c
      BY <3>1
    <3> QED
      BY <1>3, <2>6, <2>12, <3>1, <3>2
  <2>10. Place(t)'
    BY <1>3, <1>5, <2>3, <2>5, <2>6, <2>8, <2>9 DEF Place, Giving, None
  <2>11. Len(reads') = Len(reads) /\ Do(t) # "words" /\ Do(t) # "terminate"
         /\ (t = "worker" /\ worker = "boot" => toMmc' = <<>>)
    BY <1>1, <1>3, <2>3
  <2> QED
    BY <1>1, <1>2, <1>3, <1>4, <2>1, <2>5, <2>6, <2>7, <2>10, <2>11, Advance
<1> QED
  BY <1>6, <1>7

(* Its words are read as they come.                                        *)
LEMMA WordsStep ==
    ASSUME SdInv, NEW t \in Threads, ReadWords(t), UNCHANGED <<api, worker>>
    PROVE  SdInv'
<1> DEFINE left == Size(lRet[t][2]) - (Len(lRet[t]) - 2)
           n == Min({left, m.data})
<1>1. Do(t) = "words" /\ UNCHANGED <<toMmc, mmc, m>> /\ todo[t] # <<>>
  BY DEF ReadWords, Do, None
<1>2. /\ Place(t) /\ todo[t] \in Seq(Steps) /\ Plan(todo[t]) /\ Do(t) = Head(todo[t]).do
      /\ toFpga \in Seq(AnyWord) /\ m.data \in Nat
      /\ todo \in [Threads -> Seq(Steps)] /\ looked \in [Threads -> BOOLEAN]
      /\ lRet \in [Threads -> Seq(AnyWord)] /\ m' \in [space : Nat, data : Nat]
      /\ reads \in Seq(Seq(AnyWord)) /\ stream.left \in Nat /\ lRet[t] \in Seq(AnyWord)
      /\ Len(toFpga) \in Nat /\ Len(lRet[t]) \in Nat /\ out \in Seq(AnyWord)
      /\ Len(Coming) = Len(toFpga) + Len(out) /\ Len(out) \in Nat /\ (Len(Coming) = 0 => Silent)
  <2>1. Len(out) \in Nat /\ (Len(Coming) = 0 => Silent)
    BY <1>1, Acting, ComingFacts DEF Coming, Silent
  <2> QED
    BY <1>1, <2>1, Acting DEF SdInv, SdTypeOK, Streams
<1>3. /\ UNCHANGED <<mmc, api, worker>> /\ link' = link /\ stream' = stream /\ text' = text /\ op' = op
      /\ worker' = worker /\ sd' = sd /\ toMmc' = toMmc /\ m' = m /\ out' = out
  BY <1>1 DEF mmc, api
<1>4. ~(t = "worker" /\ worker = "store")
  BY <1>1, NotUploading
<1>5. /\ link /\ toMmc = <<>> /\ Giving /\ Len(lRet[t]) >= 2 /\ lRet[t][2] \in Nat
      /\ Len(lRet[t]) - 2 + Len(Coming) + stream.left = lRet[t][2]
      /\ (looked[t] => m.data <= Len(toFpga))
  BY <1>1, <1>2 DEF Place
<1>6. left = Len(Coming) + stream.left /\ Size(lRet[t][2]) = lRet[t][2]
  <2>1. Size(lRet[t][2]) = lRet[t][2]
    BY <1>5 DEF Size
  <2>2. PICK a \in Nat, b \in Nat, c \in Nat, d \in Nat :
           a = Len(lRet[t]) /\ b = Len(Coming) /\ c = stream.left /\ d = lRet[t][2]
    BY <1>2, <1>5
  <2>3. d - (a - 2) = b + c
    BY <1>5, <2>2
  <2> QED
    BY <2>1, <2>2, <2>3
<1>7. CASE left = 0
  <2>1. Silent /\ stream.left = 0
    <3>1. Len(Coming) = 0 /\ stream.left = 0
      BY <1>2, <1>6, <1>7
    <3> QED
      BY <1>2, <3>1
  <2>2. toFpga' = toFpga /\ lRet' = lRet
    BY <1>7 DEF ReadWords
  <2>3. AtRest' /\ toMmc' = <<>> /\ toFpga' \in Seq(AnyWord) /\ lRet' \in [Threads -> Seq(AnyWord)]
    BY <1>2, <1>3, <1>5, <2>1, <2>2 DEF AtRest, Silent
  <2>4. CASE lRet[t][1] # 0
    <3>1. Threw(t) /\ reads' = reads
      BY <1>7, <2>4 DEF ReadWords, Flagged
    <3>2. toMmc' \in Image /\ Len(toMmc') < PipeSize
      BY <2>3, MmcFacts DEF Image
    <3> QED
      BY <1>1, <1>2, <1>3, <1>5, <2>1, <2>3, <3>1, <3>2, ThrowKeeps
  <2>5. CASE lRet[t][1] = 0
    <3>1. Next1(t) /\ reads' = Append(reads, SubSeq(lRet[t], 3, Len(lRet[t])))
      BY <1>7, <2>5 DEF ReadWords, Flagged
    <3>2. SubSeq(lRet[t], 3, Len(lRet[t])) \in Seq(AnyWord)
      BY <1>2, <1>5, HeaderRead
    <3>3. reads' \in Seq(Seq(AnyWord)) /\ Len(reads') = Len(reads) + 1
      BY <1>2, <3>1, <3>2
    <3>4. Tail(todo[t]) # <<>> => Place(t)'
      BY <1>1, <1>3, <1>5, <2>3, <3>1, RestsNext
    <3> QED
      BY <1>1, <1>2, <1>3, <1>4, <1>5, <2>3, <3>1, <3>3, <3>4, Advance
  <2> QED
    BY <2>4, <2>5
<1>8. CASE left # 0
  <2>1. /\ looked[t] /\ toFpga' = SubSeq(toFpga, n + 1, Len(toFpga))
        /\ lRet' = [lRet EXCEPT ![t] = lRet[t] \o SubSeq(toFpga, 1, n)]
        /\ Again(t) /\ reads' = reads
    BY <1>8 DEF ReadWords
  <2>2. n \in 0 .. Len(toFpga)
    <3>1. left \in Nat
      BY <1>2, <1>6
    <3> HIDE DEF left
    <3>2. n \in Nat /\ n <= m.data
      BY <1>2, <3>1, LesserOf
    <3> QED
      BY <1>2, <1>5, <2>1, <3>2
  <2> HIDE DEF n, left
  <2>3. /\ SubSeq(toFpga, n + 1, Len(toFpga)) \in Seq(AnyWord)
        /\ Len(SubSeq(toFpga, n + 1, Len(toFpga))) = Len(toFpga) - n
        /\ lRet[t] \o SubSeq(toFpga, 1, n) \in Seq(AnyWord)
        /\ Len(lRet[t] \o SubSeq(toFpga, 1, n)) = Len(lRet[t]) + n
        /\ \A k \in 1 .. Len(lRet[t]) : (lRet[t] \o SubSeq(toFpga, 1, n))[k] = lRet[t][k]
    BY <1>2, <2>2, AllRead
  <2>4. lRet'[t] = lRet[t] \o SubSeq(toFpga, 1, n)
    BY <1>2, <2>1
  <2>5. lRet' \in [Threads -> Seq(AnyWord)]
    BY <1>2, <2>1, <2>3, <2>4
  <2>6. 2 \in 1 .. Len(lRet[t])
    BY <1>2, <1>5
  <2>11. Len(Coming') = Len(Coming) - n
    <3>1. toFpga' \in Seq(AnyWord) /\ Len(toFpga') = Len(toFpga) - n
      BY <2>1, <2>3
    <3>2. Len(Coming') = Len(toFpga') + Len(out)
      BY <1>2, <1>3, <3>1, ComingFacts DEF Coming
    <3> QED
      BY <1>2, <2>2, <3>1, <3>2
  <2>7. /\ toFpga' \in Seq(AnyWord) /\ Len(lRet'[t]) = Len(lRet[t]) + n
        /\ lRet'[t][2] = lRet[t][2]
    BY <2>1, <2>3, <2>4, <2>6, Zenon
  <2>8. Len(lRet'[t]) >= 2 /\ Len(lRet'[t]) - 2 + Len(Coming') + stream'.left = lRet'[t][2]
    <3>1. PICK a \in Nat, b \in Nat, c \in Nat, d \in Nat :
             a = Len(lRet[t]) /\ b = Len(Coming) /\ c = stream.left /\ d = lRet[t][2]
      BY <1>2, <1>5
    <3>2. a - 2 + b + c = d /\ a >= 2 /\ n \in Nat
      BY <1>5, <2>2, <3>1
    <3>3. (a + n) - 2 + (b - n) + c = d /\ a + n >= 2
      BY <3>2
    <3> QED
      BY <1>3, <2>7, <2>11, <3>1, <3>3
  <2>9. Do(t)' = "words" /\ looked'[t] = FALSE
    BY <1>1, <1>2, <2>1 DEF Again, Do
  <2>10. Place(t)'
    BY <1>3, <1>5, <2>7, <2>8, <2>9 DEF Place, Giving, None
  <2> QED
    BY <1>1, <1>2, <1>3, <2>1, <2>5, <2>7, <2>10, LookAgain
<1> QED
  BY <1>7, <1>8

(* The link goes down where it is expected to.                             *)
LEMMA LinkSteps ==
    ASSUME SdInv, NEW t \in Threads, LinkDown(t) \/ LinkBack(t), UNCHANGED <<api, worker>>
    PROVE  SdInv'
<1>1. /\ Do(t) # None /\ UNCHANGED <<fifos, mmc, lRet, reads>> /\ todo[t] # <<>>
      /\ Do(t) \in Looks \/ Do(t) = "back"
  BY DEF LinkDown, LinkBack, Do, None, Looks
<1>2. /\ Place(t) /\ todo[t] \in Seq(Steps) /\ Plan(todo[t]) /\ Do(t) = Head(todo[t]).do
      /\ toFpga \in Seq(AnyWord)
      /\ todo \in [Threads -> Seq(Steps)] /\ looked \in [Threads -> BOOLEAN]
      /\ lRet' \in [Threads -> Seq(AnyWord)] /\ m \in [space : Nat, data : Nat]
      /\ reads' \in Seq(Seq(AnyWord))
  BY <1>1, Acting DEF SdInv, SdTypeOK, Streams
<1>3. /\ UNCHANGED <<mmc, api, worker>> /\ link' = link /\ stream' = stream /\ text' = text /\ op' = op
      /\ worker' = worker /\ sd' = sd /\ toMmc' = toMmc /\ toFpga' = toFpga /\ reads' = reads
      /\ out' = out
  BY <1>1 DEF mmc, api, fifos
<1>4. CASE LinkDown(t)
  <2>1. Do(t) = "caught" /\ ~link
    BY <1>1, <1>2, <1>4 DEF LinkDown, Place, Looks, None
  <2>2. AtRest /\ AtRest' /\ toMmc' = <<>>
    BY <1>2, <1>3, <2>1 DEF Place, AtRest, Silent
  <2>3. Next1(t) /\ m' = m
    BY <1>4, <2>1 DEF LinkDown
  <2>4. Tail(todo[t]) # <<>> /\ Head(Tail(todo[t])).do = "back"
    <3>1. Tail(todo[t]) = <<>> => Ends(Head(todo[t]))
      BY <1>1, <1>2, PlanTail
    <3>2. Tail(todo[t]) # <<>> => Follows(Head(todo[t]), Head(Tail(todo[t])))
      BY <1>1, <1>2, PlanTail
    <3> QED
      BY <1>2, <2>1, <3>1, <3>2 DEF Ends, Follows
  <2>5. Do(t)' = "back" /\ looked'[t] = FALSE
    BY <1>2, <2>3, <2>4 DEF Next1, Do
  <2>6. Place(t)'
    BY <2>2, <2>5 DEF Place, None
  <2>7. ~(t = "worker" /\ worker = "store")
    BY <2>1, NotUploading
  <2>8. m' \in [space : Nat, data : Nat] /\ toFpga' \in Seq(AnyWord) /\ Len(reads') = Len(reads)
    BY <1>2, <1>3, <2>3
  <2> QED
    BY <1>1, <1>2, <1>3, <2>1, <2>2, <2>3, <2>4, <2>6, <2>7, <2>8, Advance
<1>5. CASE LinkBack(t)
  <2>1. Do(t) = "back" /\ link /\ Next1(t)
        /\ m' = [space |-> PipeSize - 1 - Level(toMmc), data |-> Level(toFpga)]
    BY <1>5 DEF LinkBack
  <2>2. AtRest /\ AtRest' /\ toMmc' = <<>>
    BY <1>2, <1>3, <2>1 DEF Place, AtRest, Silent
  <2>3. m' \in [space : Nat, data : Nat]
    <3>1. Len(toMmc) = 0 /\ Len(toFpga) = 0
      BY <2>2 DEF AtRest, Silent
    <3>2. Level(toMmc) = 0 /\ Level(toFpga) = 0 /\ PipeSize \in Nat /\ PipeSize > 3
      BY <3>1, LevelFacts, MmcFacts
    <3> QED
      BY <2>1, <3>2
  <2>4. Tail(todo[t]) # <<>> => Place(t)'
    BY <1>3, <2>1, <2>2, RestsNext
  <2>5. ~(t = "worker" /\ worker = "store")
    BY <2>1, NotUploading
  <2>6. toFpga' \in Seq(AnyWord) /\ Len(reads') = Len(reads)
    BY <1>2, <1>3
  <2> QED
    BY <1>1, <1>2, <1>3, <2>1, <2>2, <2>3, <2>4, <2>5, <2>6, Advance
<1> QED
  BY <1>4, <1>5

(* A step of a thread.                                                     *)
LEMMA ThreadStep ==
    ASSUME SdInv, NEW t \in Threads, MovesOf(t), ~torn'
    PROVE  SdInv'
BY LookStep, SendStep, HeaderStep, ChunkStep, ReceiveStep, PayloadStep, SizeStep, WordsStep, LinkSteps
   DEF MovesOf, PipeStep

threads == <<todo, looked, m, torn, lRet, reads>>

(* What the microcontroller does leaves the threads as they are.           *)
LEMMA MmcKeeps ==
    ASSUME SdInv, NEW t \in Threads, todo[t] # <<>>, UNCHANGED <<threads, api, worker>>,
           Place(t)', toFpga' \in Seq(AnyWord), link' \in BOOLEAN, image' \in Images, out' \in Seq(AnyWord),
           DOMAIN sd' \subseteq Images, \A x \in DOMAIN sd' : sd'[x] \in Image, stream' \in Streams,
           t = "worker" /\ worker = "store" /\ Do(t) # "terminate" => OnTheCard(todo[t])',
           t = "worker" /\ worker = "boot" => (toMmc' = <<>> \/ toMmc' = toMmc) /\ (InMemory => InMemory')
    PROVE  SdInv'
<1>1. /\ \A u \in Threads : u # t => todo[u] = <<>> /\ ~looked[u]
      /\ Threads = {"caller", "worker"} /\ UNCHANGED <<todo, looked, m, torn, lRet, reads>>
      /\ op' = op /\ file' = file /\ numUploadingFpga' = numUploadingFpga /\ worker' = worker
  BY Acting DEF Threads, threads, api
<1>2. SdTypeOK'
  BY <1>1 DEF SdInv, SdTypeOK, Streams
<1>3. Turn'
  BY <1>1 DEF SdInv, Turn
<1>4. Protocol'
  <2>1. \A u \in Threads : todo'[u] # <<>> => u = t
    BY <1>1
  <2>2. \A u \in Threads : Plan(todo'[u])
    BY <1>1 DEF SdInv, Protocol
  <2> QED
    BY <1>1, <2>1, <2>2 DEF Protocol
<1>5. Do("worker")' = Do("worker")
  BY <1>1 DEF Do
<1>6. t = "worker" \/ (t = "caller" /\ worker \in {"none", "done"})
  BY <1>1, Acting
<1>7. Uploads' /\ Booting' /\ Fetches'
  BY <1>1, <1>5, <1>6 DEF SdInv, Uploads, Booting, Fetches
<1>8. Booted'
  <2>1. worker = "done" => op.name # "upload"
    <3> SUFFICES ASSUME worker = "done" PROVE op.name # "upload"
      OBVIOUS
    <3>1. t = "caller"
      BY <1>6, Acting
    <3> QED
      BY <3>1 DEF SdInv, Turn
  <2>2. worker = "boot" => t = "worker"
    BY <1>6
  <2> QED
    BY <1>1, <2>1, <2>2 DEF SdInv, Booted
<1>9. Filed' /\ FileRight'
  <2>1. ~(file # <<>> /\ op.name = "download")
    BY DEF SdInv, Filed
  <2> QED
    BY <1>1, <2>1 DEF Filed, FileRight
<1> QED
  BY <1>2, <1>3, <1>4, <1>7, <1>8, <1>9 DEF SdInv

(* Whose message the microcontroller finds, and which it can be.           *)
LEMMA MessageTaken ==
    ASSUME SdInv, Ready
    PROVE  /\ Silent /\ stream.left = 0 /\ link
           /\ \E t \in Threads :
                 /\ todo[t] # <<>>
                 /\ \/ Do(t) = "receive" /\ ~LastReceive(t) /\ toMmc \in Messages
                    \/ Do(t) = "size" /\ toMmc = ReadMessage
                    \/ Do(t) = "caught" /\ toMmc \in BootMessages
                    \/ /\ t = "worker" /\ worker = "store" /\ Storing /\ ToBeStored(Len(lRet[t]))
                       /\ Do(t) = "chunks" \/ (Do(t) = "receive" /\ LastReceive(t))
<1>1. link /\ stream = Nothing /\ stream.left = 0 /\ Len(toMmc) >= 2 /\ toMmc[1] \in Commands /\ toMmc # <<>>
  BY DEF Ready, Message, Nothing
<1>2. PICK t \in Threads : todo[t] # <<>>
  BY <1>1 DEF SdInv, Protocol, AtRest
<1>3. /\ Place(t) /\ todo[t] \in Seq(Steps) /\ Do(t) = Head(todo[t]).do
  BY <1>2, Acting
<1>4. toMmc \notin Image
  <2> SUFFICES ASSUME toMmc \in Image PROVE FALSE
    OBVIOUS
  <2>1. 1 \in 1 .. Len(toMmc) /\ toMmc \in Seq({GoodWord})
    BY <1>1 DEF Image
  <2>2. toMmc[1] = GoodWord
    BY <2>1
  <2> QED
    BY <1>1, <2>2, WordsAssumption
<1>5. Storing => ToBeStored(Len(lRet["worker"])) /\ Silent
  BY <1>1, <1>4 DEF Storing, ToBeStored, BeingStored, HasStored, RefusedToStore
<1>6. \/ Do(t) \in {"send", "payload"} \/ Do(t) \in Plain
  <2>1. Head(todo[t]) \in Steps
    BY <1>2, <1>3
  <2> QED
    BY <1>3, <2>1 DEF Steps
<1>7. Do(t) \notin {"send", "header", "start", "back", "payload", "words", "terminate"}
  BY <1>1, <1>3, <1>4 DEF Place, AtRest
<1>8. CASE Do(t) = "receive"
  BY <1>1, <1>2, <1>3, <1>5, <1>8 DEF Place, Waiting, Replied, LastReceive
<1>9. CASE Do(t) = "chunks"
  <2>1. Storing /\ t = "worker"
    BY <1>3, <1>9 DEF Place
  <2>2. worker = "store" /\ ToBeStored(Len(lRet["worker"])) /\ Silent
    BY <1>5, <2>1 DEF Storing
  <2> QED
    BY <1>1, <1>2, <1>9, <2>1, <2>2
<1>10. CASE Do(t) = "size"
  BY <1>1, <1>2, <1>3, <1>10 DEF Place, Waiting
<1>11. CASE Do(t) = "caught"
  BY <1>1, <1>2, <1>3, <1>11 DEF Place
<1> QED
  BY <1>6, <1>7, <1>8, <1>9, <1>10, <1>11 DEF Plain

(* A reply comes as a whole when nothing came before.                      *)
LEMMA Replying ==
    ASSUME NEW words \in Seq(AnyWord), Reply(words), Silent
    PROVE  Coming' = words /\ out' = words /\ toFpga' = <<>>
<1>1. <<>> \o words = words
  OBVIOUS
<1> QED
  BY <1>1 DEF Reply, Silent, Coming

(* The replies there can be.                                               *)
Fits(words) == /\ words \in Seq(AnyWord) /\ Len(words) >= 2 /\ words[2] \in Nat
               /\ Len(words) = 2 + words[2]
               /\ \A k \in 3 .. Len(words) : words[k] # 0
LEMMA Replies ==
    ASSUME SdInv
    PROVE  /\ Fits(Ok) /\ Fits(Error) /\ Fits(<< 0, 1, image >>)
           /\ Fits(<< 0, Cardinality(DOMAIN sd) >> \o SetToSeq(DOMAIN sd))
           /\ Len(Ok) = 2 /\ Error[1] = 1
<1>1. image \in Images /\ \A x \in Images : x # 0
  <2>1. \A x \in Images : x \notin Nat
    BY WordsAssumption
  <2> QED
    BY <2>1 DEF SdInv, SdTypeOK
<1>2. Fits(Ok) /\ Fits(Error) /\ Fits(<< 0, 1, image >>) /\ Len(Ok) = 2 /\ Error[1] = 1
  <2>1. Ok \in Seq(AnyWord) /\ Error \in Seq(AnyWord) /\ << 0, 1, image >> \in Seq(AnyWord)
    BY <1>1 DEF Ok, Error, AnyWord
  <2>2. Len(Ok) = 2 /\ Ok[2] = 0 /\ Len(Error) = 3 /\ Error[2] = 1 /\ Error[1] = 1
        /\ Len(<< 0, 1, image >>) = 3 /\ << 0, 1, image >>[2] = 1
    BY DEF Ok, Error
  <2>3. \A k \in 3 .. 3 : << 0, 1, image >>[k] # 0
    BY <1>1
  <2>4. \A k \in 3 .. 2 : Ok[k] # 0
    OBVIOUS
  <2>5. \A k \in 3 .. 3 : Error[k] # 0
    BY ErrorReply
  <2> QED
    BY <2>1, <2>2, <2>3, <2>4, <2>5 DEF Fits
<1>3. Fits(<< 0, Cardinality(DOMAIN sd) >> \o SetToSeq(DOMAIN sd))
  <2> DEFINE S == DOMAIN sd
             a == << 0, Cardinality(S) >>
             b == SetToSeq(S)
  <2>1. S \subseteq Images
    BY DEF SdInv, SdTypeOK
  <2>2. IsFiniteSet(S) /\ Cardinality(S) \in Nat
    BY <2>1, MmcFacts
  <2>3. b \in Seq(S) /\ Len(b) = Cardinality(S)
    BY <2>2, NamesInOrder
  <2>4. b \in Seq(AnyWord) /\ b \in Seq(Images)
    BY <2>1, <2>3 DEF AnyWord
  <2>5. a \in Seq(AnyWord) /\ Len(a) = 2 /\ a[2] = Cardinality(S)
    BY <2>2 DEF AnyWord
  <2> HIDE DEF a, b, S
  <2>6. /\ a \o b \in Seq(AnyWord) /\ Len(a \o b) = Len(a) + Len(b)
        /\ \A k \in 1 .. Len(a) + Len(b) : (a \o b)[k] = IF k <= Len(a) THEN a[k] ELSE b[k - Len(a)]
    BY <2>4, <2>5, Joined, Zenon
  <2>7. Len(a \o b) = 2 + Cardinality(S) /\ (a \o b)[2] = Cardinality(S)
    <3>1. Len(a) = 2 /\ Len(b) = Cardinality(S) /\ Cardinality(S) \in Nat
      BY <2>2, <2>3, <2>5
    <3>2. 2 \in 1 .. Len(a) + Len(b) /\ 2 <= Len(a)
      BY <3>1
    <3> QED
      BY <2>5, <2>6, <3>1, <3>2
  <2>8. \A k \in 3 .. Len(a \o b) : (a \o b)[k] # 0
    <3> TAKE k \in 3 .. Len(a \o b)
    <3>1. k \in 1 .. Len(a) + Len(b) /\ ~(k <= Len(a)) /\ k - Len(a) \in 1 .. Len(b)
      BY <2>2, <2>3, <2>5, <2>6
    <3>2. b[k - Len(a)] \in Images
      BY <2>4, <3>1
    <3> QED
      BY <1>1, <2>6, <3>1, <3>2
  <2> QED
    BY <2>2, <2>6, <2>7, <2>8 DEF a, b, S, Fits
<1> QED
  BY <1>2, <1>3

(* What an upload awaits from a message is the name of its image.          *)
LEMMA NameAwaited ==
    ASSUME SdInv, todo["worker"] # <<>>, worker = "store", Do("worker") = "receive", ~LastReceive("worker"),
           toMmc # <<>>
    PROVE  Len(todo["worker"]) = 4 /\ toMmc = << "text", 1, op.image >>
<1> DEFINE s == todo["worker"]
<1>1. "worker" \in Threads
  BY DEF Threads
<1>2. s \in Seq(Steps) /\ Head(s).do = "receive"
  BY <1>1, Acting
<1>3. UploadSteps(op.image, s) /\ OnTheCard(s)
  BY DEF SdInv, Uploads
<1>4. UploadStep(op.image, Head(s), Len(s) - 1) /\ Len(s) \in Nat \ {0}
  BY <1>2, <1>3, NextOfPlan
<1>5. Len(s) - 1 \in {0, 3} /\ Len(s) # 1
  BY <1>2, <1>4 DEF UploadStep, Send, LastReceive
<1>6. Len(s) = 4
  BY <1>4, <1>5
<1>7. toMmc = << "text", 1, op.image >>
  BY <1>3, <1>6 DEF OnTheCard
<1> QED
  BY <1>6, <1>7

(* A message is answered.                                                  *)
LEMMA Answered ==
    ASSUME SdInv, Ready, Command, UNCHANGED <<threads, api, worker>>,
           NEW t \in Threads, todo[t] # <<>>, Do(t) = "receive", ~LastReceive(t), toMmc \in Messages
    PROVE  SdInv'
<1>1. /\ Place(t) /\ m.data \in Nat /\ link /\ Silent /\ stream.left = 0 /\ stream = Nothing
      /\ (t = "worker" => worker \notin {"none", "done"})
  BY Acting, MessageTaken DEF Ready
<1>2. toMmc[1] \in {"text", "secure", "get text", "delete", "list"}
      /\ (toMmc[1] = "text" => toMmc[3] \in Images /\ toMmc = << "text", 1, toMmc[3] >>)
  BY TheMessages
<1>3. toMmc' = <<>>
  <2>1. SubSeq(toMmc, 3 + toMmc[2], Len(toMmc)) = <<>> /\ toMmc[1] # "store"
    BY MessageFacts
  <2> QED
    BY <2>1 DEF Command, Rest
<1>4. \/ toMmc[1] = "text" /\ text' = toMmc[3] /\ Reply(Ok) /\ UNCHANGED <<image, sd, stream, link>>
      \/ toMmc[1] = "delete" /\ sd' = [x \in DOMAIN sd \ {text} |-> sd[x]] /\ Reply(Ok)
         /\ UNCHANGED <<image, text, stream, link>>
      \/ /\ toMmc[1] # "text"
         /\ \/ Reply(Ok) \/ Reply(Error)
            \/ /\ toMmc[1] \in Texts
               /\ \/ Reply(<< 0, 1, image >>)
                  \/ Reply(<< 0, Cardinality(DOMAIN sd) >> \o SetToSeq(DOMAIN sd))
         /\ UNCHANGED <<image, sd, text, stream, link>>
  BY <1>2 DEF Command, Refuse, Texts
<1>5. PICK words \in {Ok, Error, << 0, 1, image >>, << 0, Cardinality(DOMAIN sd) >> \o SetToSeq(DOMAIN sd)} :
        Reply(words) /\ (words \in {Ok, Error} \/ toMmc[1] \in Texts)
  BY <1>4
<1>6. Fits(words) /\ (words[1] # 0 \/ Len(words) = 2 \/ toMmc[1] \in Texts)
  <2>1. 1 # 0
    OBVIOUS
  <2> QED
    BY <1>5, <2>1, Replies, Zenon
<1>7. Coming' = words /\ out' = words /\ toFpga' = <<>> /\ words \in Seq(AnyWord)
  BY <1>1, <1>5, <1>6, Replying DEF Fits
<1>8. /\ UNCHANGED <<image, stream, link>> /\ todo' = todo /\ looked' = looked /\ m' = m /\ worker' = worker
      /\ lRet' = lRet /\ op' = op /\ stream'.left = 0
  BY <1>1, <1>4 DEF threads, api
<1>9. Replied'
  BY <1>3, <1>6, <1>7, <1>8 DEF Replied, Fits
<1>10. Place(t)'
  <2>1. Do(t)' = "receive" /\ ~LastReceive(t)' /\ Len(toFpga') = 0
    BY <1>7, <1>8 DEF Do, LastReceive
  <2>2. looked[t] => m.data = 0
    BY <1>1 DEF Place, Silent
  <2>4. Closing(t)'
    <3>1. Closing(t) /\ toMmc # <<>>
      <4>1. toMmc # <<>>
        BY MessageFacts
      <4> QED
        BY <1>1, <4>1 DEF Place
    <3>2. toMmc[1] \in Texts => LastOfAll(t)
      BY <3>1 DEF Closing
    <3>3. LastOfAll(t)' = LastOfAll(t)
      BY <1>8 DEF LastOfAll
    <3>4. Len(words) > 2 => Len(words) # 2
      BY <1>7
    <3> QED
      BY <1>3, <1>6, <1>7, <3>2, <3>3, <3>4 DEF Closing
  <2>3. looked'[t] => m'.data <= Len(toFpga')
    BY <1>8, <2>1, <2>2
  <2> QED
    BY <1>1, <1>8, <1>9, <2>1, <2>3, <2>4 DEF Place, None
<1>11. /\ DOMAIN sd' \subseteq Images /\ \A x \in DOMAIN sd' : sd'[x] \in Image
  BY <1>4 DEF SdInv, SdTypeOK, Streams
<1>12. t = "worker" /\ worker = "store" => OnTheCard(todo[t])'
  <2> SUFFICES ASSUME t = "worker", worker = "store" PROVE OnTheCard(todo[t])'
    OBVIOUS
  <2>1. toMmc # <<>>
    BY <1>2, MessageFacts
  <2>2. Len(todo[t]) = 4 /\ toMmc = << "text", 1, op.image >>
    BY <2>1, NameAwaited
  <2>3. toMmc[1] = "text" /\ toMmc[3] = op.image
    BY <2>2
  <2>4. text' = op'.image
    BY <1>4, <1>8, <2>3
  <2>5. Len(todo'[t]) = 4 /\ Len(todo'[t]) # 1 /\ todo'[t] # <<>>
    BY <1>8, <2>2
  <2> QED
    BY <1>3, <2>4, <2>5, Zenon DEF OnTheCard
<1>13. t = "worker" /\ worker = "boot" => (InMemory => InMemory')
  <2> SUFFICES ASSUME t = "worker", worker = "boot" PROVE InMemory => InMemory'
    OBVIOUS
  <2>1. toMmc # <<>>
    BY <1>2, MessageFacts
  <2>2. toMmc[1] # "delete"
    BY <2>1 DEF SdInv, Booting
  <2>3. sd' = sd
    BY <1>4, <2>2
  <2> QED
    BY <1>8, <2>3 DEF InMemory
<1>14. image' \in Images /\ link' \in BOOLEAN /\ stream' \in Streams /\ toFpga' \in Seq(AnyWord)
  BY <1>1, <1>7, <1>8 DEF SdInv, SdTypeOK, Streams
<1> QED
  BY <1>3, <1>7, <1>10, <1>11, <1>12, <1>13, <1>14, MmcKeeps

(* An image is to be read, or cannot be.                                   *)
LEMMA ReadTaken ==
    ASSUME SdInv, Ready, Command, UNCHANGED <<threads, api, worker>>,
           NEW t \in Threads, todo[t] # <<>>, Do(t) = "size", toMmc = ReadMessage
    PROVE  SdInv'
<1>1. /\ Place(t) /\ m.data \in Nat /\ link /\ Silent /\ stream.left = 0
      /\ DOMAIN sd \subseteq Images /\ \A x \in DOMAIN sd : sd[x] \in Image
  BY Acting, MessageTaken DEF Ready, SdInv, SdTypeOK, Streams
<1>2. toMmc[1] = "read" /\ toMmc' = <<>>
  <2>1. toMmc \in Messages \cup {ReadMessage} \cup BootMessages /\ toMmc[1] = "read"
    BY DEF ReadMessage
  <2>2. SubSeq(toMmc, 3 + toMmc[2], Len(toMmc)) = <<>>
    BY <2>1, MessageFacts
  <2> QED
    BY <2>1, <2>2 DEF Command, Rest
<1>3. \/ Reply(Error) /\ UNCHANGED <<image, sd, text, stream, link>>
      \/ /\ text \in DOMAIN sd /\ stream' = [image |-> text, left |-> Len(sd[text]), giving |-> TRUE]
         /\ Reply(<< 0, Len(sd[text]) >>) /\ UNCHANGED <<image, sd, text, link>>
  BY <1>2 DEF Command, Refuse
<1>4. /\ todo' = todo /\ looked' = looked /\ m' = m /\ worker' = worker /\ lRet' = lRet /\ op' = op
      /\ UNCHANGED <<image, sd, link>> /\ Do(t)' = "size"
  BY <1>3 DEF threads, api, Do
<1>5. /\ Giving' /\ toFpga' = <<>> /\ Len(Coming') >= 2 /\ Coming'[2] \in Nat
      /\ Len(Coming') - 2 + stream'.left = Coming'[2] /\ stream' \in Streams /\ out' \in Seq(AnyWord)
  <2>1. CASE Reply(Error) /\ UNCHANGED <<image, sd, text, stream, link>>
    <3>1. Error \in Seq(AnyWord) /\ Len(Error) = 3 /\ Error[2] = 1
      BY DEF Error, AnyWord
    <3>2. Coming' = Error /\ out' = Error /\ toFpga' = <<>>
      BY <1>1, <2>1, <3>1, Replying
    <3>3. stream'.left = 0
      BY <1>1, <2>1
    <3>4. Giving'
      BY <3>3 DEF Giving
    <3>5. out' \in Seq(AnyWord) /\ Len(Coming') = 3 /\ Coming'[2] = 1 /\ toFpga' = <<>>
      BY <3>1, <3>2, Zenon
    <3>6. stream' \in Streams
      BY <2>1 DEF SdInv, SdTypeOK
    <3> QED
      BY <3>3, <3>4, <3>5, <3>6
  <2>2. CASE /\ text \in DOMAIN sd /\ stream' = [image |-> text, left |-> Len(sd[text]), giving |-> TRUE]
             /\ Reply(<< 0, Len(sd[text]) >>) /\ UNCHANGED <<image, sd, text, link>>
    <3>1. Len(sd[text]) \in Nat
      BY <1>1, <2>2 DEF Image
    <3> PICK n \in Nat : n = Len(sd[text])
      BY <3>1
    <3>2. /\ << 0, n >> \in Seq(AnyWord)
          /\ Len(<< 0, n >>) = 2 /\ << 0, n >>[2] = n
      BY DEF AnyWord
    <3>3. /\ stream'.left = n /\ stream'.giving /\ stream'.image = text
          /\ sd' = sd /\ Reply(<< 0, n >>)
      BY <1>1, <2>2
    <3>6. Coming' = << 0, n >> /\ out' = << 0, n >> /\ toFpga' = <<>>
      BY <1>1, <3>2, <3>3, Replying
    <3>4. Giving'
      BY <2>2, <3>3 DEF Giving
    <3>5. stream' \in Streams
      BY <1>1, <2>2, <3>1 DEF Streams
    <3> QED
      BY <3>2, <3>3, <3>4, <3>5, <3>6
  <2> QED
    BY <1>3, <2>1, <2>2
<1>6. Place(t)'
  <2>1. m'.data <= Len(toFpga') /\ m'.data < 2
    BY <1>1, <1>4, <1>5 DEF Place, Silent
  <2> QED
    BY <1>1, <1>2, <1>4, <1>5, <2>1 DEF Place, None
<1>7. ~(t = "worker" /\ worker = "store")
  BY NotUploading
<1>9. toFpga' \in Seq(AnyWord)
  BY <1>5
<1>8. (InMemory => InMemory') /\ link' \in BOOLEAN /\ image' \in Images
  BY <1>1, <1>4 DEF InMemory, SdInv, SdTypeOK, Streams
<1> QED
  BY <1>1, <1>2, <1>4, <1>5, <1>6, <1>7, <1>8, <1>9, MmcKeeps

(* The words after the header of an image.                                 *)
LEMMA AfterHeader ==
    ASSUME NEW q \in Seq(AnyWord), NEW w \in Nat, Len(q) = 2 + w, \A k \in 3 .. Len(q) : q[k] = GoodWord
    PROVE  SubSeq(q, 3, Len(q)) \in Image /\ Len(SubSeq(q, 3, Len(q))) = w
<1> DEFINE r == SubSeq(q, 3, Len(q))
<1>1. r \in Seq(AnyWord) /\ Len(r) = w /\ \A k \in 1 .. w : r[k] = q[k + 2]
  OBVIOUS
<1>2. \A k \in 1 .. w : k + 2 \in 3 .. Len(q)
  OBVIOUS
<1>3. \A k \in 1 .. w : r[k] \in {GoodWord}
  BY <1>1, <1>2
<1> HIDE DEF r
<1>4. r \in Seq({GoodWord})
  BY <1>1, <1>3
<1> QED
  BY <1>1, <1>4 DEF r, Image

(* What an upload has to know of where it is, whichever of its last two    *)
(* steps it does.                                                          *)
LEMMA StoringGoesOn ==
    ASSUME SdInv, todo["worker"] # <<>>, worker = "store", UNCHANGED <<threads, api, worker>>,
           Storing, Silent, stream' \in Streams,
           Do("worker") = "chunks" \/ (Do("worker") = "receive" /\ LastReceive("worker")),
           Storing', toFpga' \in Seq(AnyWord), Len(toMmc') \in Nat, Len(toMmc') <= Len(toMmc),
           UNCHANGED <<link, image, text>>, out' \in Seq(AnyWord),
           DOMAIN sd' \subseteq Images, \A x \in DOMAIN sd' : sd'[x] \in Image
    PROVE  SdInv'
<1> DEFINE t == "worker"
<1>1. t \in Threads
  BY DEF Threads
<1>2. /\ Place(t) /\ todo[t] \in Seq(Steps) /\ Do(t) = Head(todo[t]).do /\ m.data \in Nat /\ m.space \in Nat
      /\ Len(toMmc) \in Nat /\ PipeSize \in Nat /\ Len(toFpga') \in Nat
  BY <1>1, Acting, InTheFifo, MmcFacts
<1>3. /\ todo' = todo /\ looked' = looked /\ m' = m /\ lRet' = lRet /\ op' = op /\ worker' = worker /\ link' = link
      /\ text' = text /\ Do(t)' = Do(t) /\ LastReceive(t)' = LastReceive(t)
  BY DEF threads, api, Do, LastReceive
<1>4. Len(toFpga) = 0 /\ ~RefusedToStore /\ link
  BY <1>2, NothingComes DEF Silent, RefusedToStore, Place
<1>5. looked[t] => m.data = 0
  BY <1>2, <1>4 DEF Place
<1>6. Place(t)'
  <2>1. CASE Do(t) = "chunks"
    <3>1. Len(lRet[t]) < TotalSize /\ (looked[t] => m.space + Len(toMmc) < PipeSize)
      BY <1>2, <2>1 DEF Place
    <3>2. looked'[t] => m'.data <= Len(toFpga') /\ m'.space + Len(toMmc') < PipeSize
      BY <1>2, <1>3, <1>5, <3>1
    <3>3. Do(t)' = "chunks" /\ Len(lRet'[t]) < TotalSize
      BY <1>3, <2>1, <3>1
    <3> QED
      BY <1>3, <1>4, <3>2, <3>3 DEF Place, None
  <2>2. CASE Do(t) = "receive" /\ LastReceive(t)
    <3>1. Len(lRet[t]) = TotalSize
      BY <1>2, <1>4, <2>2 DEF Place
    <3>2. looked'[t] => m'.data <= Len(toFpga')
      BY <1>2, <1>3, <1>5
    <3>3. Do(t)' = "receive" /\ LastReceive(t)' /\ Len(lRet'[t]) = TotalSize
      BY <1>3, <2>2, <3>1
    <3> QED
      BY <1>3, <1>4, <3>2, <3>3 DEF Place, None
  <2> QED
    BY <2>1, <2>2
<1>7. OnTheCard(todo[t])'
  <2>1. UploadSteps(op.image, todo[t]) /\ OnTheCard(todo[t])
    BY DEF SdInv, Uploads
  <2>2. Len(todo[t]) \in Nat /\ (Do(t) = "chunks" => Len(todo[t]) - 1 = 1)
    <3>1. UploadStep(op.image, Head(todo[t]), Len(todo[t]) - 1)
      BY <1>2, <2>1, NextOfPlan
    <3> QED
      BY <1>2, <3>1 DEF UploadStep, Send
  <2>3. Len(todo[t]) \in {1, 2}
    BY <2>2 DEF LastReceive
  <2>4. text = op.image
    <3>1. \A n \in {1, 2} : n <= 3
      OBVIOUS
    <3>2. Len(todo[t]) <= 3
      BY <2>3, <3>1, Zenon
    <3> QED
      BY <2>1, <3>2 DEF OnTheCard
  <2>5. Len(todo'[t]) <= 3 /\ Len(todo'[t]) # 4 /\ text' = op'.image
    <3>1. \A n \in {1, 2} : n <= 3 /\ n # 4
      OBVIOUS
    <3> QED
      BY <1>3, <2>3, <2>4, <3>1, Zenon
  <2>6. todo'[t] # <<>> /\ Head(todo'[t]).do # "payload"
    BY <1>2, <1>3
  <2> QED
    BY <2>5, <2>6, Zenon DEF OnTheCard
<1>8. link' \in BOOLEAN /\ image' \in Images
  BY <1>4 DEF SdInv, SdTypeOK, Streams
<1> QED
  BY <1>1, <1>6, <1>7, <1>8, MmcKeeps

(* The microcontroller takes an image, or refuses it.                      *)
LEMMA ImageTaken ==
    ASSUME SdInv, Ready, Command, UNCHANGED <<threads, api, worker>>,
           todo["worker"] # <<>>, worker = "store", Storing, ToBeStored(Len(lRet["worker"])),
           Do("worker") = "chunks" \/ (Do("worker") = "receive" /\ LastReceive("worker"))
    PROVE  SdInv'
<1>1. /\ link /\ Silent /\ stream.left = 0 /\ TotalSize \in Nat \ {0} /\ PipeSize \in Nat
      /\ DOMAIN sd \subseteq Images /\ \A x \in DOMAIN sd : sd[x] \in Image
      /\ lRet["worker"] \in Seq(AnyWord) /\ op.image \in Images /\ Len(toMmc) < PipeSize
  BY MessageTaken, MmcFacts DEF Ready, SdInv, SdTypeOK, Streams, Turn, Threads, Storing
<1> PICK w \in Nat : w = Len(lRet["worker"])
  BY <1>1
<1>2. /\ toMmc \in Seq(AnyWord) /\ Len(toMmc) = 2 + w /\ toMmc[1] = "store"
      /\ \A k \in 3 .. Len(toMmc) : toMmc[k] = GoodWord
  BY DEF ToBeStored
<1>3. toMmc' \in Image /\ Len(toMmc') = w
  <2>1. 3 + 0 = 3
    OBVIOUS
  <2>2. toMmc' = SubSeq(toMmc, 3, Len(toMmc))
    BY <1>2, <2>1 DEF Command, Rest
  <2> QED
    BY <1>2, <2>2, AfterHeader
<1>4. \/ Reply(Error) /\ UNCHANGED <<image, sd, text, stream, link>>
      \/ /\ stream' = [image |-> text, left |-> TotalSize, giving |-> FALSE]
         /\ sd' = [x \in DOMAIN sd \cup {text} |-> IF x = text THEN <<>> ELSE sd[x]]
         /\ UNCHANGED <<toFpga, out, image, text, link>>
  BY <1>2 DEF Command, Refuse
<1>5. lRet' = lRet /\ op' = op /\ worker' = worker /\ w <= TotalSize
  BY DEF threads, api, Storing
<1>6. text = op.image
  <2>1. "worker" \in Threads
    BY DEF Threads
  <2>2. todo["worker"] \in Seq(Steps) /\ Do("worker") = Head(todo["worker"]).do
    BY <2>1, Acting
  <2>3. UploadSteps(op.image, todo["worker"]) /\ OnTheCard(todo["worker"])
    BY DEF SdInv, Uploads
  <2>4. UploadStep(op.image, Head(todo["worker"]), Len(todo["worker"]) - 1) /\ Len(todo["worker"]) \in Nat
    BY <2>2, <2>3, NextOfPlan
  <2>5. CASE Do("worker") = "chunks"
    <3>1. Len(todo["worker"]) - 1 = 1
      BY <2>2, <2>4, <2>5 DEF UploadStep, Send
    <3>2. Len(todo["worker"]) <= 3
      <4>1. \A n \in Nat : n - 1 = 1 => n <= 3
        OBVIOUS
      <4> QED
        BY <2>4, <3>1, <4>1, Zenon
    <3> QED
      BY <2>3, <3>2 DEF OnTheCard
  <2>6. CASE LastReceive("worker")
    BY <2>3, <2>6 DEF OnTheCard, LastReceive
  <2> QED
    BY <2>5, <2>6
<1>7. Len(toMmc') < PipeSize /\ Len(toMmc') \in Nat /\ Len(toMmc') <= Len(toMmc)
  BY <1>1, <1>2, <1>3
<1>8. CASE Reply(Error) /\ UNCHANGED <<image, sd, text, stream, link>>
  <2>1. Error \in Seq(AnyWord)
    BY DEF Error, AnyWord
  <2>2. Coming' = Error /\ toFpga' \in Seq(AnyWord) /\ out' \in Seq(AnyWord)
    <3>1. Coming' = Error /\ out' = Error /\ toFpga' = <<>>
      BY <1>1, <1>8, <2>1, Replying
    <3> QED
      BY <2>1, <3>1
  <2>3. RefusedToStore'
    BY <1>1, <1>3, <1>8, <2>2 DEF RefusedToStore
  <2>4. Storing'
    BY <1>5, <1>7, <2>3 DEF Storing
  <2>5. stream' \in Streams
    BY <1>8 DEF SdInv, SdTypeOK
  <2> QED
    BY <1>1, <1>7, <1>8, <2>1, <2>2, <2>4, <2>5, StoringGoesOn
<1>9. CASE /\ stream' = [image |-> text, left |-> TotalSize, giving |-> FALSE]
           /\ sd' = [x \in DOMAIN sd \cup {text} |-> IF x = text THEN <<>> ELSE sd[x]]
           /\ UNCHANGED <<toFpga, out, image, text, link>>
  <2>1. <<>> \in Image /\ Len(<<>>) = 0
    BY DEF Image
  <2>2. /\ DOMAIN sd' \subseteq Images /\ \A x \in DOMAIN sd' : sd'[x] \in Image
        /\ op.image \in DOMAIN sd' /\ sd'[op.image] = <<>>
    BY <1>1, <1>6, <1>9, <2>1
  <2>3. /\ stream'.left = TotalSize /\ ~stream'.giving /\ stream'.image = op'.image
        /\ Silent' /\ toFpga' = <<>> /\ out' = <<>>
    BY <1>1, <1>5, <1>6, <1>9 DEF Silent
  <2>4. Len(sd'[op.image]) = 0 /\ TotalSize - TotalSize = 0 /\ 0 + w = w /\ TotalSize \in 1 .. TotalSize
    BY <1>1, <2>1, <2>2
  <2>5. BeingStored(w)'
    BY <1>3, <1>5, <2>2, <2>3, <2>4 DEF BeingStored
  <2>6. Storing'
    BY <1>5, <1>7, <2>5 DEF Storing
  <2>7. stream' \in Streams /\ toFpga' \in Seq(AnyWord) /\ UNCHANGED <<link, image, text>>
    <3>1. stream' \in Streams
      BY <1>1, <1>6, <1>9 DEF Streams
    <3> QED
      BY <1>9, <2>3, <3>1
  <2> QED
    BY <1>1, <1>7, <2>2, <2>3, <2>6, <2>7, StoringGoesOn
<1> QED
  BY <1>4, <1>8, <1>9

(* The microcontroller takes the next word of an image.                    *)
LEMMA WordStored ==
    ASSUME SdInv, Store, UNCHANGED <<threads, api, worker>>
    PROVE  SdInv'
<1>1. /\ stream.left > 0 /\ ~stream.giving /\ toMmc # <<>> /\ toMmc' = Tail(toMmc)
      /\ sd' = [sd EXCEPT ![stream.image] = Append(sd[stream.image], Head(toMmc))]
      /\ IF stream.left = 1 THEN stream' = Nothing /\ Reply(Ok)
         ELSE stream' = [stream EXCEPT !.left = stream.left - 1] /\ UNCHANGED <<toFpga, out>>
      /\ UNCHANGED <<link, image, text>>
  BY DEF Store
<1>2. /\ DOMAIN sd \subseteq Images /\ (\A x \in DOMAIN sd : sd[x] \in Image)
      /\ TotalSize \in Nat \ {0} /\ PipeSize \in Nat
      /\ stream.left # 0
  BY <1>1, MmcFacts DEF SdInv, SdTypeOK, Streams
<1>3. PICK t \in Threads : todo[t] # <<>>
  BY <1>2 DEF SdInv, Protocol, AtRest
<1>4. Place(t) /\ todo[t] \in Seq(Steps) /\ Do(t) = Head(todo[t]).do
  BY <1>3, Acting
<1>5. /\ t = "worker" /\ worker = "store" /\ Storing
      /\ Do(t) = "chunks" \/ (Do(t) = "receive" /\ LastReceive(t))
  <2>1. Do(t) \in {"send", "payload"} \/ Do(t) \in Plain
    <3>1. Head(todo[t]) \in Steps
      BY <1>3, <1>4
    <3> QED
      BY <1>4, <3>1 DEF Steps
  <2>2. Do(t) \notin {"send", "header", "start", "back", "payload", "size", "words", "caught", "terminate"}
    BY <1>1, <1>2, <1>4 DEF Place, AtRest, Waiting, Giving
  <2>3. CASE Do(t) = "receive"
    BY <1>1, <1>2, <1>4, <2>3 DEF Place, Waiting, Replied, LastReceive
  <2>4. CASE Do(t) = "chunks"
    <3>1. t = "worker" /\ Storing
      BY <1>4, <2>4 DEF Place
    <3> QED
      BY <2>4, <3>1 DEF Storing
  <2> QED
    BY <2>1, <2>2, <2>3, <2>4 DEF Plain
<1>6. lRet["worker"] \in Seq(AnyWord)
  BY <1>3, <1>5, Acting
<1> PICK w \in Nat : w = Len(lRet["worker"])
  BY <1>6
<1>7. BeingStored(w) /\ w <= TotalSize /\ Len(toMmc) < PipeSize
  BY <1>2, <1>5 DEF Storing, ToBeStored, HasStored, RefusedToStore
<1> PICK n \in Nat, k \in Nat : n = Len(sd[op.image]) /\ k = Len(toMmc)
  BY <1>2, <1>7 DEF BeingStored, Image
<1>8. /\ stream.left \in 1 .. TotalSize /\ stream.image = op.image /\ op.image \in DOMAIN sd
      /\ n = TotalSize - stream.left /\ toMmc \in Seq({GoodWord}) /\ n + k = w /\ Silent
      /\ sd[op.image] \in Seq({GoodWord})
  BY <1>2, <1>7 DEF BeingStored, Image
<1>9. /\ k > 0 /\ Tail(toMmc) \in Seq({GoodWord}) /\ Len(Tail(toMmc)) = k - 1 /\ Head(toMmc) = GoodWord
  <2>1. toMmc[1] \in {GoodWord} /\ Head(toMmc) = toMmc[1] /\ k > 0
    BY <1>1, <1>8
  <2>2. Tail(toMmc) \in Seq({GoodWord}) /\ Len(Tail(toMmc)) = k - 1
    BY <1>1, <1>8
  <2> QED
    BY <2>1, <2>2
<1>10. /\ sd'[op.image] = Append(sd[op.image], GoodWord) /\ DOMAIN sd' = DOMAIN sd
       /\ \A x \in DOMAIN sd : x # op.image => sd'[x] = sd[x]
  BY <1>1, <1>8, <1>9
<1>11. sd'[op.image] \in Seq({GoodWord}) /\ Len(sd'[op.image]) = n + 1
  <2>1. \A q \in Seq({GoodWord}) : Append(q, GoodWord) \in Seq({GoodWord}) /\ Len(Append(q, GoodWord)) = Len(q) + 1
    OBVIOUS
  <2> QED
    BY <1>8, <1>10, <2>1, Zenon
<1>12. DOMAIN sd' \subseteq Images /\ \A x \in DOMAIN sd' : sd'[x] \in Image
  BY <1>2, <1>10, <1>11 DEF Image
<1>13. lRet' = lRet /\ op' = op /\ worker' = worker
  BY DEF threads, api
<1>14. /\ toMmc' \in Image /\ Len(toMmc') = k - 1 /\ k - 1 \in Nat /\ Len(toMmc') < PipeSize
  BY <1>1, <1>2, <1>7, <1>9 DEF Image
<1>15. CASE stream.left = 1
  <2>1. n + 1 = TotalSize /\ w = TotalSize /\ k - 1 = 0
    BY <1>2, <1>7, <1>8, <1>9, <1>15
  <2>2. toMmc' = <<>>
    <3>1. \A c \in Seq({GoodWord}) : Len(c) = 0 => c = <<>>
      OBVIOUS
    <3> QED
      BY <1>14, <2>1, <3>1, Zenon DEF Image
  <2>3. Ok \in Seq(AnyWord) /\ Ok # <<>>
    BY DEF Ok, AnyWord
  <2>4. Coming' = Ok /\ toFpga' \in Seq(AnyWord) /\ out' \in Seq(AnyWord) /\ stream'.left = 0
    <3>1. Reply(Ok) /\ stream' = Nothing
      BY <1>1, <1>15
    <3>2. Coming' = Ok /\ out' = Ok /\ toFpga' = <<>>
      BY <1>8, <2>3, <3>1, Replying
    <3> QED
      BY <2>3, <3>1, <3>2 DEF Nothing
  <2>5. sd'[op.image] = Good
    <3>1. Good \in Seq({GoodWord}) /\ Len(Good) = TotalSize
      BY <1>2 DEF Good
    <3>2. Len(sd'[op.image]) = TotalSize
      BY <1>11, <2>1
    <3>3. \A j \in 1 .. TotalSize : sd'[op.image][j] = GoodWord /\ Good[j] = GoodWord
      BY <1>11, <3>2 DEF Good
    <3> QED
      BY <1>11, <3>1, <3>2, <3>3
  <2>6. HasStored(w)'
    BY <1>8, <1>10, <1>13, <2>1, <2>2, <2>4, <2>5 DEF HasStored, InMemory
  <2>7. Storing'
    BY <1>5, <1>7, <1>13, <1>14, <2>6 DEF Storing
  <2>8. Len(toMmc') \in Nat /\ Len(toMmc') <= Len(toMmc) /\ stream' \in Streams /\ toFpga' \in Seq(AnyWord)
    <3>1. stream' \in Streams
      <4>1. stream' = Nothing
        BY <1>1, <1>15
      <4>2. Nothing \in Streams
        BY DEF Streams, Nothing
      <4> QED
        BY <4>1, <4>2
    <3> QED
      BY <1>14, <2>3, <2>4, <3>1
  <2> QED
    BY <1>1, <1>3, <1>5, <1>8, <1>12, <2>4, <2>7, <2>8, StoringGoesOn
<1>16. CASE stream.left # 1
  <2>1. stream' = [stream EXCEPT !.left = stream.left - 1] /\ Silent' /\ toFpga' = <<>> /\ out' = <<>>
    BY <1>1, <1>2, <1>8, <1>16 DEF Silent
  <2>2. /\ stream'.left = stream.left - 1 /\ stream'.image = stream.image /\ stream'.giving = stream.giving
    <3>1. stream \in Streams
      BY DEF SdInv, SdTypeOK
    <3> QED
      BY <2>1, <3>1 DEF Streams
  <2>3. stream'.left \in 1 .. TotalSize /\ n + 1 = TotalSize - stream'.left /\ (n + 1) + (k - 1) = w
    <3>1. PICK l \in Nat : l = stream.left /\ l \in 1 .. TotalSize /\ l # 1 /\ n = TotalSize - l
      BY <1>2, <1>8, <1>16
    <3>2. l - 1 \in 1 .. TotalSize /\ n + 1 = TotalSize - (l - 1)
      BY <1>2, <3>1
    <3>3. (n + 1) + (k - 1) = w
      BY <1>8
    <3> QED
      BY <2>2, <3>1, <3>2, <3>3
  <2>4. BeingStored(w)'
    BY <1>1, <1>8, <1>10, <1>11, <1>13, <1>14, <2>1, <2>2, <2>3 DEF BeingStored
  <2>5. Storing'
    BY <1>5, <1>7, <1>13, <1>14, <2>4 DEF Storing
  <2>6. Len(toMmc') \in Nat /\ Len(toMmc') <= Len(toMmc) /\ stream' \in Streams /\ toFpga' \in Seq(AnyWord)
    <3>1. stream' \in Streams
      <4>1. stream \in Streams
        BY DEF SdInv, SdTypeOK
      <4>2. stream.left - 1 \in Nat
        BY <1>2, <2>2, <2>3
      <4> QED
        BY <2>1, <4>1, <4>2 DEF Streams
    <3>2. Len(toMmc') \in Nat /\ Len(toMmc') <= Len(toMmc)
      BY <1>14
    <3>3. toFpga' \in Seq(AnyWord)
      BY <2>1
    <3> QED
      BY <3>1, <3>2, <3>3
  <2> QED
    BY <1>1, <1>3, <1>5, <1>8, <1>12, <2>1, <2>5, <2>6, StoringGoesOn
<1> QED
  BY <1>15, <1>16

(* A word more in a FIFO.                                                  *)
LEMMA WordMore ==
    ASSUME NEW q \in Seq(AnyWord), NEW x \in AnyWord
    PROVE  Append(q, x) \in Seq(AnyWord) /\ Len(Append(q, x)) = Len(q) + 1
           /\ \A k \in 1 .. Len(q) : Append(q, x)[k] = q[k]
OBVIOUS

(* The word that one has more, the other has less.                         *)
LEMMA OneOver ==
    ASSUME NEW c \in Nat, NEW a \in Nat, NEW b \in Nat
    PROVE  c - 2 + (a + 1) + (b - 1) = c - 2 + a + b
OBVIOUS

(* The microcontroller gives the next word of an image.                    *)
LEMMA WordGiven ==
    ASSUME SdInv, Give, UNCHANGED <<threads, api, worker>>
    PROVE  SdInv'
<1>1. /\ stream.left > 0 /\ stream.giving /\ UNCHANGED <<toMmc, link, image, sd, text, out>>
      /\ \E x \in {sd[stream.image][Len(sd[stream.image]) - stream.left + 1], WrongWord, BadWord} :
            toFpga' = Append(toFpga, x)
      /\ stream' = IF stream.left = 1 THEN Nothing ELSE [stream EXCEPT !.left = stream.left - 1]
  BY DEF Give
<1>2. /\ DOMAIN sd \subseteq Images /\ (\A x \in DOMAIN sd : sd[x] \in Image)
      /\ stream \in Streams /\ stream.left \in Nat /\ stream.left # 0 /\ toFpga \in Seq(AnyWord)
  BY <1>1 DEF SdInv, SdTypeOK, Streams
<1>17. out = <<>> /\ out' = <<>> /\ out' \in Seq(AnyWord) /\ Coming = toFpga
  <2>1. out = <<>> /\ out' = <<>>
    BY <1>1 DEF Give
  <2> QED
    BY <1>2, <2>1, ComingFacts DEF Coming
<1>3. PICK t \in Threads : todo[t] # <<>>
  BY <1>2 DEF SdInv, Protocol, AtRest
<1>4. Place(t) /\ todo[t] \in Seq(Steps) /\ Do(t) = Head(todo[t]).do /\ m.data \in Nat /\ Len(toFpga) \in Nat
  BY <1>3, Acting
<1>5. /\ Do(t) \in {"size", "words"} /\ link /\ toMmc = <<>> /\ Giving
      /\ looked[t] => m.data <= Len(toFpga)
  <2>1. Do(t) \in {"send", "payload"} \/ Do(t) \in Plain
    <3>1. Head(todo[t]) \in Steps
      BY <1>3, <1>4
    <3> QED
      BY <1>4, <3>1 DEF Steps
  <2>2. ~Storing
    <3>1. \A w : ~ToBeStored(w) /\ ~BeingStored(w) /\ ~HasStored(w)
      BY <1>1, <1>2 DEF ToBeStored, BeingStored, HasStored
    <3>2. ~RefusedToStore
      BY <1>2 DEF RefusedToStore
    <3> QED
      BY <3>1, <3>2 DEF Storing
  <2>3. Do(t) \notin {"send", "header", "start", "back", "payload", "receive", "chunks", "caught", "terminate"}
    BY <1>2, <1>4, <2>2 DEF Place, AtRest, Waiting, Replied
  <2>4. Do(t) \in {"size", "words"}
    BY <2>1, <2>3 DEF Plain
  <2> QED
    BY <1>2, <1>4, <2>4 DEF Place, Waiting
<1>6. /\ stream.image \in DOMAIN sd /\ stream.left <= Len(sd[stream.image])
  BY <1>1, <1>5 DEF Giving
<1>7. sd[stream.image][Len(sd[stream.image]) - stream.left + 1] \in AnyWord
  <2> DEFINE q == sd[stream.image]
  <2>1. q \in Seq({GoodWord}) /\ Len(q) \in Nat /\ stream.left \in 1 .. Len(q)
    BY <1>2, <1>6 DEF Image
  <2> HIDE DEF q
  <2>2. Len(q) - stream.left + 1 \in 1 .. Len(q)
    BY <1>2, <2>1
  <2>3. q[Len(q) - stream.left + 1] \in {GoodWord}
    BY <2>1, <2>2
  <2> QED
    BY <2>3 DEF q, AnyWord
<1>8. PICK x \in AnyWord : toFpga' = Append(toFpga, x)
  BY <1>1, <1>7 DEF AnyWord
<1>9. /\ toFpga' \in Seq(AnyWord) /\ Len(toFpga') = Len(toFpga) + 1
      /\ \A k \in 1 .. Len(toFpga) : toFpga'[k] = toFpga[k]
  BY <1>2, <1>8, WordMore
<1>18. Coming' = toFpga'
  BY <1>9, <1>17, ComingFacts DEF Coming
<1>10. /\ stream'.left = stream.left - 1 /\ stream' \in Streams
       /\ (stream.left # 1 => stream'.image = stream.image /\ stream'.giving = stream.giving)
  <2>1. CASE stream.left = 1
    <3>1. stream' = Nothing /\ Nothing \in Streams /\ Nothing.left = 0
      BY <1>1, <2>1 DEF Nothing, Streams
    <3> QED
      BY <2>1, <3>1
  <2>2. CASE stream.left # 1
    <3>1. stream.left - 1 \in Nat
      BY <1>2
    <3>2. stream' = [stream EXCEPT !.left = stream.left - 1]
      BY <1>1, <2>2
    <3> QED
      BY <1>2, <2>2, <3>1, <3>2 DEF Streams
  <2> QED
    BY <2>1, <2>2
<1>11. /\ todo' = todo /\ looked' = looked /\ m' = m /\ worker' = worker /\ lRet' = lRet /\ op' = op
       /\ link' = link /\ sd' = sd /\ toMmc' = toMmc /\ Do(t)' = Do(t)
  BY <1>1 DEF threads, api, Do
<1>12. Giving'
  <2>1. Len(sd[stream.image]) \in Nat
    BY <1>2, <1>6 DEF Image
  <2>2. CASE stream.left = 1
    <3>1. ~(stream'.left > 0)
      BY <1>10, <2>2
    <3> QED
      BY <3>1 DEF Giving
  <2>3. CASE stream.left # 1
    <3>1. stream'.left <= Len(sd[stream.image])
      BY <1>2, <1>6, <1>10, <2>1
    <3> QED
      BY <1>1, <1>6, <1>10, <1>11, <2>3, <3>1 DEF Giving
  <2> QED
    BY <2>2, <2>3
<1>13. looked'[t] => m'.data <= Len(toFpga')
  BY <1>4, <1>5, <1>9, <1>11
<1> PICK a \in Nat, b \in Nat : a = Len(toFpga) /\ b = stream.left
  BY <1>2, <1>4
<1>14. Place(t)'
  <2>1. CASE Do(t) = "size"
    <3>1. /\ a >= 2 /\ toFpga[2] \in Nat /\ a - 2 + b = toFpga[2] /\ m.data <= a /\ (~looked[t] => m.data < 2)
      BY <1>2, <1>4, <1>17, <2>1 DEF Place, Waiting
    <3>2. Len(toFpga') >= 2 /\ toFpga'[2] = toFpga[2]
      <4>1. 2 \in 1 .. Len(toFpga) /\ a + 1 >= 2
        BY <3>1
      <4>2. Len(toFpga') = a + 1
        BY <1>9
      <4> QED
        BY <1>9, <4>1, <4>2
    <3>3. Len(toFpga') - 2 + stream'.left = toFpga'[2]
      <4>1. (a + 1) - 2 + (b - 1) = a - 2 + b
        OBVIOUS
      <4> QED
        BY <1>9, <1>10, <3>1, <3>2, <4>1
    <3>4. m'.data <= Len(toFpga') /\ (~looked'[t] => m'.data < 2)
      BY <1>4, <1>9, <1>11, <3>1
    <3> QED
      BY <1>5, <1>11, <1>12, <1>18, <2>1, <3>1, <3>2, <3>3, <3>4 DEF Place, None
  <2>2. CASE Do(t) = "words"
    <3>1. Len(lRet[t]) >= 2 /\ lRet[t][2] \in Nat /\ Len(lRet[t]) - 2 + a + b = lRet[t][2] /\ Len(lRet[t]) \in Nat
      BY <1>3, <1>4, <1>17, <2>2, Acting DEF Place
    <3>2. Len(lRet'[t]) - 2 + Len(toFpga') + stream'.left = lRet'[t][2]
      <4> PICK c \in Nat : c = Len(lRet[t])
        BY <3>1, Zenon
      <4>1. c - 2 + (a + 1) + (b - 1) = c - 2 + a + b
        BY OneOver, Zenon
      <4>2. Len(lRet'[t]) = c /\ Len(toFpga') = a + 1 /\ stream'.left = b - 1 /\ lRet'[t][2] = c - 2 + a + b
        BY <1>9, <1>10, <1>11, <3>1, Zenon
      <4> QED
        BY <4>1, <4>2, Zenon
    <3> QED
      BY <1>5, <1>11, <1>12, <1>13, <1>18, <2>2, <3>1, <3>2 DEF Place, None
  <2> QED
    BY <1>5, <2>1, <2>2
<1>15. ~(t = "worker" /\ worker = "store")
  BY <1>5, NotUploading
<1>16. (InMemory => InMemory') /\ link' \in BOOLEAN /\ image' \in Images /\ DOMAIN sd' \subseteq Images
       /\ \A x1 \in DOMAIN sd' : sd'[x1] \in Image
  BY <1>1, <1>2, <1>11 DEF InMemory, SdInv, SdTypeOK
<1> QED
  BY <1>3, <1>5, <1>9, <1>10, <1>11, <1>14, <1>15, <1>16, <1>17, MmcKeeps

(* A word goes from the one to the other.                                  *)
LEMMA WordMoves ==
    ASSUME NEW a \in Seq(AnyWord), NEW b \in Seq(AnyWord), b # <<>>
    PROVE  /\ Append(a, Head(b)) \o Tail(b) = a \o b
           /\ Append(a, Head(b)) \in Seq(AnyWord) /\ Len(Append(a, Head(b))) = Len(a) + 1
           /\ Tail(b) \in Seq(AnyWord) /\ Len(a) \in Nat
<1>1. Head(b) \in AnyWord /\ Tail(b) \in Seq(AnyWord) /\ Len(b) \in Nat \ {0} /\ Len(Tail(b)) = Len(b) - 1
      /\ Head(b) = b[1]
  OBVIOUS
<1>2. \A k \in 1 .. Len(Tail(b)) : Tail(b)[k] = b[k + 1]
  OBVIOUS
<1>9. Append(a, Head(b)) \in Seq(AnyWord)
  BY <1>1
<1> PICK c \in Seq(AnyWord) : c = Append(a, Head(b))
  BY <1>9
<1> PICK d \in Seq(AnyWord) : d = Tail(b)
  BY <1>1
<1>3. /\ Len(c) = Len(a) + 1 /\ c[Len(a) + 1] = b[1] /\ Len(a) \in Nat /\ Len(d) = Len(b) - 1
      /\ \A k \in 1 .. Len(a) : c[k] = a[k]
      /\ \A k \in 1 .. Len(b) - 1 : d[k] = b[k + 1]
  BY <1>1, <1>2
<1>4. /\ c \o d \in Seq(AnyWord) /\ Len(c \o d) = Len(c) + Len(d)
      /\ \A k \in 1 .. Len(c) + Len(d) : (c \o d)[k] = IF k <= Len(c) THEN c[k] ELSE d[k - Len(c)]
  OBVIOUS
<1>5. /\ a \o b \in Seq(AnyWord) /\ Len(a \o b) = Len(a) + Len(b)
      /\ \A k \in 1 .. Len(a) + Len(b) : (a \o b)[k] = IF k <= Len(a) THEN a[k] ELSE b[k - Len(a)]
  OBVIOUS
<1>6. Len(c) + Len(d) = Len(a) + Len(b)
  BY <1>1, <1>3
<1>7. ASSUME NEW k \in 1 .. Len(a) + Len(b) PROVE (c \o d)[k] = (a \o b)[k]
  <2>1. CASE k <= Len(a)
    BY <1>1, <1>3, <1>4, <1>5, <1>6, <2>1
  <2>2. CASE k = Len(a) + 1
    BY <1>1, <1>3, <1>4, <1>5, <1>6, <2>2
  <2>3. CASE k > Len(a) + 1
    <3> PICK h \in Nat : h = k - (Len(a) + 1) /\ h \in 1 .. Len(b) - 1 /\ h + 1 = k - Len(a)
      <4> PICK la \in Nat, lb \in Nat \ {0} : la = Len(a) /\ lb = Len(b)
        BY <1>1, <1>3
      <4>1. k - (la + 1) \in Nat /\ k - (la + 1) \in 1 .. lb - 1 /\ (k - (la + 1)) + 1 = k - la
        BY <2>3
      <4> QED
        BY <4>1
    <3>1. (c \o d)[k] = d[h] /\ (a \o b)[k] = b[h + 1]
      BY <1>1, <1>3, <1>4, <1>5, <1>6, <2>3
    <3> QED
      BY <1>3, <3>1
  <2> QED
    BY <1>1, <1>3, <2>1, <2>2, <2>3
<1>8. c \o d = a \o b
  <2> PICK x \in Seq(AnyWord), y \in Seq(AnyWord) : x = c \o d /\ y = a \o b
    BY <1>4, <1>5
  <2>1. Len(x) = Len(y) /\ \A k \in 1 .. Len(y) : x[k] = y[k]
    BY <1>4, <1>5, <1>6, <1>7
  <2>2. x = y
    BY <2>1
  <2> QED
    BY <2>2
<1> QED
  BY <1>1, <1>3, <1>8

(* The microcontroller puts the next word of its reply in the FIFO.        *)
LEMMA WordPut ==
    ASSUME SdInv, Put, UNCHANGED <<threads, api, worker>>
    PROVE  SdInv'
<1>1. /\ out # <<>> /\ toFpga' = Append(toFpga, Head(out)) /\ out' = Tail(out)
      /\ UNCHANGED <<toMmc, link, image, sd, text, stream>>
  BY DEF Put
<1>2. /\ DOMAIN sd \subseteq Images /\ (\A x \in DOMAIN sd : sd[x] \in Image) /\ stream \in Streams
      /\ out \in Seq(AnyWord) /\ toFpga \in Seq(AnyWord) /\ link \in BOOLEAN /\ image \in Images
  BY DEF SdInv, SdTypeOK
<1>3. /\ Coming' = Coming /\ toFpga' \in Seq(AnyWord) /\ out' \in Seq(AnyWord)
      /\ Len(toFpga') = Len(toFpga) + 1
  BY <1>1, <1>2, WordMoves DEF Coming
<1>4. ~Silent
  BY <1>1 DEF Silent
<1>5. PICK t \in Threads : todo[t] # <<>>
  BY <1>4 DEF SdInv, Protocol, AtRest
<1>6. /\ Place(t) /\ todo[t] \in Seq(Steps) /\ Do(t) = Head(todo[t]).do /\ m.data \in Nat /\ Len(toFpga) \in Nat
  BY <1>5, Acting
<1>7. /\ todo' = todo /\ looked' = looked /\ m' = m /\ worker' = worker /\ lRet' = lRet /\ op' = op
      /\ link' = link /\ sd' = sd /\ toMmc' = toMmc /\ stream' = stream /\ text' = text
      /\ Do(t)' = Do(t) /\ LastReceive(t)' = LastReceive(t) /\ LastOfAll(t)' = LastOfAll(t)
      /\ InMemory' = InMemory /\ Ending(t)' = Ending(t)
  BY <1>1 DEF threads, api, Do, LastReceive, LastOfAll, InMemory, Ending
<1>8. \A n \in Nat : n <= Len(toFpga) => n <= Len(toFpga')
  BY <1>3, <1>6
<1>9. Storing => Storing' /\ (RefusedToStore => RefusedToStore')
  <2>1. RefusedToStore => RefusedToStore'
    BY <1>3, <1>7 DEF RefusedToStore
  <2>2. \A w : ~ToBeStored(w) /\ ~BeingStored(w) /\ (HasStored(w) => HasStored(w)')
    BY <1>3, <1>4, <1>7 DEF ToBeStored, BeingStored, HasStored
  <2> QED
    BY <1>7, <2>1, <2>2 DEF Storing
<1>10. Do(t) \in {"receive", "chunks", "payload", "size", "words", "terminate"} /\ link
  <2>1. Do(t) \in {"send", "payload"} \/ Do(t) \in Plain
    <3>1. Head(todo[t]) \in Steps
      BY <1>5, <1>6
    <3> QED
      BY <1>6, <3>1 DEF Steps
  <2>2. Do(t) \notin {"send", "header", "start", "back", "caught"}
    BY <1>4, <1>6 DEF Place, AtRest
  <2>3. Do(t) \in {"receive", "chunks", "payload", "size", "words", "terminate"}
    BY <2>1, <2>2 DEF Plain
  <2> QED
    BY <1>6, <2>3 DEF Place
<1>11. Place(t)'
  <2>1. CASE Do(t) = "receive"
    <3>1. looked'[t] => m'.data <= Len(toFpga')
      BY <1>6, <1>7, <1>8, <2>1 DEF Place
    <3>2. LastReceive(t) => Storing' /\ (Len(lRet'[t]) = TotalSize \/ RefusedToStore')
      BY <1>6, <1>7, <1>9, <2>1 DEF Place
    <3>3. ~LastReceive(t) => Replied' /\ Closing(t)'
      BY <1>3, <1>4, <1>6, <1>7, <2>1 DEF Place, Waiting, Replied, Closing
    <3>4. Do(t)' = "receive"
      BY <1>7, <2>1
    <3> QED
      BY <1>7, <1>10, <3>1, <3>2, <3>3, <3>4 DEF Place, None
  <2>2. CASE Do(t) = "chunks"
    <3>1. looked'[t] => m'.data <= Len(toFpga') /\ m'.space + Len(toMmc') < PipeSize
      BY <1>6, <1>7, <1>8, <2>2 DEF Place
    <3>2. t = "worker" /\ Storing' /\ Len(lRet'[t]) < TotalSize
      BY <1>6, <1>7, <1>9, <2>2 DEF Place
    <3>3. Do(t)' = "chunks"
      BY <1>7, <2>2
    <3> QED
      BY <1>7, <1>10, <3>1, <3>2, <3>3 DEF Place, None
  <2>3. CASE Do(t) = "payload"
    <3>1. m'.data <= Len(toFpga') + 2
      <4>1. m.data <= Len(toFpga) + 2
        BY <1>6, <2>3 DEF Place
      <4> QED
        BY <1>3, <1>6, <1>7, <4>1
    <3>2. Do(t)' = "payload"
      BY <1>7, <2>3
    <3>3. /\ Head(todo[t]).size = Len(Coming) /\ stream.left = 0 /\ Len(lRet[t]) = 2
          /\ \A k \in 1 .. Len(Coming) : Coming[k] # 0
          /\ lRet[t][1] # 0 \/ Coming = <<>> \/ Ending(t)
          /\ \/ toMmc = <<>>
             \/ /\ t = "worker" /\ worker = "store" /\ lRet[t][1] # 0
                /\ toMmc \in Image /\ Len(toMmc) < PipeSize
      BY <1>6, <2>3 DEF Place
    <3> QED
      BY <1>3, <1>7, <1>10, <3>1, <3>2, <3>3 DEF Place, None
  <2>4. CASE Do(t) = "size"
    <3>1. /\ toMmc = <<>> /\ Giving
          /\ Len(Coming) >= 2 /\ Coming[2] \in Nat /\ Len(Coming) - 2 + stream.left = Coming[2]
          /\ m.data <= Len(toFpga) /\ (~looked[t] => m.data < 2)
      BY <1>4, <1>6, <2>4 DEF Place, Waiting
    <3>2. Giving'
      BY <1>7, <3>1 DEF Giving
    <3>3. Do(t)' = "size" /\ m'.data <= Len(toFpga')
      BY <1>6, <1>7, <1>8, <2>4, <3>1
    <3> QED
      BY <1>3, <1>7, <1>10, <3>1, <3>2, <3>3 DEF Place, None
  <2>5. CASE Do(t) = "words"
    <3>1. /\ toMmc = <<>> /\ Giving
          /\ Len(lRet[t]) >= 2 /\ lRet[t][2] \in Nat
          /\ Len(lRet[t]) - 2 + Len(Coming) + stream.left = lRet[t][2]
          /\ looked[t] => m.data <= Len(toFpga)
      BY <1>6, <2>5 DEF Place
    <3>2. Giving'
      BY <1>7, <3>1 DEF Giving
    <3>3. Do(t)' = "words" /\ (looked'[t] => m'.data <= Len(toFpga'))
      BY <1>6, <1>7, <1>8, <2>5, <3>1
    <3> QED
      BY <1>3, <1>7, <1>10, <3>1, <3>2, <3>3 DEF Place, None
  <2>6. CASE Do(t) = "terminate"
    BY <1>6, <1>7, <1>10, <2>6 DEF Place, None
  <2> QED
    BY <1>10, <2>1, <2>2, <2>3, <2>4, <2>5, <2>6
<1>12. t = "worker" /\ worker = "store" /\ Do(t) # "terminate" => OnTheCard(todo[t])'
  <2> SUFFICES ASSUME t = "worker", worker = "store", Do(t) # "terminate" PROVE OnTheCard(todo[t])'
    OBVIOUS
  <2>1. OnTheCard(todo[t])
    BY DEF SdInv, Uploads
  <2> QED
    BY <1>7, <2>1 DEF OnTheCard
<1> QED
  BY <1>1, <1>2, <1>3, <1>5, <1>7, <1>11, <1>12, MmcKeeps

(* The FPGA takes its image.                                               *)
LEMMA BootTaken ==
    ASSUME SdInv, Reboot, UNCHANGED <<threads, api, worker>>
    PROVE  SdInv'
<1>1. /\ Ready /\ toMmc[1] \in {"reboot", "reset"} /\ link' = FALSE /\ toMmc' = <<>> /\ toFpga' = <<>>
      /\ UNCHANGED <<sd, text, stream, out>>
      /\ image' = IF toMmc[1] = "reboot" THEN Boots(text) ELSE Golden
  BY DEF Reboot
<1>2. PICK t \in Threads :
         /\ todo[t] # <<>>
         /\ \/ Do(t) = "receive" /\ ~LastReceive(t) /\ toMmc \in Messages
            \/ Do(t) = "size" /\ toMmc = ReadMessage
            \/ Do(t) = "caught" /\ toMmc \in BootMessages
            \/ /\ t = "worker" /\ worker = "store" /\ Storing /\ ToBeStored(Len(lRet[t]))
               /\ Do(t) = "chunks" \/ (Do(t) = "receive" /\ LastReceive(t))
  BY <1>1, MessageTaken
<1>3. stream.left = 0 /\ Place(t) /\ m.data \in Nat /\ Silent
  BY <1>1, <1>2, Acting, MessageTaken
<1>4. Do(t) = "caught"
  <2>1. toMmc \notin Messages
    BY <1>1, TheMessages
  <2>2. toMmc # ReadMessage
    BY <1>1 DEF ReadMessage
  <2>3. ~ToBeStored(Len(lRet[t]))
    BY <1>1 DEF ToBeStored
  <2> QED
    BY <1>2, <2>1, <2>2, <2>3
<1>5. /\ todo' = todo /\ looked' = looked /\ m' = m /\ Do(t)' = "caught" /\ stream'.left = 0 /\ op' = op
  BY <1>1, <1>3, <1>4 DEF threads, api, Do
<1>6. Place(t)'
  <2>1. Silent' /\ (looked[t] => m.data = 0)
    BY <1>1, <1>3, <1>4 DEF Place, Silent
  <2> QED
    BY <1>1, <1>3, <1>4, <1>5, <2>1 DEF Place, None
<1>7. image' \in Images
  BY <1>1, MmcFacts DEF Boots, SdInv, SdTypeOK
<1>8. ~(t = "worker" /\ worker = "store")
  BY <1>4, NotUploading
<1>9. /\ toFpga' \in Seq(AnyWord) /\ link' \in BOOLEAN /\ out' \in Seq(AnyWord) /\ DOMAIN sd' \subseteq Images
      /\ (\A x \in DOMAIN sd' : sd'[x] \in Image) /\ stream' \in Streams /\ (InMemory => InMemory')
  <2>1. toFpga' \in Seq(AnyWord) /\ link' \in BOOLEAN
    <3>1. toFpga' = <<>> /\ link' = FALSE
      BY <1>1
    <3>2. <<>> \in Seq(AnyWord) /\ FALSE \in BOOLEAN
      OBVIOUS
    <3> QED
      BY <3>1, <3>2, Zenon
  <2>2. out' \in Seq(AnyWord) /\ DOMAIN sd' \subseteq Images /\ (\A x \in DOMAIN sd' : sd'[x] \in Image)
    BY <1>1 DEF SdInv, SdTypeOK
  <2>3. stream' \in Streams
    BY <1>1 DEF SdInv, SdTypeOK
  <2>4. InMemory => InMemory'
    BY <1>1, <1>5 DEF InMemory
  <2> QED
    BY <2>1, <2>2, <2>3, <2>4
<1> QED
  BY <1>1, <1>2, <1>6, <1>7, <1>8, <1>9, MmcKeeps

(* The FPGA runs again.                                                    *)
LEMMA LinkUp ==
    ASSUME SdInv, UpAgain, UNCHANGED <<threads, api, worker>>
    PROVE  SdInv'
<1>1. /\ ~link /\ link' = TRUE /\ UNCHANGED <<toMmc, toFpga, image, sd, text, stream, out>>
      /\ \A t \in Threads : Do(t) \notin Looks
  BY DEF UpAgain, fifos
<1>2. PICK t \in Threads : todo[t] # <<>>
  BY <1>1 DEF SdInv, Protocol
<1>3. Place(t)
  BY <1>2, Acting
<1>4. Do(t) = "back" /\ AtRest
  BY <1>1, <1>3 DEF Place, Looks
<1>5. Do(t)' = "back" /\ AtRest' /\ looked' = looked /\ op' = op
  BY <1>1, <1>4 DEF threads, api, Do, AtRest, Silent
<1>6. Place(t)'
  BY <1>1, <1>5 DEF Place, None
<1>7. ~(t = "worker" /\ worker = "store")
  BY <1>4, NotUploading
<1>8. /\ toFpga' \in Seq(AnyWord) /\ link' \in BOOLEAN /\ out' \in Seq(AnyWord) /\ DOMAIN sd' \subseteq Images
      /\ (\A x \in DOMAIN sd' : sd'[x] \in Image) /\ stream' \in Streams /\ (InMemory => InMemory')
      /\ image' \in Images /\ toMmc' = toMmc
  BY <1>1, <1>5 DEF SdInv, SdTypeOK, InMemory
<1> QED
  BY <1>2, <1>6, <1>7, <1>8, MmcKeeps

(* A step of the microcontroller.                                          *)
LEMMA BoardStep ==
    ASSUME SdInv, Board
    PROVE  SdInv'
<1>1. UNCHANGED <<threads, api, worker>> /\ (Command \/ Reboot \/ UpAgain \/ Store \/ Give \/ Put)
  BY DEF Board, Mmc, threads
<1>3. ASSUME Command PROVE SdInv'
  <2>1. Ready
    BY <1>3 DEF Command
  <2>2. PICK t \in Threads :
         /\ todo[t] # <<>>
         /\ \/ Do(t) = "receive" /\ ~LastReceive(t) /\ toMmc \in Messages
            \/ Do(t) = "size" /\ toMmc = ReadMessage
            \/ Do(t) = "caught" /\ toMmc \in BootMessages
            \/ /\ t = "worker" /\ worker = "store" /\ Storing /\ ToBeStored(Len(lRet[t]))
               /\ Do(t) = "chunks" \/ (Do(t) = "receive" /\ LastReceive(t))
    BY <2>1, MessageTaken
  <2>3. toMmc \notin BootMessages
    <3> SUFFICES ASSUME toMmc \in BootMessages PROVE FALSE
      OBVIOUS
    <3>1. toMmc[1] \in {"reboot", "reset"}
      BY DEF BootMessages
    <3> QED
      BY <1>3, <3>1 DEF Command
  <2>4. CASE Do(t) = "receive" /\ ~LastReceive(t) /\ toMmc \in Messages
    BY <1>1, <1>3, <2>1, <2>2, <2>4, Answered
  <2>5. CASE Do(t) = "size" /\ toMmc = ReadMessage
    BY <1>1, <1>3, <2>1, <2>2, <2>5, ReadTaken
  <2>6. CASE /\ t = "worker" /\ worker = "store" /\ Storing /\ ToBeStored(Len(lRet[t]))
             /\ Do(t) = "chunks" \/ (Do(t) = "receive" /\ LastReceive(t))
    BY <1>1, <1>3, <2>1, <2>2, <2>6, ImageTaken
  <2> QED
    BY <2>2, <2>3, <2>4, <2>5, <2>6
<1> QED
  BY <1>1, <1>3, BootTaken, LinkUp, WordStored, WordGiven, WordPut

(* A call finds nothing under way, unless it is refused.                   *)
LEMMA AllFree ==
    ASSUME SdInv, todo["caller"] = <<>>, Alive, ~Fetching,
           checkIfUploading \/ worker \notin {"store", "boot"}
    PROVE  /\ worker \in {"none", "done"} /\ \A u \in Threads : todo[u] = <<>> /\ ~looked[u]
           /\ AtRest /\ link
<1>1. worker \in {"none", "done"}
  BY DEF SdInv, Turn, checkIfUploading, Alive, Fetching
<1> QED
  BY <1>1 DEF SdInv, Turn, Protocol, Threads

(* A plan begins where all is at rest.                                     *)
LEMMA PlanBegins ==
    ASSUME SdInv, \A u \in Threads : todo[u] = <<>>, NEW t \in Threads, NEW s, Plan(s), s # <<>>,
           s[1].do \in {"send", "header"}, todo' = [todo EXCEPT ![t] = s],
           UNCHANGED <<toMmc, toFpga, out, link, stream, looked>>
    PROVE  /\ Protocol' /\ todo' \in [Threads -> Seq(Steps)] /\ todo'[t] = s
           /\ \A u \in Threads : ~looked[u] /\ (u # t => todo'[u] = <<>>)
           /\ AtRest /\ link /\ Do(t)' = s[1].do
<1>1. s \in Seq(Steps) /\ Head(s) = s[1] /\ Plan(<<>>)
  BY DEF Plan
<1>2. /\ todo' \in [Threads -> Seq(Steps)] /\ todo'[t] = s
      /\ \A u \in Threads : u # t => todo'[u] = <<>>
  BY <1>1 DEF SdInv, SdTypeOK
<1>3. AtRest /\ link /\ \A u \in Threads : ~looked[u]
  BY DEF SdInv, Protocol, Turn
<1>4. Do(t)' = s[1].do
  BY <1>1, <1>2 DEF Do
<1>5. Place(t)'
  BY <1>3, <1>4 DEF Place, AtRest, Silent, None
<1>6. Protocol'
  BY <1>1, <1>2, <1>5 DEF Protocol
<1> QED
  BY <1>2, <1>3, <1>4, <1>6

(* A call of the caller's own begins.                                      *)
LEMMA CallBegins ==
    ASSUME SdInv, \A u \in Threads : todo[u] = <<>>, worker \in {"none", "done"},
           NEW s, Plan(s), s # <<>>, NoStore(s), s[1].do \in {"send", "header"},
           todo' = [todo EXCEPT !["caller"] = s],
           UNCHANGED <<fifos, mmc, looked, m, torn, lRet, reads, worker, numUploadingFpga>>,
           op'.name # "upload", Downloads(s) => op'.name = "download" /\ op'.image \in Images,
           op'.name = "download" => file' = <<>>
    PROVE  SdInv'
<1>1. /\ UNCHANGED <<toMmc, toFpga, link, stream, looked, image, sd, out, text>> /\ "caller" \in Threads
      /\ UNCHANGED <<m, lRet, reads, worker, numUploadingFpga>> /\ "worker" \in Threads
  BY DEF fifos, mmc, Threads
<1>2. /\ Protocol' /\ todo' \in [Threads -> Seq(Steps)] /\ todo'["caller"] = s
      /\ \A u \in Threads : ~looked[u] /\ (u # "caller" => todo'[u] = <<>>)
  BY <1>1, PlanBegins
<1>3. SdTypeOK'
  BY <1>1, <1>2 DEF SdInv, SdTypeOK
<1>4. NoStore(<<>>)
  BY DEF NoStore
<1>5. Turn'
  <2>1. todo'["worker"] = <<>>
    BY <1>1, <1>2
  <2>2. \A u \in Threads : NoStore(todo'[u])
    BY <1>2, <1>4
  <2> QED
    BY <1>1, <1>2, <2>1, <2>2 DEF Turn
<1>6. Uploads' /\ Booting' /\ Fetches' /\ Booted' /\ Filed' /\ FileRight'
  BY <1>1 DEF Uploads, Booting, Fetches, Booted, Filed, FileRight
<1> QED
  BY <1>2, <1>3, <1>5, <1>6 DEF SdInv

(* What the invariant is about stays, when a call is refused.              *)
LEMMA Stays ==
    ASSUME SdInv, UNCHANGED <<fifos, mmc, todo, looked, m, torn, lRet, reads, numUploadingFpga, op, file, worker>>
    PROVE  SdInv'
<1>1. UNCHANGED <<toMmc, toFpga, link, stream, image, sd, out, text>>
      /\ UNCHANGED <<todo, looked, m, torn, lRet, reads, numUploadingFpga, op, file, worker>>
  BY DEF fifos, mmc
<1>2. \A t \in Threads : Do(t)' = Do(t) /\ (Place(t) => Place(t)')
  <2> TAKE t \in Threads
  <2>1. /\ Do(t)' = Do(t) /\ LastReceive(t)' = LastReceive(t) /\ Coming' = Coming
        /\ LastOfAll(t)' = LastOfAll(t) /\ Ending(t)' = Ending(t)
    BY <1>1 DEF Do, LastReceive, Coming, LastOfAll, Ending
  <2>2. /\ AtRest => AtRest'
        /\ Silent => Silent'
        /\ Giving => Giving'
        /\ Replied => Replied'
        /\ Closing(t) => Closing(t)'
        /\ Waiting(Messages) => Waiting(Messages)'
        /\ Waiting({ReadMessage}) => Waiting({ReadMessage})'
    BY <1>1, <2>1 DEF AtRest, Silent, Giving, Replied, Closing, Waiting
  <2>3. (Storing => Storing') /\ (RefusedToStore => RefusedToStore')
    BY <1>1, <2>1 DEF Storing, ToBeStored, BeingStored, HasStored, RefusedToStore, Silent, InMemory
  <2> QED
    BY <1>1, <2>1, <2>2, <2>3 DEF Place
<1>3. SdTypeOK' /\ Turn'
  BY <1>1 DEF SdInv, SdTypeOK, Turn
<1>4. Protocol'
  BY <1>1, <1>2 DEF SdInv, Protocol, AtRest, Silent
<1>5. Uploads' /\ Booting' /\ Fetches' /\ Booted' /\ Filed' /\ FileRight'
  <2>1. Do("worker")' = Do("worker")
    BY <1>2 DEF Threads
  <2> QED
    BY <1>1, <2>1 DEF SdInv, Uploads, Booting, Fetches, Booted, Filed, FileRight, OnTheCard, InMemory
<1> QED
  BY <1>3, <1>4, <1>5 DEF SdInv

(* The detached thread of an upload starts.                                *)
LEMMA UploadBegins ==
    ASSUME SdInv, FlashProm
    PROVE  SdInv'
<1>1. CASE Refused
  BY <1>1, Stays DEF Refused, pipeVars
<1>2. ASSUME NEW x \in Images \ {Golden},
             Called("upload", x), checkIfUploading, numUploadingFpga' = 1,
             todo' = [todo EXCEPT !["worker"] = FileToSD(x)], worker' = "store",
             UNCHANGED <<fifos, mmc, looked, m, torn, lRet, i, reads, board, file>>
      PROVE  SdInv'
  <2> DEFINE s == FileToSD(x)
  <2>1. /\ UNCHANGED <<toMmc, toFpga, link, stream, looked, image, sd, out, text>>
        /\ UNCHANGED <<m, lRet, reads, file>> /\ "worker" \in Threads /\ "caller" \in Threads
        /\ op'.name = "upload" /\ op'.image = x
    BY <1>2 DEF fifos, mmc, Threads, Called
  <2>2. \A u \in Threads : todo[u] = <<>>
    BY <1>2, AllFree DEF Called, Counted, Idle
  <2>3. Block(s) /\ UploadSteps(x, s) /\ Len(s) = 5
    BY Plans, TransferSteps
  <2>4. todo' = [todo EXCEPT !["worker"] = s]
    BY <1>2
  <2> HIDE DEF s
  <2>5. /\ Protocol' /\ todo' \in [Threads -> Seq(Steps)] /\ todo'["worker"] = s
        /\ \A u \in Threads : ~looked[u] /\ (u # "worker" => todo'[u] = <<>>)
    BY <2>1, <2>2, <2>3, <2>4, PlanBegins DEF Block
  <2>6. SdTypeOK'
    BY <2>1, <2>5 DEF SdInv, SdTypeOK
  <2>7. Turn'
    <3>1. todo'["caller"] = <<>> /\ NoStore(<<>>)
      BY <2>1, <2>5 DEF NoStore
    <3>2. \A u \in Threads : u = "caller" => NoStore(todo'[u])
      BY <3>1
    <3>3. ~Downloads(<<>>)
      BY DEF Downloads
    <3> QED
      BY <1>2, <2>1, <2>5, <3>1, <3>2, <3>3 DEF Turn
  <2>8. OnTheCard(s)'
    BY <2>3 DEF OnTheCard
  <2>9. Uploads' /\ Booting' /\ Fetches' /\ Booted' /\ Filed' /\ FileRight'
    BY <1>2, <2>1, <2>3, <2>5, <2>8 DEF Uploads, Booting, Fetches, Booted, Filed, FileRight
  <2> QED
    BY <2>5, <2>6, <2>7, <2>9 DEF SdInv
<1> QED
  BY <1>1, <1>2 DEF FlashProm

(* The detached thread of an upload boots the image, and ends.             *)
LEMMA UploadMovesOn ==
    ASSUME SdInv, dumpFromFileIntoSD
    PROVE  SdInv'
<1>1. /\ todo["worker"] = <<>> /\ worker \in {"store", "boot"} /\ "worker" \in Threads /\ "caller" \in Threads
      /\ UNCHANGED <<fifos, mmc, looked, m, torn, lRet, i, reads, api>>
      /\ Threads = {"caller", "worker"}
  BY DEF dumpFromFileIntoSD, Threads
<1>2. /\ UNCHANGED <<toMmc, toFpga, link, stream, looked, image, sd, out, text>>
      /\ UNCHANGED <<m, lRet, reads, file, op, numUploadingFpga>>
      /\ op.name = "upload" /\ op.image \in Images /\ \A u \in Threads : todo[u] = <<>>
  BY <1>1 DEF fifos, mmc, api, SdInv, Turn
<1>3. Do("worker") = None /\ None # "terminate"
  BY <1>1 DEF Do, None
<1>4. CASE worker = "store"
  <2> DEFINE s == RebootFPGA(op.image)
  <2>1. InMemory /\ InMemory'
    BY <1>1, <1>2, <1>3, <1>4 DEF SdInv, Uploads, OnTheCard, InMemory
  <2>2. todo' = [todo EXCEPT !["worker"] = s] /\ worker' = "boot"
    BY <1>4 DEF dumpFromFileIntoSD
  <2>3. Block(s) /\ NoStore(s) /\ BootSteps(s)
    BY <1>2, Plans DEF Aside
  <2> HIDE DEF s
  <2>4. /\ Protocol' /\ todo' \in [Threads -> Seq(Steps)] /\ todo'["worker"] = s
        /\ AtRest
        /\ \A u \in Threads : ~looked[u] /\ (u # "worker" => todo'[u] = <<>>)
    BY <1>1, <1>2, <2>2, <2>3, PlanBegins DEF Block
  <2>5. SdTypeOK'
    BY <1>2, <2>4 DEF SdInv, SdTypeOK
  <2>6. Turn'
    <3>1. todo'["caller"] = <<>> /\ NoStore(<<>>) /\ ~Downloads(<<>>)
      BY <1>1, <2>4 DEF NoStore, Downloads
    <3>2. \A u \in Threads : NoStore(todo'[u])
      BY <1>1, <2>3, <2>4, <3>1
    <3> QED
      BY <1>2, <2>2, <2>4, <3>1, <3>2 DEF SdInv, Turn
  <2>7. Uploads' /\ Booting' /\ Fetches' /\ Booted' /\ Filed' /\ FileRight'
    BY <1>2, <2>1, <2>2, <2>3, <2>4 DEF Uploads, Booting, Fetches, Booted, Filed, FileRight, AtRest
  <2> QED
    BY <2>4, <2>5, <2>6, <2>7 DEF SdInv
<1>5. CASE worker = "boot"
  <2>1. worker' = "done" /\ todo' = todo
    BY <1>5 DEF dumpFromFileIntoSD
  <2>2. InMemory'
    BY <1>2, <1>5 DEF SdInv, Booted, InMemory
  <2>3. SdTypeOK'
    BY <1>2, <2>1 DEF SdInv, SdTypeOK
  <2>4. Turn'
    <3>1. \A u \in Threads : NoStore(todo[u]) /\ ~looked[u]
      BY <1>2, <1>5 DEF SdInv, Turn
    <3>2. ~Downloads(<<>>)
      BY DEF Downloads
    <3> QED
      BY <1>1, <1>2, <2>1, <3>1, <3>2 DEF SdInv, Turn
  <2>5. Protocol'
    BY <1>2, <2>1 DEF SdInv, Protocol, AtRest, Silent
  <2>6. Uploads' /\ Booting' /\ Fetches' /\ Booted' /\ Filed' /\ FileRight'
    BY <1>2, <2>1, <2>2 DEF Uploads, Booting, Fetches, Booted, Filed, FileRight
  <2> QED
    BY <2>3, <2>4, <2>5, <2>6 DEF SdInv
<1> QED
  BY <1>1, <1>4, <1>5

(* "start" and "terminate" are last of their plans.                        *)
LEMMA LastOnes ==
    ASSUME SdInv, NEW t \in Threads, Do(t) \in {"start", "terminate"}
    PROVE  /\ todo[t] # <<>> /\ Len(todo[t]) = 1 /\ NoStore(todo[t])
           /\ Do(t) = "start" => Downloads(todo[t])
<1>1. todo[t] # <<>>
  BY DEF Do, None
<1>2. Plan(todo[t]) /\ todo[t] \in Seq(Steps) /\ Do(t) = Head(todo[t]).do
  BY <1>1, Acting
<1> DEFINE s == todo[t]
<1>3. Len(s) \in Nat \ {0} /\ Head(s) = s[1] /\ s[1].do \in {"start", "terminate"} /\ 1 \in 1 .. Len(s)
  BY <1>1, <1>2
<1> HIDE DEF s
<1>4. Len(s) = 1
  <2>1. IF 1 = Len(s) THEN Ends(s[1]) ELSE Follows(s[1], s[1 + 1])
    BY <1>2, <1>3 DEF Plan, s
  <2> QED
    BY <1>3, <2>1 DEF Follows
<1> QED
  BY <1>1, <1>2, <1>3, <1>4 DEF NoStore, Downloads, s

(* The detached thread of a download starts.                               *)
LEMMA DownloadBegins ==
    ASSUME SdInv, runDownload
    PROVE  SdInv'
<1>1. /\ Do("caller") = "start" /\ Threads = {"caller", "worker"} /\ "caller" \in Threads /\ "worker" \in Threads
      /\ UNCHANGED <<toMmc, toFpga, link, stream, looked, image, sd, out, text>>
      /\ UNCHANGED <<m, lRet, file, op>> /\ reads' = <<>> /\ worker' = "fetch"
      /\ numUploadingFpga' \in {1, numUploadingFpga}
  BY DEF runDownload, fifos, mmc, Threads
<1>2. todo["caller"] # <<>> /\ Downloads(todo["caller"])
  BY <1>1, LastOnes
<1>3. /\ Place("caller") /\ todo["worker"] = <<>> /\ \A u \in Threads : u # "caller" => ~looked[u]
      /\ worker \in {"none", "done"}
  BY <1>1, <1>2, Acting
<1>4. /\ op.name = "download" /\ op.image \in Images /\ AtRest /\ link /\ \A u \in Threads : ~looked[u]
  BY <1>1, <1>2, <1>3 DEF SdInv, Turn, Place
<1> DEFINE s == FileFromSD(op.image) \o FileFromSD(op.image)
<1>5. Block(s) /\ NoStore(s) /\ FetchSteps(s) /\ Len(s) = 10
  BY <1>4, Plans, TransferSteps DEF Aside
<1>6. todo' = [todo EXCEPT !["caller"] = <<>>, !["worker"] = s]
  BY DEF runDownload
<1> HIDE DEF s
<1>7. /\ s \in Seq(Steps) /\ s # <<>> /\ Head(s) = s[1] /\ s[1].do \in {"send", "header"} /\ Plan(s)
  BY <1>5 DEF Block, Plan
<1>8. todo' \in [Threads -> Seq(Steps)] /\ todo'["caller"] = <<>> /\ todo'["worker"] = s
  <2>1. todo \in [Threads -> Seq(Steps)]
    BY DEF SdInv, SdTypeOK
  <2>2. <<>> \in Seq(Steps)
    OBVIOUS
  <2> PICK f \in [Threads -> Seq(Steps)] : f = [todo EXCEPT !["caller"] = <<>>]
    BY <1>1, <2>1, <2>2
  <2>3. todo' = [f EXCEPT !["worker"] = s] /\ f["caller"] = <<>>
    BY <1>1, <1>6, <2>1
  <2> QED
    BY <1>1, <1>7, <2>3
<1>9. SdTypeOK'
  BY <1>1, <1>8 DEF SdInv, SdTypeOK
<1>10. Turn'
  <2>1. NoStore(<<>>) /\ ~Downloads(<<>>)
    BY DEF NoStore, Downloads
  <2>2. \A u \in Threads : NoStore(todo'[u])
    BY <1>1, <1>5, <1>8, <2>1
  <2>3. \A u \in Threads : ~looked'[u]
    BY <1>1, <1>4
  <2>4. op'.name = "download" /\ op'.image \in Images
    BY <1>1, <1>4
  <2> QED
    BY <1>1, <1>8, <2>1, <2>2, <2>3, <2>4 DEF Turn
<1>11. Protocol'
  <2>1. Do("worker")' = s[1].do
    BY <1>7, <1>8 DEF Do
  <2>2. Place("worker")'
    BY <1>1, <1>4, <1>7, <2>1 DEF Place, AtRest, Silent, None
  <2>3. Plan(<<>>)
    BY DEF Plan
  <2> QED
    BY <1>1, <1>7, <1>8, <2>2, <2>3 DEF Protocol
<1>12. file = <<>>
  BY <1>1, <1>2, <1>4 DEF SdInv, Filed
<1>13. Len(reads') \in ReadWith(10)
  BY <1>1 DEF ReadWith
<1>14. Uploads' /\ Booting' /\ Fetches' /\ Booted' /\ Filed' /\ FileRight'
  BY <1>1, <1>5, <1>8, <1>12, <1>13 DEF Uploads, Booting, Fetches, Booted, Filed, FileRight
<1> QED
  BY <1>9, <1>10, <1>11, <1>14 DEF SdInv

(* The program ends.                                                       *)
LEMMA ProgramEnds ==
    ASSUME SdInv, worker' = "terminate", todo["caller"] = <<>>, NoStore(todo["worker"]),
           worker \notin {"none", "done"}, todo["worker"] = <<>> \/ Do("worker") = "terminate",
           UNCHANGED <<fifos, mmc, todo, looked, m, torn, lRet, reads, api>>
    PROVE  SdInv'
<1>1. UNCHANGED <<toMmc, toFpga, link, stream, image, sd, out, text>> /\ Threads = {"caller", "worker"}
      /\ UNCHANGED <<todo, looked, m, torn, lRet, reads, numUploadingFpga, op, file>>
  BY DEF fifos, mmc, api, Threads
<1>2. SdTypeOK'
  BY <1>1 DEF SdInv, SdTypeOK
<1>3. Turn'
  <2>1. NoStore(<<>>) /\ ~Downloads(<<>>)
    BY DEF NoStore, Downloads
  <2> QED
    BY <1>1, <2>1 DEF SdInv, Turn
<1>4. Protocol'
  <2>1. Do("worker")' = Do("worker")
    BY <1>1 DEF Do
  <2>2. todo["worker"] # <<>> => Place("worker")'
    BY <1>1, <2>1 DEF SdInv, Protocol, Place
  <2> QED
    BY <1>1, <2>2 DEF SdInv, Protocol, AtRest, Silent
<1>5. ~(file # <<>> /\ op.name = "download")
  BY DEF SdInv, Filed
<1>6. Uploads' /\ Booting' /\ Fetches' /\ Booted' /\ Filed' /\ FileRight'
  BY <1>1, <1>5 DEF Uploads, Booting, Fetches, Booted, Filed, FileRight
<1> QED
  BY <1>2, <1>3, <1>4, <1>6 DEF SdInv

(* Two wrong reads in one place are two.                                   *)
LEMMA TwoWrong ==
    ASSUME NEW p, NEW q, p # q, NEW D, IsFiniteSet(D), p \in D, q \in D
    PROVE  Cardinality(D) >= 2
<1>1. Cardinality(D) \in Nat
  BY FS_CardinalityType
<1>2. Cardinality(D) # 0
  BY FS_EmptySet
<1>3. Cardinality(D) # 1
  BY FS_Singleton
<1> QED
  BY <1>1, <1>2, <1>3

(* The detached thread of a download reads once more, or ends.             *)
LEMMA DownloadMovesOn ==
    ASSUME SdInv, downloadImage
    PROVE  SdInv'
<1> DEFINE words == 1 .. Len(reads[1])
           Agree(k) == {x \in {reads[1][k], reads[2][k], reads[3][k]} :
                           Cardinality({r \in 1 .. 3 : reads[r][k] = x}) >= 2}
<1>1. /\ worker = "fetch" /\ todo["worker"] = <<>> /\ Threads = {"caller", "worker"}
      /\ "caller" \in Threads /\ "worker" \in Threads
      /\ UNCHANGED <<toMmc, toFpga, link, stream, looked, image, sd, out, text>>
      /\ UNCHANGED <<m, lRet, reads, op, numUploadingFpga>>
  BY DEF downloadImage, fifos, mmc, Threads
<1>2. /\ todo["caller"] = <<>> /\ op.name = "download" /\ op.image \in Images
      /\ \A u \in Threads : todo[u] = <<>>
  BY <1>1 DEF SdInv, Turn
<1>3. Do("worker") = None /\ None # "terminate" /\ Len(<<>>) = 0
  BY <1>1 DEF Do, None
<1>4. Len(reads) \in {2, 3} /\ DOMAIN reads = 1 .. Len(reads)
  BY <1>1, <1>3 DEF SdInv, SdTypeOK, Fetches, ReadWith
<1>5. file = <<>>
  BY <1>1, <1>2 DEF SdInv, Filed
<1>6. CASE reads[1] # reads[2] /\ Len(reads) = 2
  <2> DEFINE s == FileFromSD(op.image)
  <2>1. todo' = [todo EXCEPT !["worker"] = s] /\ file' = file /\ worker' = worker
    BY <1>6 DEF downloadImage
  <2>2. Block(s) /\ NoStore(s) /\ FetchSteps(s) /\ Len(s) = 5
    BY <1>2, Plans, TransferSteps DEF Aside
  <2> HIDE DEF s
  <2>3. /\ Protocol' /\ todo' \in [Threads -> Seq(Steps)] /\ todo'["worker"] = s
        /\ \A u \in Threads : ~looked[u] /\ (u # "worker" => todo'[u] = <<>>)
    BY <1>1, <1>2, <2>1, <2>2, PlanBegins DEF Block
  <2>4. SdTypeOK'
    BY <1>1, <2>3 DEF SdInv, SdTypeOK
  <2>5. Turn'
    <3>1. todo'["caller"] = <<>> /\ NoStore(<<>>) /\ ~Downloads(<<>>)
      BY <1>1, <2>3 DEF NoStore, Downloads
    <3>2. \A u \in Threads : NoStore(todo'[u])
      BY <1>1, <2>2, <2>3, <3>1
    <3> QED
      BY <1>1, <1>2, <2>1, <2>3, <3>1, <3>2 DEF SdInv, Turn
  <2>6. Len(reads') \in ReadWith(5)
    BY <1>1, <1>6 DEF ReadWith
  <2>7. Uploads' /\ Booting' /\ Fetches' /\ Booted' /\ Filed' /\ FileRight'
    BY <1>1, <1>5, <2>1, <2>2, <2>3, <2>6 DEF Uploads, Booting, Fetches, Booted, Filed, FileRight
  <2> QED
    BY <2>3, <2>4, <2>5, <2>7 DEF SdInv
<1>7. CASE ~(reads[1] # reads[2] /\ Len(reads) = 2)
           /\ reads[1] # reads[2] /\ \E k \in words : Agree(k) = {}
  <2>1. worker' = "terminate" /\ todo' = todo
    BY <1>7 DEF downloadImage
  <2>2. NoStore(todo["worker"])
    BY <1>1 DEF NoStore
  <2>3. UNCHANGED <<fifos, mmc, looked, m, torn, lRet, reads, api>>
    BY <1>7 DEF downloadImage, api
  <2> QED
    BY <1>1, <1>2, <2>1, <2>2, <2>3, ProgramEnds
<1>8. CASE /\ ~(reads[1] # reads[2] /\ Len(reads) = 2)
           /\ ~(reads[1] # reads[2] /\ \E k \in words : Agree(k) = {})
  <2>1. /\ file' = (IF reads[1] = reads[2] THEN reads[1] ELSE [k \in words |-> CHOOSE x \in Agree(k) : TRUE])
        /\ worker' = "done" /\ todo' = todo
    BY <1>8 DEF downloadImage
  <2>2. ASSUME NEW k \in DOMAIN file'
        PROVE  \/ file'[k] = sd[op.image][k]
               \/ Cardinality({r \in DOMAIN reads : reads[r][k] # sd[op.image][k]}) >= 2
    <3> DEFINE Wrong == {r \in DOMAIN reads : reads[r][k] # sd[op.image][k]}
    <3>1. IsFiniteSet(Wrong)
      <4>1. IsFiniteSet(1 .. 3)
        <5>1. 1 \in Int /\ 3 \in Int
          OBVIOUS
        <5> QED
          BY <5>1, FS_Interval, Zenon
      <4>2. Wrong \in SUBSET (1 .. 3)
        BY <1>4
      <4> QED
        BY <4>1, <4>2, FS_Subset
    <3> SUFFICES ASSUME file'[k] # sd[op.image][k] PROVE Cardinality(Wrong) >= 2
      OBVIOUS
    <3>2. CASE reads[1] = reads[2]
      <4>1. 1 \in Wrong /\ 2 \in Wrong
        BY <1>4, <2>1, <3>2
      <4> HIDE DEF Wrong
      <4> QED
        BY <3>1, <4>1, TwoWrong
    <3>3. CASE reads[1] # reads[2]
      <4> DEFINE x == file'[k]
                 Same == {r \in 1 .. 3 : reads[r][k] = x}
      <4>1. k \in words /\ x = CHOOSE y \in Agree(k) : TRUE
        BY <2>1, <3>3
      <4>2. Agree(k) # {}
        BY <1>8, <3>3, <4>1
      <4>3. x \in Agree(k)
        <5> HIDE DEF Agree, x
        <5> QED
          BY <4>1, <4>2
      <4>4. Cardinality(Same) >= 2
        BY <4>3
      <4>5. Len(reads) = 3
        BY <1>4, <1>8, <3>3
      <4>6. Same \in SUBSET Wrong
        BY <1>4, <4>5
      <4> HIDE DEF Same, Wrong
      <4>7. Cardinality(Same) <= Cardinality(Wrong) /\ IsFiniteSet(Same)
        BY <3>1, <4>6, FS_Subset
      <4>8. Cardinality(Same) \in Nat /\ Cardinality(Wrong) \in Nat
        BY <3>1, <4>7, FS_CardinalityType
      <4> QED
        BY <4>4, <4>7, <4>8
    <3> QED
      BY <3>2, <3>3
  <2>3. FileRight'
    BY <1>1, <2>2 DEF FileRight
  <2>4. SdTypeOK' /\ Turn' /\ Protocol'
    BY <1>1, <1>2, <2>1 DEF SdInv, SdTypeOK, Turn, Protocol, AtRest, Silent, Downloads
  <2>5. Uploads' /\ Booting' /\ Fetches' /\ Booted' /\ Filed'
    BY <1>1, <1>2, <2>1 DEF Uploads, Booting, Fetches, Booted, Filed
  <2> QED
    BY <2>3, <2>4, <2>5 DEF SdInv
<1> HIDE DEF Agree, words
<1> QED
  BY <1>6, <1>7, <1>8

(* What the caller calls.                                                  *)
LEMMA CallerStep ==
    ASSUME SdInv, Caller
    PROVE  SdInv'
<1>1. ASSUME Refused PROVE SdInv'
  BY <1>1, Stays DEF Refused, pipeVars
<1>2. ASSUME NEW name, NEW x, NEW s, Runs(name, x, s), UNCHANGED <<reads, file>>,
             Aside(s), name \notin {"upload", "download"}, worker \notin {"store", "boot"} \/ checkIfUploading
      PROVE  SdInv'
  <2>1. /\ op'.name = name /\ todo["caller"] = <<>> /\ Alive /\ ~Fetching
        /\ todo' = [todo EXCEPT !["caller"] = s]
        /\ UNCHANGED <<fifos, mmc, looked, m, torn, lRet, reads, worker, numUploadingFpga>>
    BY <1>2 DEF Runs, Called, Counted, Idle
  <2>2. worker \in {"none", "done"} /\ \A u \in Threads : todo[u] = <<>>
    BY <1>2, <2>1, AllFree
  <2>3. Plan(s) /\ s # <<>> /\ NoStore(s) /\ s[1].do \in {"send", "header"} /\ ~Downloads(s)
    BY <1>2 DEF Aside, Block, Downloads
  <2>4. op'.name \notin {"upload", "download"}
    BY <1>2, <2>1
  <2> QED
    BY <2>1, <2>2, <2>3, <2>4, CallBegins
<1>3. ASSUME NEW name, NEW x, NEW s, RunsIfFree(name, x, s), Aside(s), name \notin {"upload", "download"}
      PROVE  SdInv'
  BY <1>2, <1>3 DEF RunsIfFree
<1>4. \A x \in Images : Aside(ListFilesOnSD) /\ Aside(RebootFPGA(x)) /\ Aside(DeleteFromSD(x)) /\ Aside(BoardHardReset)
  BY Plans
<1>5. Golden \in Images
  BY MmcFacts
<1>6. CASE getFpgaConfigList
  BY <1>1, <1>3, <1>4, <1>5, <1>6 DEF getFpgaConfigList
<1>7. CASE JumpToFpgaConfig
  BY <1>1, <1>3, <1>4, <1>7 DEF JumpToFpgaConfig
<1>8. CASE DeleteFpgaConfig
  BY <1>1, <1>3, <1>4, <1>8 DEF DeleteFpgaConfig
<1>9. CASE CtaRebootBoard
  BY <1>1, <1>3, <1>4, <1>5, <1>9 DEF CtaRebootBoard
<1>10. CASE D19cRebootBoard
  BY <1>2, <1>4, <1>5, <1>10 DEF D19cRebootBoard
<1>11. CASE FlashProm
  BY <1>11, UploadBegins
<1>12. CASE DownloadFpgaConfig
  <2> SUFFICES ASSUME NEW x \in Images, checkIfUploading,
                      Runs("download", x, ListFilesOnSD \o << Step("start") >>), file' = <<>>, reads' = reads
               PROVE  SdInv'
    BY <1>1, <1>12 DEF DownloadFpgaConfig
  <2> DEFINE s == ListFilesOnSD \o << Step("start") >>
  <2>1. /\ op'.name = "download" /\ op'.image = x /\ todo["caller"] = <<>> /\ Alive /\ ~Fetching
        /\ todo' = [todo EXCEPT !["caller"] = s]
        /\ UNCHANGED <<fifos, mmc, looked, m, torn, lRet, reads, worker, numUploadingFpga>>
    BY DEF Runs, Called, Counted, Idle
  <2>2. worker \in {"none", "done"} /\ \A u \in Threads : todo[u] = <<>>
    BY <2>1, AllFree
  <2>3. Plan(s) /\ s # <<>> /\ NoStore(s) /\ s[1].do \in {"send", "header"}
    BY Plans
  <2>4. op'.name = "download" /\ op'.image \in Images
    BY <2>1
  <2> HIDE DEF s
  <2> QED
    BY <2>1, <2>2, <2>3, <2>4, CallBegins
<1> QED
  BY <1>6, <1>7, <1>8, <1>9, <1>10, <1>11, <1>12 DEF Caller

(* Every step of the board with an SD card keeps the invariant.            *)
LEMMA SdStep ==
    ASSUME SdInv, SdNext, ~torn'
    PROVE  SdInv'
<1>1. CASE Works
  <2>1. ASSUME Terminate PROVE SdInv'
    <3>1. Do("worker") = "terminate" /\ "worker" \in Threads /\ "caller" \in Threads
      BY <2>1 DEF Terminate, Threads
    <3>2. NoStore(todo["worker"]) /\ todo["worker"] # <<>>
      BY <3>1, LastOnes
    <3>3. todo["caller"] = <<>> /\ worker \notin {"none", "done"}
      BY <3>1, <3>2, Acting
    <3>4. worker' = "terminate" /\ UNCHANGED <<fifos, mmc, todo, looked, m, torn, lRet, reads, api>>
      BY <2>1 DEF Terminate, pipeVars
    <3> QED
      BY <3>1, <3>2, <3>3, <3>4, ProgramEnds
  <2> QED
    BY <1>1, <2>1, DownloadBegins, UploadMovesOn, DownloadMovesOn DEF Works
<1>2. CASE Moves
  BY <1>2, ThreadStep DEF Moves
<1> QED
  BY <1>1, <1>2, CallerStep, BoardStep DEF SdNext

(* The invariant implies that the transfers fit,                           *)
LEMMA FittingSd ==
    ASSUME SdInv
    PROVE  TransfersFit
<1>1. Len(toMmc) < PipeSize
  <2>1. CASE \E t \in Threads : todo[t] # <<>>
    BY <2>1, InTheFifo
  <2>2. CASE \A t \in Threads : todo[t] = <<>>
    <3>1. toMmc = <<>>
      BY <2>2 DEF SdInv, Protocol, AtRest
    <3>2. Len(<<>>) = 0 /\ 0 < PipeSize
      BY MmcFacts
    <3> QED
      BY <3>1, <3>2
  <2> QED
    BY <2>1, <2>2
<1>2. ASSUME NEW t \in Threads, todo[t] # <<>>
      PROVE  /\ Do(t) \in {"receive", "caught"} /\ looked[t] /\ link => m.data <= Len(toFpga)
             /\ Do(t) = "size" /\ m.data >= 2 => Len(toFpga) >= 2
             /\ Do(t) = "payload" /\ m.data >= Head(todo[t]).size /\ Head(todo[t]).size > Len(toFpga) =>
                   /\ Head(todo[t]).size <= Len(toFpga) + 2
                   /\ Flagged(lRet[t][1]) \/ LastOfAll(t)
  <2>1. Place(t) /\ Len(toFpga) \in Nat /\ m.data \in Nat
    BY <1>2, Acting
  <2>2. Do(t) \in {"receive", "caught"} /\ looked[t] /\ link => m.data <= Len(toFpga)
    BY <2>1 DEF Place
  <2>3. Do(t) = "size" /\ m.data >= 2 => Len(toFpga) >= 2
    BY <2>1 DEF Place
  <2>4. Do(t) = "payload" => /\ Head(todo[t]).size = Len(Coming) /\ Len(Coming) \in Nat
                             /\ m.data <= Len(toFpga) + 2
                             /\ lRet[t][1] # 0 \/ Coming = <<>> \/ LastOfAll(t)
    BY <1>2, <2>1, Acting DEF Place, Ending
  <2>5. Coming = <<>> => Len(Coming) = 0
    OBVIOUS
  <2> QED
    BY <2>1, <2>2, <2>3, <2>4, <2>5 DEF Flagged
<1>3. ASSUME NEW t \in Threads, todo[t] = <<>> PROVE Do(t) = "none"
  BY <1>3 DEF Do, None
<1> QED
  BY <1>1, <1>2, <1>3 DEF TransfersFit

(* and that the images are right.                                          *)
LEMMA RightSd ==
    ASSUME SdInv
    PROVE  ImagesRight
BY DEF SdInv, Booted, InMemory, FileRight, ImagesRight

-----------------------------------------------------------------------------
(* After a reply was read before all of it had come.  The operation ends   *)
(* then: by an exception, or because it was the last of its steps, unless  *)
(* a download is still to be started; of that, the words that were late    *)
(* are read as the first reply, for an error.                              *)
Jammed == /\ toFpga \in Seq(AnyWord) /\ out \in Seq(AnyWord)
          /\ Coming # <<>> /\ Coming[1] # 0
NamesText == {<< "text", 1, x >> : x \in Images}
LateUpload ==
    /\ Do("caller") = None
    /\ worker = "store" => Do("worker") = "terminate"
    /\ worker \in {"boot", "done"} =>
          /\ InMemory /\ toMmc = <<>> /\ stream.left = 0
          /\ Do("worker") \in {None, "terminate", "start"}
    /\ worker \in {"store", "boot", "done", "terminate"}
LateFetch ==
    LET d == Do("worker") IN
    /\ Do("caller") = None /\ d \in {"send", "receive", "payload", "terminate"}
    /\ d \in {"send", "receive"} => Jammed /\ stream.left = 0
    /\ d = "send" =>
          /\ toMmc = <<>> /\ Head(todo["worker"]).words \in NamesText
          /\ Tail(todo["worker"]) # <<>> /\ Head(Tail(todo["worker"])).do = "receive"
    /\ d = "receive" =>
          /\ toMmc \in {<<>>} \cup NamesText
          /\ looked["worker"] => m.data \in Nat /\ m.data <= Len(toFpga)
    /\ d = "payload" => lRet["worker"][1] # 0
LateDownload ==
    /\ file = <<>>
    /\ IF worker = "fetch" THEN LateFetch
       ELSE /\ worker \in {"none", "done", "terminate"}
            /\ Do("caller") \in {None, "start"} /\ Do("worker") \in {None, "terminate"}
            /\ Do("caller") = "start" => Jammed /\ toMmc = <<>> /\ stream.left = 0 /\ op.image \in Images
Behind ==
    /\ DOMAIN todo = Threads /\ DOMAIN looked = Threads /\ DOMAIN lRet = Threads
    /\ op.name = "upload" => LateUpload
    /\ op.name = "download" => LateDownload

FpgaInv == (~torn => SdInv) /\ (torn /\ op.inStep => Behind)

(* A reply is torn where its payload is read, and nowhere else; and a call *)
(* after that is not in step.                                              *)
LEMMA TornThere ==
    ASSUME SdNext
    PROVE  /\ torn' = torn \/ \E t \in Threads : MovesOf(t) /\ ReceivePayload(t)
           /\ op' = op \/ op'.inStep = ~torn
           /\ Caller => Refused \/ op'.inStep = ~torn
<1>1. Caller => /\ torn' = torn /\ (op' = op \/ op'.inStep = ~torn)
                /\ Refused \/ op'.inStep = ~torn
  <2> SUFFICES ASSUME Caller
               PROVE  /\ torn' = torn /\ (op' = op \/ op'.inStep = ~torn)
                      /\ Refused \/ op'.inStep = ~torn
    OBVIOUS
  <2>1. ASSUME Refused PROVE torn' = torn /\ op' = op
    BY <2>1 DEF Refused, pipeVars
  <2>2. ASSUME NEW name, NEW x, NEW s, Runs(name, x, s) PROVE torn' = torn /\ op'.inStep = ~torn
    BY <2>2 DEF Runs, Called
  <2>3. ASSUME FlashProm PROVE torn' = torn /\ (Refused \/ op'.inStep = ~torn)
    BY <2>1, <2>3 DEF FlashProm, Called
  <2> QED
    BY <2>1, <2>2, <2>3 DEF Caller, getFpgaConfigList, JumpToFpgaConfig, DeleteFpgaConfig,
         CtaRebootBoard, D19cRebootBoard, DownloadFpgaConfig, RunsIfFree
<1>2. CASE Moves
  <2>1. PICK t \in Threads : MovesOf(t)
    BY <1>2 DEF Moves
  <2>2. op' = op
    BY <2>1 DEF MovesOf, api
  <2>3. torn' = torn \/ ReceivePayload(t)
    BY <2>1 DEF MovesOf, PipeStep, UpdateCounters, SendMessage, WriteHeader, WriteChunk, Receive,
         ReadSize, ReadWords, LinkDown, LinkBack
  <2> QED
    BY <1>1, <2>1, <2>2, <2>3
<1>3. CASE Works
  BY <1>1, <1>3 DEF Works, runDownload, dumpFromFileIntoSD, downloadImage, Terminate, api, pipeVars
<1>4. CASE Board
  BY <1>1, <1>4 DEF Board, Mmc, api
<1> QED
  BY <1>1, <1>2, <1>3, <1>4 DEF SdNext

(* What is read of a reply beyond its end leaves its last words behind.    *)
LEMMA TheRest ==
    ASSUME NEW a \in Seq(AnyWord), NEW b \in Seq(AnyWord), Len(a) < Len(a \o b),
           \A k \in 1 .. Len(a \o b) : (a \o b)[k] # 0
    PROVE  /\ SubSeq(a, Len(a) + 1, Len(a)) = <<>> /\ <<>> \o b = b
           /\ b # <<>> /\ b[1] # 0
<1>1. Len(a) \in Nat /\ Len(b) \in Nat /\ Len(a \o b) = Len(a) + Len(b)
  OBVIOUS
<1>2. Len(b) # 0 /\ Len(a) + 1 \in 1 .. Len(a) + Len(b)
  BY <1>1
<1>3. (a \o b)[Len(a) + 1] = b[1]
  BY <1>1, <1>2, Joined
<1>4. b # <<>>
  BY <1>2
<1>5. SubSeq(a, Len(a) + 1, Len(a)) = <<>> /\ <<>> \o b = b
  OBVIOUS
<1> QED
  BY <1>1, <1>2, <1>3, <1>4, <1>5

(* The step after the one at hand.                                         *)
LEMMA StepAfter ==
    ASSUME NEW s \in Seq(Steps), s # <<>>
    PROVE  /\ Len(s) \in Nat \ {0} /\ Head(s) = s[1]
           /\ Tail(s) # <<>> => Len(s) # 1 /\ Head(Tail(s)) = s[2]
           /\ Tail(s) = <<>> => Len(s) = 1
           /\ Len(s) # 1 => 2 \in 1 .. Len(s) /\ 2 \in 2 .. Len(s)
<1>1. Len(s) \in Nat \ {0} /\ Head(s) = s[1] /\ Tail(s) \in Seq(Steps) /\ Len(Tail(s)) = Len(s) - 1
  OBVIOUS
<1>2. \A k \in 1 .. Len(Tail(s)) : Tail(s)[k] = s[k + 1]
  OBVIOUS
<1> PICK r \in Seq(Steps) : r = Tail(s)
  BY <1>1
<1>3. r # <<>> => Len(r) # 0 /\ Head(r) = r[1] /\ 1 \in 1 .. Len(r)
  OBVIOUS
<1>4. r = <<>> => Len(r) = 0
  OBVIOUS
<1>5. 1 + 1 = 2
  OBVIOUS
<1>6. r # <<>> => Head(r) = s[2]
  BY <1>2, <1>3, <1>5
<1>7. ASSUME NEW l \in Nat, l # 0, l # 1 PROVE 2 \in 1 .. l /\ 2 \in 2 .. l
  <2>1. l >= 2
    BY <1>7
  <2> QED
    BY <2>1
<1> QED
  BY <1>1, <1>3, <1>4, <1>6, <1>7

(* What is left to do after a reply was torn.                              *)
LEMMA TornStep ==
    ASSUME SdInv, ~torn, NEW t \in Threads, MovesOf(t), ReceivePayload(t), torn'
    PROVE  Behind'
<1> DEFINE n     == Head(todo[t]).size
           there == Min({n, Len(toFpga)})
<1>1. /\ Do(t) = "payload" /\ UNCHANGED <<toMmc, mmc, reads>> /\ todo[t] # <<>>
      /\ UNCHANGED <<api, worker>> /\ worker # "terminate"
  BY DEF ReceivePayload, MovesOf, Alive, Do, None
<1>2. /\ Place(t) /\ todo[t] \in Seq(Steps) /\ Plan(todo[t]) /\ Do(t) = Head(todo[t]).do
      /\ toFpga \in Seq(AnyWord) /\ out \in Seq(AnyWord) /\ Len(toFpga) \in Nat
      /\ todo \in [Threads -> Seq(Steps)] /\ looked \in [Threads -> BOOLEAN]
      /\ lRet \in [Threads -> Seq(AnyWord)] /\ Threads = {"caller", "worker"}
      /\ \A u \in Threads : u # t => todo[u] = <<>>
      /\ t = "worker" => worker \notin {"none", "done"}
      /\ t = "caller" => worker \in {"none", "done"}
  BY <1>1, Acting DEF SdInv, SdTypeOK, Threads
<1>3. /\ link' = link /\ stream' = stream /\ op' = op /\ worker' = worker /\ sd' = sd /\ toMmc' = toMmc
      /\ out' = out /\ file' = file
  BY <1>1 DEF mmc, api
<1>4. /\ n = Len(Coming) /\ stream.left = 0
      /\ lRet[t][1] # 0 \/ Coming = <<>> \/ Ending(t)
      /\ \A k \in 1 .. Len(Coming) : Coming[k] # 0
      /\ toMmc = <<>> \/ (t = "worker" /\ worker = "store")
  BY <1>1, <1>2 DEF Place
<1>5. /\ toFpga' = SubSeq(toFpga, there + 1, Len(toFpga)) /\ there < n
      /\ IF Flagged(lRet[t][1]) THEN Threw(t) ELSE Next1(t)
      /\ DOMAIN lRet' = Threads
  BY <1>2 DEF ReceivePayload
<1>6. n \in Nat /\ there = Len(toFpga) /\ Len(toFpga) < Len(Coming)
  <2>1. n \in Nat
    BY <1>1, <1>4, Acting
  <2> HIDE DEF n
  <2>2. there = n \/ there = Len(toFpga)
    BY <1>2, <2>1, LesserOf
  <2>3. there # n
    BY <1>5, <2>1, <2>2, <1>2
  <2> QED
    BY <1>4, <1>5, <2>1, <2>2, <2>3
<1> HIDE DEF n, there
<1>7. toFpga' = <<>> /\ Jammed' /\ Coming # <<>>
  <2>1. /\ SubSeq(toFpga, Len(toFpga) + 1, Len(toFpga)) = <<>> /\ <<>> \o out = out
        /\ out # <<>> /\ out[1] # 0
    BY <1>2, <1>4, <1>6, TheRest DEF Coming
  <2>2. toFpga' = <<>> /\ Coming' = out
    BY <1>3, <1>5, <1>6, <2>1 DEF Coming
  <2>3. <<>> \in Seq(AnyWord)
    OBVIOUS
  <2>4. Coming # <<>>
    BY <2>1, <1>2, ComingFacts DEF Coming
  <2> QED
    BY <1>2, <1>3, <2>1, <2>2, <2>3, <2>4 DEF Jammed
<1>8. /\ DOMAIN todo' = Threads /\ DOMAIN looked' = Threads
      /\ \A u \in Threads : u # t => Do(u)' = None
  <2>1. /\ DOMAIN todo' = Threads /\ DOMAIN looked' = Threads
        /\ \A u \in Threads : u # t => todo'[u] = todo[u]
    BY <1>2, <1>5 DEF Threw, Next1
  <2> QED
    BY <1>2, <2>1 DEF Do
<1>9. /\ Flagged(lRet[t][1]) => Do(t)' = IF t = "worker" THEN "terminate" ELSE None
      /\ ~Flagged(lRet[t][1]) => Ending(t) /\ Do(t)' \in {None, "start"}
                                 /\ (Do(t)' = "start" => Downloads(todo[t]))
                                 /\ (todo[t][Len(todo[t])].do \in {"payload", "start"})
  <2>1. CASE Flagged(lRet[t][1])
    <3>1. todo'[t] = IF t = "worker" THEN << Step("terminate") >> ELSE <<>>
      BY <1>2, <1>5, <2>1 DEF Threw
    <3> QED
      BY <2>1, <3>1 DEF Do, Step
  <2>2. CASE ~Flagged(lRet[t][1])
    <3>1. Ending(t)
      BY <1>4, <1>7, <2>2 DEF Flagged
    <3> DEFINE s == todo[t]
    <3>2. todo'[t] = Tail(s)
      BY <1>2, <1>5, <2>2 DEF Next1
    <3>3. \A k \in 2 .. Len(s) : s[k].do = "start"
      BY <3>1 DEF Ending, LastOfAll
    <3>4. s \in Seq(Steps) /\ s # <<>> /\ Head(s).do = "payload"
      BY <1>1, <1>2
    <3> HIDE DEF s
    <3>5. /\ Len(s) \in Nat \ {0} /\ Head(s) = s[1]
          /\ Tail(s) # <<>> => Len(s) # 1 /\ Head(Tail(s)) = s[2]
      BY <3>4, StepAfter
    <3>6. Tail(s) # <<>> => Head(Tail(s)).do = "start" /\ s[Len(s)].do = "start"
      <4> SUFFICES ASSUME Tail(s) # <<>> PROVE Head(Tail(s)).do = "start" /\ s[Len(s)].do = "start"
        OBVIOUS
      <4>1. 2 \in 2 .. Len(s) /\ Len(s) \in 2 .. Len(s)
        BY <3>5
      <4> QED
        BY <3>3, <3>5, <4>1
    <3>7. Tail(s) = <<>> => Len(s) = 1
      BY <3>4, StepAfter
    <3>8. s[Len(s)].do \in {"payload", "start"}
      BY <3>4, <3>5, <3>6, <3>7
    <3>9. Do(t)' = IF Tail(s) = <<>> THEN None ELSE Head(Tail(s)).do
      BY <3>2 DEF Do
    <3>10. Do(t)' \in {None, "start"} /\ (Do(t)' = "start" => Downloads(s))
      BY <3>4, <3>6, <3>9 DEF Downloads, None
    <3> QED
      BY <2>2, <3>1, <3>8, <3>10 DEF s
  <2> QED
    BY <2>1, <2>2
<1>10. CASE t = "caller"
  <2>1. Do("worker")' = None /\ op.name # "upload" /\ toMmc = <<>> /\ Do(t)' \in {None, "start"}
    BY <1>1, <1>2, <1>4, <1>8, <1>9, <1>10 DEF SdInv, Turn
  <2>2. op.name = "download" => file = <<>>
    BY <1>1 DEF SdInv, Filed
  <2>3. Do(t)' = "start" => op.image \in Images
    BY <1>1, <1>9, <1>10 DEF SdInv, Turn, None
  <2>4. worker # "fetch"
    BY <1>2, <1>10
  <2> QED
    BY <1>2, <1>3, <1>4, <1>5, <1>7, <1>8, <1>10, <2>1, <2>2, <2>3, <2>4 DEF Behind, LateDownload
<1>11. CASE t = "worker"
  <2>1. Do("caller")' = None /\ worker \in {"store", "boot", "fetch"}
    BY <1>1, <1>2, <1>8, <1>11 DEF SdInv, Turn
  <2>2. Len(todo[t]) \in Nat \ {0} /\ Head(todo[t]) = todo[t][1]
    BY <1>1, <1>2
  <2>3. CASE worker = "store"
    <3>1. op.name = "upload" /\ UploadSteps(op.image, todo[t])
      BY <1>1, <1>11, <2>3 DEF SdInv, Turn, Uploads
    <3>2. Flagged(lRet[t][1])
      <4> SUFFICES ASSUME ~Flagged(lRet[t][1]) PROVE FALSE
        OBVIOUS
      <4>1. Ending(t) /\ todo[t][Len(todo[t])].do \in {"payload", "start"}
        BY <1>9
      <4>2. Len(todo[t]) # 1
        BY <1>11, <2>3, <4>1 DEF Ending, LastReceive
      <4>3. UploadStep(op.image, todo[t][2], Len(todo[t]) - 2) /\ todo[t][2].do = "start"
        <5>1. 2 \in 1 .. Len(todo[t]) /\ 2 \in 2 .. Len(todo[t])
          BY <1>1, <1>2, <4>2, StepAfter
        <5> QED
          BY <3>1, <4>1, <5>1 DEF UploadSteps, Ending, LastOfAll
      <4> QED
        BY <4>3 DEF UploadStep, Send
    <3> QED
      BY <1>2, <1>3, <1>5, <1>8, <1>9, <1>11, <2>1, <2>3, <3>1, <3>2 DEF Behind, LateUpload
  <2>4. CASE worker = "boot"
    <3>1. op.name = "upload" /\ InMemory /\ toMmc = <<>>
      BY <1>4, <2>4 DEF SdInv, Turn, Booted
    <3>2. InMemory'
      BY <1>3, <3>1 DEF InMemory
    <3>3. Do(t)' \in {None, "terminate", "start"}
      BY <1>9, <1>11
    <3> QED
      BY <1>2, <1>3, <1>4, <1>5, <1>8, <1>11, <2>1, <2>4, <3>1, <3>2, <3>3 DEF Behind, LateUpload
  <2>5. CASE worker = "fetch"
    <3>1. op.name = "download" /\ file = <<>> /\ FetchSteps(todo[t])
      BY <1>1, <1>11, <2>5 DEF SdInv, Turn, Filed, Fetches
    <3>2. Flagged(lRet[t][1])
      <4>1. Len(todo[t]) \in 1 .. Len(todo[t]) /\ Len(todo[t]) - Len(todo[t]) = 0
        BY <2>2
      <4>2. todo[t][Len(todo[t])].do = "words"
        BY <3>1, <4>1 DEF FetchSteps
      <4> QED
        BY <1>9, <4>2
    <3> QED
      BY <1>2, <1>3, <1>5, <1>8, <1>9, <1>11, <2>1, <2>5, <3>1, <3>2 DEF Behind, LateDownload, LateFetch
  <2> QED
    BY <2>1, <2>3, <2>4, <2>5
<1> QED
  BY <1>2, <1>10, <1>11

(* Nothing of the detached thread or of the FIFOs changes.                 *)
LEMMA LateStays ==
    ASSUME Behind, UNCHANGED <<fifos, mmc, todo, looked, m, lRet, op, file, worker>>
    PROVE  Behind'
<1>1. /\ toMmc' = toMmc /\ toFpga' = toFpga /\ out' = out /\ sd' = sd /\ stream' = stream /\ todo' = todo
      /\ looked' = looked /\ m' = m /\ lRet' = lRet /\ op' = op /\ file' = file /\ worker' = worker
  BY DEF fifos, mmc
<1>2. Do("worker")' = Do("worker") /\ Do("caller")' = Do("caller") /\ (Jammed => Jammed') /\ (InMemory => InMemory')
  BY <1>1 DEF Do, Jammed, Coming, InMemory
<1> QED
  BY <1>1, <1>2 DEF Behind, LateUpload, LateDownload, LateFetch

(* The microcontroller, while words that were late wait to be read.        *)
LEMMA JammedStays ==
    ASSUME Jammed, stream.left = 0, toMmc \in {<<>>} \cup NamesText, Mmc
    PROVE  /\ Jammed' /\ stream'.left = 0 /\ toMmc' \in {toMmc, <<>>}
           /\ Len(toFpga) \in Nat /\ Len(toFpga') \in Nat /\ Len(toFpga) <= Len(toFpga')
<1>1. toFpga \in Seq(AnyWord) /\ out \in Seq(AnyWord) /\ Coming # <<>> /\ Coming[1] # 0 /\ Len(toFpga) \in Nat
  BY DEF Jammed
<1>2. CASE Command
  <2>1. Ready /\ out = <<>> /\ stream = Nothing
    BY <1>2 DEF Command, Ready
  <2>2. toMmc # <<>>
    <3> SUFFICES ASSUME toMmc = <<>> PROVE FALSE
      OBVIOUS
    <3>1. Len(toMmc) = 0 /\ ~(0 >= 2)
      OBVIOUS
    <3> QED
      BY <2>1, <3>1 DEF Ready, Message
  <2>3. PICK x \in Images : toMmc = << "text", 1, x >>
    BY <2>2 DEF NamesText
  <2>4. toMmc[1] = "text" /\ toMmc \in Messages
    BY <2>3 DEF Messages
  <2>5. toMmc' = <<>>
    <3>1. SubSeq(toMmc, 3 + toMmc[2], Len(toMmc)) = <<>>
      BY <2>4, MessageFacts
    <3> QED
      BY <1>2, <2>4, <3>1 DEF Command, Rest
  <2>6. Reply(Ok) /\ stream' = stream
    BY <1>2, <2>4 DEF Command
  <2>7. Ok \in Seq(AnyWord)
    BY DEF Ok, AnyWord
  <2>8. toFpga' = toFpga /\ out' = Ok
    BY <2>6 DEF Reply
  <2>9. Coming = toFpga /\ toFpga # <<>>
    BY <1>1, <2>1, ComingFacts DEF Coming
  <2>10. Coming' # <<>> /\ Coming'[1] = toFpga[1]
    <3>1. 1 \in 1 .. Len(toFpga)
      BY <1>1, <2>9
    <3>2. (toFpga \o Ok)[1] = toFpga[1] /\ toFpga \o Ok # <<>>
      BY <1>1, <2>7, <2>9, <3>1, ComingFacts
    <3> QED
      BY <2>8, <3>2 DEF Coming
  <2> QED
    BY <1>1, <2>5, <2>6, <2>7, <2>8, <2>9, <2>10 DEF Jammed
<1>3. CASE UpAgain
  <2>1. UNCHANGED <<toMmc, toFpga, out, stream>>
    BY <1>3 DEF UpAgain, fifos
  <2> QED
    BY <1>1, <2>1 DEF Jammed, Coming
<1>4. CASE Put
  <2>1. /\ out # <<>> /\ toFpga' = Append(toFpga, Head(out)) /\ out' = Tail(out) /\ UNCHANGED <<toMmc, stream>>
    BY <1>4 DEF Put
  <2>2. Coming' = Coming /\ toFpga' \in Seq(AnyWord) /\ out' \in Seq(AnyWord) /\ Len(toFpga') = Len(toFpga) + 1
    BY <1>1, <2>1, WordMoves DEF Coming
  <2> QED
    BY <1>1, <2>1, <2>2 DEF Jammed
<1>5. ~Reboot
  <2> SUFFICES ASSUME Reboot PROVE FALSE
    OBVIOUS
  <2>1. toMmc[1] \in {"reboot", "reset"} /\ Len(toMmc) >= 2
    BY DEF Reboot, Ready, Message
  <2>2. toMmc # <<>>
    <3> SUFFICES ASSUME toMmc = <<>> PROVE FALSE
      OBVIOUS
    <3>1. Len(toMmc) = 0 /\ ~(0 >= 2)
      OBVIOUS
    <3> QED
      BY <2>1, <3>1
  <2>3. PICK x \in Images : toMmc = << "text", 1, x >>
    BY <2>2 DEF NamesText
  <2> QED
    BY <2>1, <2>3
<1>6. ~Store /\ ~Give
  BY DEF Store, Give
<1> QED
  BY <1>2, <1>3, <1>4, <1>5, <1>6 DEF Mmc

(* A step of the microcontroller.                                          *)
LEMMA LateBoard ==
    ASSUME Behind, Board
    PROVE  Behind'
<1>1. /\ Mmc /\ todo' = todo /\ looked' = looked /\ m' = m /\ lRet' = lRet /\ op' = op /\ file' = file
      /\ worker' = worker
  BY DEF Board, Mmc, api
<1>2. Do("worker")' = Do("worker") /\ Do("caller")' = Do("caller")
  BY <1>1 DEF Do
<1>3. ASSUME InMemory, toMmc = <<>>, stream.left = 0
      PROVE  InMemory' /\ toMmc' = <<>> /\ stream'.left = 0
  <2>1. ~Ready
    <3>1. Len(toMmc) = 0 /\ ~(0 >= 2)
      BY <1>3
    <3> QED
      BY <3>1 DEF Ready, Message
  <2>2. ~Command /\ ~Reboot
    BY <2>1 DEF Command, Reboot
  <2>3. ~Store /\ ~Give
    BY <1>3 DEF Store, Give
  <2>4. UpAgain \/ Put
    BY <1>1, <2>2, <2>3 DEF Mmc
  <2> QED
    BY <1>1, <1>3, <2>4 DEF UpAgain, Put, fifos, InMemory
<1>4. LateUpload => LateUpload'
  BY <1>1, <1>2, <1>3 DEF LateUpload
<1>5. ASSUME LateFetch PROVE LateFetch'
  <2>1. CASE Do("worker") = "send"
    <3>1. Jammed /\ stream.left = 0 /\ toMmc = <<>>
      BY <1>5, <2>1 DEF LateFetch
    <3>2. Jammed' /\ stream'.left = 0 /\ toMmc' = <<>>
      BY <1>1, <3>1, JammedStays
    <3> QED
      BY <1>1, <1>2, <1>5, <2>1, <3>2 DEF LateFetch
  <2>2. CASE Do("worker") = "receive"
    <3>1. Jammed /\ stream.left = 0 /\ toMmc \in {<<>>} \cup NamesText
      BY <1>5, <2>2 DEF LateFetch
    <3>2. /\ Jammed' /\ stream'.left = 0 /\ toMmc' \in {toMmc, <<>>}
          /\ Len(toFpga) \in Nat /\ Len(toFpga') \in Nat /\ Len(toFpga) <= Len(toFpga')
      BY <1>1, <3>1, JammedStays
    <3>3. looked'["worker"] => m'.data \in Nat /\ m'.data <= Len(toFpga')
      BY <1>1, <1>5, <2>2, <3>2 DEF LateFetch
    <3> QED
      BY <1>1, <1>2, <1>5, <2>2, <3>1, <3>2, <3>3 DEF LateFetch
  <2>3. CASE Do("worker") \in {"payload", "terminate"}
    BY <1>1, <1>2, <1>5, <2>3 DEF LateFetch
  <2> QED
    BY <1>5, <2>1, <2>2, <2>3 DEF LateFetch
<1>6. LateDownload => LateDownload'
  <2>1. Jammed /\ toMmc = <<>> /\ stream.left = 0 => Jammed' /\ toMmc' = <<>> /\ stream'.left = 0
    BY <1>1, JammedStays
  <2> QED
    BY <1>1, <1>2, <1>5, <2>1 DEF LateDownload
<1> QED
  BY <1>1, <1>4, <1>6 DEF Behind

(* A download begins with the name of its image.                           *)
LEMMA FetchBegins ==
    ASSUME NEW x \in Images
    PROVE  LET s == FileFromSD(x) \o FileFromSD(x) IN
           /\ s # <<>> /\ Head(s) = Send("text", << x >>)
           /\ Tail(s) # <<>> /\ Head(Tail(s)) = ReceiveOk
<1> DEFINE f == FileFromSD(x)
           s == f \o f
           a == Send("text", << x >>)
           b == ReceiveOk
           d == Send("read", <<>>)
           g == Step("size")
           h == Step("words")
<1>1. /\ << a, b >> \in Seq(Steps) /\ << d, g, h >> \in Seq(Steps)
      /\ f = << a, b >> \o << d, g, h >>
  <2>1. Block(SetTextSpace(x)) /\ Block(<< d, g, h >>)
    BY Operations DEF Aside
  <2>2. SetTextSpace(x) = << a, b >> /\ f = SetTextSpace(x) \o << d, g, h >>
    BY DEF SetTextSpace, FileFromSD
  <2> HIDE DEF a, b, d, g, h, f
  <2> QED
    BY <2>1, <2>2 DEF Block, Plan
<1> HIDE DEF a, b, d, g, h, f
<1>2. f \in Seq(Steps) /\ Len(f) = 5 /\ f[1] = a /\ f[2] = b
  BY <1>1, FiveSteps
<1>3. /\ s \in Seq(Steps) /\ Len(s) = 10
      /\ s[1] = f[1] /\ s[2] = f[2]
  <2>1. /\ s \in Seq(Steps) /\ Len(s) = Len(f) + Len(f)
        /\ \A k \in 1 .. Len(f) + Len(f) : s[k] = IF k <= Len(f) THEN f[k] ELSE f[k - Len(f)]
    BY <1>2, Joined, Zenon
  <2> HIDE DEF s
  <2>2. Len(s) = 10 /\ \A k \in 1 .. 10 : s[k] = IF k <= 5 THEN f[k] ELSE f[k - 5]
    BY <1>2, <2>1
  <2>3. 1 \in 1 .. 10 /\ 2 \in 1 .. 10 /\ 1 <= 5 /\ 2 <= 5
    OBVIOUS
  <2>4. s[1] = f[1] /\ s[2] = f[2]
    BY <2>2, <2>3, Zenon
  <2> QED
    BY <2>1, <2>2, <2>4, Zenon
<1> HIDE DEF s
<1>4. s # <<>>
  BY <1>3
<1>7. Tail(s) # <<>>
  <2>1. Tail(s) = <<>> => Len(s) = 1
    BY <1>3, <1>4, StepAfter
  <2> QED
    BY <1>3, <2>1
<1>8. Head(s) = a /\ Head(Tail(s)) = b
  BY <1>2, <1>3, <1>4, <1>7, StepAfter
<1> QED
  BY <1>4, <1>7, <1>8 DEF s, f, a, b

(* A step of a thread.                                                     *)
LEMMA LateMoves ==
    ASSUME Behind, NEW t \in Threads, MovesOf(t)
    PROVE  Behind'
<1>1. Threads = {"caller", "worker"} /\ DOMAIN todo = Threads /\ DOMAIN looked = Threads /\ DOMAIN lRet = Threads
  BY DEF Behind, Threads
<1>2. DOMAIN todo' = Threads /\ DOMAIN looked' = Threads /\ DOMAIN lRet' = Threads
  BY <1>1 DEF MovesOf, PipeStep, UpdateCounters, SendMessage, WriteHeader, WriteChunk, Receive,
      ReceivePayload, ReadSize, ReadWords, LinkDown, LinkBack, Again, Next1, Threw
<1>3. Do(t) \in Looks \cup {"header", "payload", "back"}
  BY DEF MovesOf, PipeStep, UpdateCounters, SendMessage, WriteHeader, WriteChunk, Receive,
      ReceivePayload, ReadSize, ReadWords, LinkDown, LinkBack, Looks
<1>4. op' = op /\ file' = file /\ worker' = worker /\ worker # "terminate" /\ PipeStep(t)
  BY DEF MovesOf, api, Alive
<1>5. op.name # "upload"
  BY <1>1, <1>3, <1>4 DEF Behind, LateUpload, Looks, None
<1>6. ASSUME op.name = "download"
      PROVE  t = "worker" /\ worker = "fetch" /\ LateFetch /\ file = <<>> /\ Do(t) \in {"send", "receive", "payload"}
  BY <1>1, <1>3, <1>4, <1>6 DEF Behind, LateDownload, LateFetch, Looks, None
<1>7. ASSUME op.name = "download" PROVE LateFetch'
  <2>1. t = "worker" /\ LateFetch /\ Do(t) \in {"send", "receive", "payload"} /\ Do("caller") = None
    BY <1>6, <1>7 DEF LateFetch
  <2>2. Do("caller")' = None
    <3>1. todo'["caller"] = todo["caller"]
      BY <1>1, <1>4, <2>1 DEF PipeStep, UpdateCounters, SendMessage, WriteHeader, WriteChunk, Receive,
          ReceivePayload, ReadSize, ReadWords, LinkDown, LinkBack, Again, Next1, Threw
    <3> QED
      BY <2>1, <3>1 DEF Do
  <2>3. Do(t) \in {"send", "receive"} => /\ Jammed /\ stream.left = 0 /\ Coming[1] # 0
                                         /\ toFpga \in Seq(AnyWord) /\ out \in Seq(AnyWord)
    BY <2>1 DEF LateFetch, Jammed
  <2>4. ASSUME UNCHANGED <<toFpga, mmc>>, Jammed PROVE Jammed'
    BY <2>4 DEF Jammed, Coming, mmc
  <2>5. CASE UpdateCounters(t)
    <3>1. /\ UNCHANGED <<fifos, mmc, todo, lRet>> /\ Do(t) \in Looks /\ m'.data = Level(toFpga)
      BY <2>5 DEF UpdateCounters
    <3>2. /\ toMmc' = toMmc /\ toFpga' = toFpga /\ stream' = stream /\ Do(t)' = Do(t) /\ todo' = todo
          /\ Do(t) \in {"send", "receive"}
      BY <2>1, <3>1 DEF fifos, mmc, Do, Looks
    <3>3. Jammed' /\ stream'.left = 0
      BY <2>3, <2>4, <3>1, <3>2
    <3>4. m'.data \in Nat /\ m'.data <= Len(toFpga')
      <4>1. Len(toFpga) \in Nat
        BY <2>3, <3>2
      <4> QED
        BY <3>1, <3>2, <4>1, LevelFacts
    <3> QED
      BY <2>1, <2>2, <3>2, <3>3, <3>4 DEF LateFetch
  <2>6. CASE SendMessage(t)
    <3>1. /\ Do(t) = "send" /\ UNCHANGED <<toFpga, mmc>>
          /\ \/ Again(t) /\ UNCHANGED toMmc
             \/ Next1(t) /\ toMmc' = toMmc \o Head(todo[t]).words
      BY <2>6 DEF SendMessage
    <3>2. /\ toMmc = <<>> /\ Head(todo[t]).words \in NamesText
          /\ Tail(todo[t]) # <<>> /\ Head(Tail(todo[t])).do = "receive"
      BY <2>1, <3>1 DEF LateFetch
    <3>3. Jammed' /\ stream'.left = 0
      BY <2>3, <2>4, <3>1 DEF mmc
    <3>4. CASE Again(t) /\ UNCHANGED toMmc
      <4>1. todo' = todo /\ Do(t)' = "send" /\ toMmc' = <<>>
        BY <3>1, <3>2, <3>4 DEF Again, Do
      <4> QED
        BY <2>1, <2>2, <3>2, <3>3, <4>1 DEF LateFetch
    <3>5. CASE Next1(t) /\ toMmc' = toMmc \o Head(todo[t]).words
      <4>1. todo'[t] = Tail(todo[t]) /\ looked'[t] = FALSE
        BY <1>1, <3>5 DEF Next1
      <4>2. Do(t)' = "receive"
        BY <3>2, <4>1 DEF Do
      <4>3. toMmc' \in NamesText
        <5>1. PICK x \in Images : Head(todo[t]).words = << "text", 1, x >>
          BY <3>2 DEF NamesText
        <5>2. <<>> \o << "text", 1, x >> = << "text", 1, x >>
          OBVIOUS
        <5> QED
          BY <3>2, <3>5, <5>1, <5>2 DEF NamesText
      <4> QED
        BY <2>1, <2>2, <3>3, <4>1, <4>2, <4>3 DEF LateFetch
    <3> QED
      BY <3>1, <3>4, <3>5
  <2>7. CASE Receive(t)
    <3>1. Do(t) = "receive" /\ UNCHANGED <<toMmc, mmc, m>> /\ looked[t]
      BY <2>1, <2>7 DEF Receive
    <3>2. toMmc \in {<<>>} \cup NamesText /\ m.data \in Nat /\ m.data <= Len(toFpga)
      BY <2>1, <3>1 DEF LateFetch
    <3>3. CASE m.data < 2
      <4>1. Again(t) /\ UNCHANGED <<toFpga, lRet>>
        BY <2>7, <3>3 DEF Receive
      <4>2. todo' = todo /\ Do(t)' = "receive" /\ looked'[t] = FALSE /\ toMmc' = toMmc
        BY <1>1, <3>1, <4>1 DEF Again, Do
      <4>3. Jammed' /\ stream'.left = 0
        BY <2>3, <2>4, <3>1, <4>1 DEF mmc
      <4> QED
        BY <2>1, <2>2, <3>2, <4>2, <4>3 DEF LateFetch
    <3>4. CASE ~(m.data < 2)
      <4>1. lRet' = [lRet EXCEPT ![t] = SubSeq(toFpga, 1, 2)]
            /\ todo' = [todo EXCEPT ![t] = <<[do |-> "payload", size |-> Size(toFpga[2])]>> \o Tail(todo[t])]
        BY <2>7, <3>4 DEF Receive
      <4>2. Len(toFpga) \in Nat /\ Len(toFpga) >= 2
        BY <2>3, <3>1, <3>2, <3>4
      <4>3. SubSeq(toFpga, 1, 2)[1] = toFpga[1]
        BY <2>3, <3>1, <4>2
      <4>4. toFpga[1] # 0
        <5>1. 1 \in 1 .. Len(toFpga)
          BY <4>2
        <5> QED
          BY <2>3, <3>1, <5>1, ComingFacts DEF Coming
      <4>5. lRet'["worker"][1] # 0
        BY <1>1, <2>1, <4>1, <4>3, <4>4
      <4>6. Do(t)' = "payload"
        <5>1. \A a, b : <<a>> \o b # <<>> => Head(<<a>> \o b) = a
          OBVIOUS
        <5> QED
          BY <1>1, <4>1 DEF Do
      <4> QED
        BY <2>1, <2>2, <4>5, <4>6 DEF LateFetch
    <3> QED
      BY <3>3, <3>4
  <2>8. CASE ReceivePayload(t)
    <3>1. Do(t) = "payload"
      BY <2>8 DEF ReceivePayload
    <3>2. Flagged(lRet[t][1])
      BY <2>1, <3>1 DEF LateFetch, Flagged
    <3>3. (todo' = todo /\ lRet' = lRet) \/ Threw(t)
      BY <2>8, <3>2 DEF ReceivePayload
    <3>4. CASE todo' = todo /\ lRet' = lRet
      <4>1. Do(t)' = "payload"
        BY <3>1, <3>4 DEF Do
      <4> QED
        BY <2>1, <2>2, <3>1, <3>4, <4>1 DEF LateFetch
    <3>5. CASE Threw(t)
      <4>1. Do(t)' = "terminate"
        BY <1>1, <2>1, <3>5 DEF Threw, Do, Step
      <4> QED
        BY <2>1, <2>2, <4>1 DEF LateFetch
    <3> QED
      BY <3>3, <3>4, <3>5
  <2>9. CASE LinkDown(t)
    <3>1. Threw(t)
      BY <2>1, <2>9 DEF LinkDown
    <3>2. Do(t)' = "terminate"
      BY <1>1, <2>1, <3>1 DEF Threw, Do, Step
    <3> QED
      BY <2>1, <2>2, <3>2 DEF LateFetch
  <2>10. ~WriteHeader(t) /\ ~WriteChunk(t) /\ ~ReadSize(t) /\ ~ReadWords(t) /\ ~LinkBack(t)
    BY <2>1 DEF WriteHeader, WriteChunk, ReadSize, ReadWords, LinkBack
  <2> QED
    BY <1>4, <2>5, <2>6, <2>7, <2>8, <2>9, <2>10 DEF PipeStep
<1> QED
  BY <1>2, <1>4, <1>5, <1>6, <1>7 DEF Behind, LateDownload

(* A step of the detached thread, or its start.                            *)
LEMMA LateWorks ==
    ASSUME Behind, Works
    PROVE  Behind'
<1>1. Threads = {"caller", "worker"} /\ DOMAIN todo = Threads /\ DOMAIN looked = Threads /\ DOMAIN lRet = Threads
  BY DEF Behind, Threads
<1>2. op' = op /\ looked' = looked /\ lRet' = lRet /\ DOMAIN todo' = Threads /\ UNCHANGED <<fifos, mmc, m>>
  BY <1>1 DEF Works, runDownload, dumpFromFileIntoSD, downloadImage, Terminate, api, pipeVars
<1>3. todo["worker"] = <<>> => Do("worker") = None
  BY DEF Do
<1>4. CASE runDownload
  <2>1. Do("caller") = "start" /\ worker' = "fetch" /\ file' = file
        /\ todo' = [todo EXCEPT !["caller"] = <<>>, !["worker"] = FileFromSD(op.image) \o FileFromSD(op.image)]
    BY <1>4 DEF runDownload
  <2>2. op.name # "upload"
    BY <2>1 DEF Behind, LateUpload, None
  <2>3. ASSUME op.name = "download" PROVE LateDownload'
    <3>1. LateDownload /\ worker # "fetch"
      BY <2>1, <2>3 DEF Behind, LateDownload, LateFetch, None
    <3>2. Jammed /\ toMmc = <<>> /\ stream.left = 0 /\ file = <<>> /\ op.image \in Images
      BY <2>1, <3>1 DEF LateDownload
    <3> DEFINE s == FileFromSD(op.image) \o FileFromSD(op.image)
    <3>3. todo'["caller"] = <<>> /\ todo'["worker"] = s
      BY <1>1, <2>1
    <3>4. /\ s # <<>> /\ Head(s) = Send("text", << op.image >>) /\ Tail(s) # <<>> /\ Head(Tail(s)) = ReceiveOk
      BY <3>2, FetchBegins
    <3> HIDE DEF s
    <3>5. Head(s).do = "send" /\ Head(s).words = << "text", 1, op.image >> /\ Head(Tail(s)).do = "receive"
      <4>1. Send("text", << op.image >>) = [do |-> "send", words |-> << "text", 1, op.image >>]
        BY SendFacts, Zenon
      <4>2. Head(s) = [do |-> "send", words |-> << "text", 1, op.image >>]
        BY <3>4, <4>1
      <4> QED
        BY <3>4, <4>2 DEF ReceiveOk, Step
    <3>6. Do("caller")' = None /\ Do("worker")' = "send"
      BY <3>3, <3>4, <3>5 DEF Do
    <3>7. Jammed' /\ toMmc' = <<>> /\ stream'.left = 0
      BY <1>2, <3>2 DEF fifos, mmc, Jammed, Coming
    <3>8. Head(todo'["worker"]).words \in NamesText
      BY <3>2, <3>3, <3>5 DEF NamesText
    <3> QED
      BY <2>1, <3>2, <3>3, <3>4, <3>5, <3>6, <3>7, <3>8 DEF LateDownload, LateFetch
  <2> QED
    BY <1>1, <1>2, <2>2, <2>3 DEF Behind
<1>5. CASE dumpFromFileIntoSD
  <2>1. /\ worker \in {"store", "boot"} /\ todo["worker"] = <<>> /\ file' = file
        /\ worker = "boot" => worker' = "done" /\ todo' = todo
    BY <1>5 DEF dumpFromFileIntoSD, api
  <2>2. op.name # "download"
    BY <2>1 DEF Behind, LateDownload
  <2>3. ASSUME op.name = "upload" PROVE LateUpload'
    <3>1. LateUpload /\ worker = "boot"
      BY <1>3, <2>1, <2>3 DEF Behind, LateUpload, None
    <3>2. Do("worker")' = Do("worker") /\ Do("caller")' = Do("caller") /\ worker' = "done"
      BY <2>1, <3>1 DEF Do
    <3>3. toMmc' = toMmc /\ stream' = stream /\ (InMemory => InMemory')
      BY <1>2 DEF fifos, mmc, InMemory
    <3> QED
      BY <3>1, <3>2, <3>3 DEF LateUpload
  <2> QED
    BY <1>1, <1>2, <2>2, <2>3 DEF Behind
<1>6. CASE downloadImage
  <2>1. worker = "fetch" /\ todo["worker"] = <<>>
    BY <1>6 DEF downloadImage
  <2>2. op.name # "upload" /\ op.name # "download"
    BY <1>3, <2>1 DEF Behind, LateUpload, LateDownload, LateFetch, None
  <2> QED
    BY <1>1, <1>2, <2>2 DEF Behind
<1>7. CASE Terminate
  <2>1. Do("worker") = "terminate" /\ worker' = "terminate" /\ UNCHANGED <<pipeVars, api>>
    BY <1>7 DEF Terminate
  <2>2. /\ todo' = todo /\ file' = file /\ toMmc' = toMmc /\ stream' = stream
        /\ (Jammed => Jammed')
        /\ Do("worker")' = "terminate" /\ Do("caller")' = Do("caller")
    BY <2>1 DEF pipeVars, api, fifos, mmc, Jammed, Coming, Do
  <2>3. LateUpload => LateUpload'
    BY <2>1, <2>2 DEF LateUpload
  <2>4. LateDownload => LateDownload'
    BY <1>2, <2>1, <2>2 DEF LateDownload, LateFetch, None
  <2> QED
    BY <1>1, <1>2, <2>2, <2>3, <2>4 DEF Behind
<1> QED
  BY <1>4, <1>5, <1>6, <1>7 DEF Works

(* Every step of the board with an SD card keeps both invariants.          *)
LEMMA FpgaStep ==
    ASSUME FpgaInv, SdNext
    PROVE  FpgaInv'
<1>1. torn' = torn \/ \E t \in Threads : MovesOf(t) /\ ReceivePayload(t)
  BY TornThere
<1>2. torn => torn'
  BY <1>1 DEF ReceivePayload
<1>3. ~torn' => SdInv'
  BY <1>2, SdStep DEF FpgaInv
<1>4. ASSUME torn', op'.inStep PROVE Behind'
  <2>1. CASE ~torn
    BY <1>1, <1>4, <2>1, TornStep DEF FpgaInv
  <2>2. CASE torn
    <3>1. op' = op
      BY <1>4, <2>2, TornThere
    <3>2. Behind
      BY <1>4, <2>2, <3>1 DEF FpgaInv
    <3>3. ASSUME Caller PROVE Behind'
      <4>1. Refused
        BY <1>4, <2>2, <3>3, TornThere
      <4>2. UNCHANGED <<fifos, mmc, todo, looked, m, lRet, op, file, worker>>
        BY <4>1 DEF Refused, pipeVars
      <4> QED
        BY <3>2, <4>2, LateStays
    <3> QED
      BY <3>2, <3>3, LateBoard, LateMoves, LateWorks DEF SdNext, Moves
  <2> QED
    BY <2>1, <2>2
<1> QED
  BY <1>3, <1>4 DEF FpgaInv

-----------------------------------------------------------------------------
(* The theorems.                                                           *)

(* Whatever file is uploaded, whatever the flash reports, the words of an  *)
(* upload end in their places, and the other image is never touched.       *)
THEOREM FlashIsRight == Spec => []FlashRight
<1>1. Init => GlibInv
  BY GlibInitially DEF Init
<1>2. GlibInv /\ [Next]_vars => GlibInv'
  <2> SUFFICES ASSUME GlibInv, [Next]_vars PROVE GlibInv'
    OBVIOUS
  <2>1. CASE GlibNext
    BY <2>1, GlibStep
  <2>2. CASE UNCHANGED glibVars
    BY <2>2, FlashAlone DEF glibVars
  <2> QED
    BY <2>1, <2>2 DEF Next, InSd, InGlib, InIrrad, vars
<1>3. GlibInv => FlashRight
  BY DEF GlibInv
<1> QED
  BY <1>1, <1>2, <1>3, PTL DEF Spec

(* A watchdog bites only after its deadline, and not after it was joined.  *)
THEOREM WatchdogBitesInTime == Spec => []BitesInTime
<1>1. Init => DogInv
  BY DEF Init, InitDog, DogInv, MutexOK, DeadlineHeld, JoinedEnded, BitesInTime, Running
<1>2. DogInv /\ [Next]_vars => DogInv'
  <2> SUFFICES ASSUME DogInv, [Next]_vars PROVE DogInv'
    OBVIOUS
  <2>1. CASE DogNext
    BY <2>1, DogStep
  <2>2. CASE UNCHANGED dogVars
    BY <2>2 DEF dogVars, threadVars, DogInv, MutexOK, DeadlineHeld, JoinedEnded, BitesInTime,
         Running
  <2> QED
    BY <2>1, <2>2 DEF Next, InSd, InGlib, InIrrad, vars
<1>3. DogInv => BitesInTime
  BY DEF DogInv
<1> QED
  BY <1>1, <1>2, <1>3, PTL DEF Spec

(* Every step of the board with an SD card keeps its invariants, and so do *)
(* the other programs.                                                     *)
LEMMA SdAlways == Spec => []FpgaInv
<1>1. Init => FpgaInv
  BY InitialSd DEF Init, FpgaInv, InitFpgaConfig, InitPipe
<1>2. FpgaInv /\ [Next]_vars => FpgaInv'
  <2> SUFFICES ASSUME FpgaInv, [Next]_vars PROVE FpgaInv'
    OBVIOUS
  <2>1. CASE SdNext
    BY <2>1, FpgaStep
  <2>2. CASE UNCHANGED sdVars
    <3>1. UNCHANGED <<fifos, mmc, todo, looked, m, torn, lRet, reads, numUploadingFpga, op, file, worker>>
      BY <2>2 DEF sdVars, pipeVars
    <3>2. UNCHANGED <<fifos, mmc, todo, looked, m, lRet, op, file, worker>> /\ torn' = torn /\ op' = op
      BY <3>1
    <3>3. SdInv => SdInv'
      BY <3>1, Stays
    <3>4. Behind => Behind'
      BY <3>2, LateStays
    <3> QED
      BY <3>2, <3>3, <3>4 DEF FpgaInv
  <2> QED
    BY <2>1, <2>2 DEF Next, InSd, InGlib, InIrrad, vars
<1> QED
  BY <1>1, <1>2, PTL DEF Spec

(* As long as every reply was read in full, no block is read from a FIFO   *)
(* that is not in it, but for two words of a text that ends its operation, *)
(* and none is written that it has no room for: for any images, any size   *)
(* of the FIFOs, any number of refusals and calls, and replies that come   *)
(* word by word.                                                           *)
THEOREM TransfersAlwaysFit == Spec => []TransfersFit
<1>1. FpgaInv => TransfersFit
  BY FittingSd DEF FpgaInv, TransfersFit
<1> QED
  BY <1>1, SdAlways, PTL

(* The image an upload has stored is the one it was given, and a word of a *)
(* download differs from the card's only if two of its reads did, even     *)
(* when a reply is read before all of it has come.                         *)
THEOREM ImagesAreRight == Spec => []ImagesRight
<1>1. FpgaInv => ImagesRight
  <2> SUFFICES ASSUME FpgaInv, op.inStep PROVE ImagesRight
    BY DEF ImagesRight
  <2>1. CASE ~torn
    BY <2>1, RightSd DEF FpgaInv
  <2>2. CASE torn
    <3>1. Behind
      BY <2>2 DEF FpgaInv
    <3> QED
      BY <3>1 DEF Behind, LateUpload, LateDownload, ImagesRight, InMemory
  <2> QED
    BY <2>1, <2>2
<1> QED
  BY <1>1, SdAlways, PTL
=============================================================================
