---------------------------- MODULE EventFormats ----------------------------
(***************************************************************************)
(* Utils/Cbc2Event, Cbc3Event, D19cCbc3Event, D19cCbc3EventZS and          *)
(* D19cMPAEvent: one event as the board sends it is cut into the words of  *)
(* each chip (SetEvent), read through the accessors, and written again in  *)
(* the S-link format, module by module (GetSLinkEvent).                    *)
(*                                                                         *)
(* A word of 32 bits is the set of its bits that are 1; a field of a word  *)
(* is the set of its bits counted from its lowest.  Where                  *)
(* calculate_address() gives a bit above 31 the shift is undefined in C++  *)
(* and by the bit modulo 32 on x86-64.  What the boards send is external.  *)
(***************************************************************************)
EXTENDS GenericPayload

CONSTANTS Formats,   (* the event classes                                  *)
          Boards,    (* modules of the software, each with its chips       *)
          Contents,  (* what the two chips of a module may have to report  *)
          Modes,     (* SLinkDebugMode                                     *)
          CondData   (* numbers of condition data items                    *)

Channels == 0..253
Header1 == 5
Header2 == 1
Cbc3Size == 11
MPASize == 32

VARIABLES
    fmt, mode, cond, (* the event class, the debug mode, the condition data *)
    board,         (* pBoard: module -> chips the software knows           *)
    sent,          (* module -> chip -> what the chip reported             *)
    list,          (* the words of the event                               *)
    fEventDataMap, (* <<module, chip>> -> words                            *)
    payload,       (* cPayload, cStubPayload, cStatusPayload               *)
    cFe,           (* modules GetSLinkEvent has done                       *)
    slink,         (* SLinkEvent: fData, fSize and the length it carries   *)
    pc

vars == <<fmt, mode, cond, board, sent, list, fEventDataMap, payload, cFe, slink, pc>>

Field(w, lo, hi) == {b - lo : b \in w \cap (lo..hi)}
At(s, lo)        == {b + lo : b \in s}
Value(s)         == MapThenSumSet(LAMBDA b : 2^b, s)
Bin(n)           == {b \in 0..15 : (n \div (2^b)) % 2 = 1}
Ordered(S, Key(_)) == [k \in 1..Cardinality(S) |->
    CHOOSE x \in S : Cardinality({y \in S : Key(y) < Key(x)}) = k - 1]
Sorted(S)        == Ordered(S, LAMBDA n : n)
Flat(ss)         == FoldLeft(LAMBDA s, t : s \o t, <<>>, ss)
PopCount(d, K)   == MapThenSumSet(LAMBDA k : Cardinality(d[k]), K)

(* reverse_bits() *)
reverse_bits(w) == {31 - b : b \in w}

---------------------------------------------------------------------------
(* Where a format keeps channel i: the word, from 0, and the bit in it.    *)
Cbc2Address(i) == <<(i + 10) \div 32, 31 - ((i + 10) % 32)>>
Cbc3Address(i) == <<2 + ((i + 28) \div 32), (i + 28) % 32>>

X_calculate_address_190(i) ==  (* Faulty variant: the last range begins one channel late. *)
    LET first == IF i % 2 = 1 THEN 7 ELSE 3 IN
    CASE i <= 61            -> <<first, i \div 2>>
      [] i \in 62..125      -> <<first - 1, (i - 62) \div 2>>
      [] i \in 126..190     -> <<first - 2, ((i - 62) \div 2) % 32>>
      [] i > 190            -> <<first - 3, (i - 190) \div 2>>

calculate_address(i) ==
    LET first == IF i % 2 = 1 THEN 7 ELSE 3 IN
    CASE i <= 61       -> <<first, i \div 2>>
      [] i \in 62..125  -> <<first - 1, (i - 62) \div 2>>
      [] i \in 126..189 -> <<first - 2, ((i - 62) \div 2) % 32>>
      [] i >= 190       -> <<first - 3, (i - 190) \div 2>>

(* DataBit(), DataBitString(), DataBitVector() and GetHits() of each       *)
(* format: the channels whose bit is 1 in the words d.                     *)
Cbc2Hits(d) == {i \in Channels : Cbc2Address(i)[2] \in d[Cbc2Address(i)[1] + 1]}
Cbc3Hits(d) == {i \in Channels : Cbc3Address(i)[2] \in d[Cbc3Address(i)[1] + 1]}
D19cHits(d) == {i \in Channels :
                  calculate_address(i)[2] \in d[calculate_address(i)[1] + 1]}

(* GetNHits() counts the bits of the words instead. *)
Cbc2NHits(d) == PopCount([d EXCEPT ![1] = Low(@, 22), ![9] = Shr(@, 24)], 1..9)
Cbc3NHits(d) == PopCount([d EXCEPT ![3] = Shr(@, 28), ![11] = Low(@, 26)], 3..11)
D19cNHits(d) == PopCount([d EXCEPT ![8] = Low(@, 31), ![4] = Low(@, 31)], 1..8)

(* getClusters() of the unsparsified formats: runs of neighbouring strips  *)
(* of one sensor; the sensor is the parity of the channel.                 *)
Clusters(hits) ==
    {[fSensor |-> i % 2, fFirstStrip |-> i \div 2,
      fClusterWidth |-> CHOOSE n \in 1..127 :
          (\A j \in 0..n-1 : i + (2 * j) \in hits) /\ i + (2 * n) \notin hits]
     : i \in {i \in hits : i - 2 \notin hits}}
Cbc2Clusters(d) == Clusters(Cbc2Hits(d))
Cbc3Clusters(d) == Clusters(Cbc3Hits(d))
D19cClusters(d) == Clusters(D19cHits(d))
ChannelsOf(c) == {(2 * (c.fFirstStrip + j)) + c.fSensor : j \in 0..c.fClusterWidth-1}

(* StubVector(): a stub whose position is 0 is no stub. *)
Stubs(pairs) == SelectSeq(pairs, LAMBDA s : s.pos # {})
Stub(pos, bend) == [pos |-> pos, bend |-> bend]
Cbc2StubBit(d) == 0 \in d[9]
Cbc3StubVector(d) ==
    Stubs(<<Stub(Field(d[2], 0, 7), Field(d[2], 24, 27)),
            Stub(Field(d[2], 8, 15), Field(d[2], 28, 31)),
            Stub(Field(d[2], 16, 23), Field(d[3], 0, 3))>>)
D19cStubVector(d) ==
    Stubs(<<Stub(Field(d[10], 0, 7), Field(d[11], 8, 11)),
            Stub(Field(d[10], 8, 15), Field(d[11], 16, 19)),
            Stub(Field(d[10], 16, 23), Field(d[11], 24, 27))>>)
MPAStubVector(d) ==
    Stubs(<<Stub(Field(d[30], 0, 7), Field(d[30], 12, 15)),
            Stub(Field(d[30], 16, 23), Field(d[30], 28, 31)),
            Stub(Field(d[31], 0, 7), Field(d[31], 12, 15)),
            Stub(Field(d[31], 16, 23), Field(d[31], 28, 31)),
            Stub(Field(d[32], 0, 7), Field(d[32], 12, 15))>>)

(* Error() and PipelineAddress(), and the L1 counter beside them. *)
Cbc2Status(d) == [err |-> Field(d[1], 30, 31), pipe |-> Field(d[1], 22, 29), l1 |-> {}]
Cbc3Status(d) == LET r == reverse_bits(d[3]) IN
    [err |-> Field(r, 22, 23), pipe |-> Field(r, 13, 21), l1 |-> Field(r, 4, 12)]
D19cStatus(d) == [err |-> Field(d[9], 0, 1), pipe |-> Field(d[9], 4, 12),
                  l1 |-> Field(d[9], 16, 24)]
MPAStatus(d)  == [err |-> Field(d[1], 0, 1), pipe |-> {}, l1 |-> Field(d[1], 4, 12)]

(* The words of a sparsified event: two clusters, a stub, or the status. *)
Type(w) == Value(Field(w, 27, 28))
Chip(w) == Value(Field(w, 29, 31))
ZSCluster(address, width) == [first |-> Value(address), width |-> Value(width) + 1]
ZSClusters(d) ==
    LET Of(w) == IF Type(w) # 0 THEN <<>> ELSE
            (IF 24 \in w THEN <<ZSCluster(Field(w, 3, 10), Field(w, 0, 2))>> ELSE <<>>) \o
            (IF 25 \in w THEN <<ZSCluster(Field(w, 14, 21), Field(w, 11, 13))>> ELSE <<>>)
    IN  Flat([k \in DOMAIN d |-> Of(d[k])])
ZSStubVector(d) ==
    LET words == SelectSeq(d, LAMBDA w : Type(w) = 1)
    IN  [k \in DOMAIN words |-> Stub(Field(words[k], 13, 20), Field(words[k], 6, 9))]
ZSHits(d) == UNION {{c.first + (2 * j) : j \in 0..c.width-1} : c \in ToSet(ZSClusters(d))}
ZSNHits(d) == FoldLeft(LAMBDA n, c : n + c.width, 0, ZSClusters(d))
ZSStatus(d) == LET words == SelectSeq(d, LAMBDA w : Type(w) = 2) IN
    IF words = <<>> THEN [err |-> {}, pipe |-> {}, l1 |-> {}]
    ELSE [err |-> Field(Last(words), 0, 1), pipe |-> Field(Last(words), 4, 12), l1 |-> {}]

(* GetStripClusters() and GetPixelClusters(): two clusters to a word. *)
GetNStripClusters(d) == Value(Field(d[1], 16, 20))
GetNPixelClusters(d) == Value(Field(d[1], 24, 28))
Strip(w, half) == [address |-> Value(Field(w, 16 * half, (16 * half) + 6)) - 1,
                   mip |-> Field(w, (16 * half) + 7, (16 * half) + 7),
                   width |-> Field(w, (16 * half) + 8, (16 * half) + 10)]
Pixel(w, half) == [address |-> Value(Field(w, 16 * half, (16 * half) + 6)) - 1,
                   width |-> Field(w, (16 * half) + 7, (16 * half) + 9),
                   z |-> Field(w, (16 * half) + 10, (16 * half) + 13)]
GetStripClusters(d) == [k \in 1..GetNStripClusters(d) |->
                          Strip(d[2 + ((k - 1) \div 2)], (k - 1) % 2)]
GetPixelClusters(d) == [k \in 1..GetNPixelClusters(d) |->
                          Pixel(d[14 + ((k - 1) \div 2)], (k - 1) % 2)]
MPANHits(d) == GetNPixelClusters(d) + GetNStripClusters(d)
GetSync1(d) == 25 \in d[32]
GetSync2(d) == 24 \in d[32]
GetBX1_NStubs(d) == Field(d[32], 16, 18)

(* The bit views of the MPA event are those of the CBC: they take its      *)
(* words for channels, and DataBitVector() stops at a word that is not     *)
(* there.  StubBit() looks at the word of the CBC's stubs.                 *)
MPADataBit(d, i) == LET a == calculate_address(i) IN
    i \in Channels /\ a[1] < Len(d) /\ a[2] \in d[a[1] + 1]
MPADataBitVector(d, channels) ==
    LET out == {k \in DOMAIN channels : calculate_address(channels[k])[1] >= Len(d)}
    IN  [k \in 1..Min({Len(channels) + 1} \cup out) - 1 |->
           LET a == calculate_address(channels[k]) IN a[2] \in d[a[1] + 1]]
MPAHits(d) == LET bits == MPADataBitVector(d, [k \in 1..Cardinality(Channels) |-> k - 1])
              IN  {k - 1 : k \in {k \in DOMAIN bits : bits[k]}}
MPAStubBit(d) == Field(d[10], 0, 23) # {}

(* GetCbcEvent() as bytes, the highest of each word first. *)
GetCbcEvent(d) == [k \in 1..4 * Len(d) |->
    LET low == 8 * (3 - ((k - 1) % 4)) IN Field(d[((k - 1) \div 4) + 1], low, low + 7)]

---------------------------------------------------------------------------
(* What the chips and the boards send (external). *)
ChannelWords(n, hits, Address(_)) ==
    [k \in 1..n |-> {Address(i)[2] : i \in {i \in hits : Address(i)[1] = k - 1}}]
(* The firmware's strips of one sensor, 31 in the first word, then 32. *)
D19cAddress(i) ==
    LET first == IF i % 2 = 1 THEN 7 ELSE 3
        k == i \div 2
    IN  IF k < 31 THEN <<first, k>>
        ELSE <<first - 1 - ((k - 31) \div 32), (k - 31) % 32>>
Nth(ss, k, f) == IF k \in DOMAIN ss THEN ss[k][f] ELSE {}
Plus(words, extra) == [k \in DOMAIN words |->
    words[k] \cup IF k \in DOMAIN extra THEN extra[k] ELSE {}]

Cbc2Words(c) == Plus(ChannelWords(9, c.hits, Cbc2Address),
    (1 :> (At(c.err, 30) \cup At(c.pipe \cap (0..7), 22)))
      @@ (9 :> IF c.stubs # <<>> THEN {0} ELSE {}))
Cbc3Words(c) == Plus(ChannelWords(11, c.hits, Cbc3Address),
    (2 :> (At(Nth(c.stubs, 1, "pos"), 0) \cup At(Nth(c.stubs, 2, "pos"), 8)
             \cup At(Nth(c.stubs, 3, "pos"), 16) \cup At(Nth(c.stubs, 1, "bend"), 24)
             \cup At(Nth(c.stubs, 2, "bend"), 28)))
      @@ (3 :> (Nth(c.stubs, 3, "bend") \cup {7} \cup
                reverse_bits(At(c.err, 22) \cup At(c.pipe, 13) \cup At(c.l1, 4)))))
D19cWords(c) == Plus(ChannelWords(Cbc3Size, c.hits, D19cAddress),
    (9 :> (c.err \cup At(c.pipe, 4) \cup At(c.l1, 16)))
      @@ (10 :> (Nth(c.stubs, 1, "pos") \cup At(Nth(c.stubs, 2, "pos"), 8)
                   \cup At(Nth(c.stubs, 3, "pos"), 16)))
      @@ (11 :> ({3} \cup At(Nth(c.stubs, 1, "bend"), 8) \cup At(Nth(c.stubs, 2, "bend"), 16)
                   \cup At(Nth(c.stubs, 3, "bend"), 24))))
MPAWords(c) ==
    LET Half(w, k) == At(w, 16 * ((k - 1) % 2))
        S(k) == Half(Bin(c.strips[k].address + 1) \cup At(c.strips[k].mip, 7)
                       \cup At(c.strips[k].width, 8), k)
        P(k) == Half(Bin(c.pixels[k].address + 1) \cup At(c.pixels[k].width, 7)
                       \cup At(c.pixels[k].z, 10), k)
        T(k) == Half(c.stubs[k].pos \cup At(c.stubs[k].bend, 12), k)
        At2(first, n, W(_)) == [word \in 1..MPASize |->
            UNION {W(k) : k \in {k \in 1..n : first + ((k - 1) \div 2) = word}}]
    IN  [word \in 1..MPASize |->
            At2(2, Len(c.strips), S)[word] \cup At2(14, Len(c.pixels), P)[word]
              \cup At2(30, Len(c.stubs), T)[word]
              \cup (IF word = 1 THEN c.err \cup At(c.l1, 4) \cup At(Bin(Len(c.strips)), 16)
                                      \cup At(Bin(Len(c.pixels)), 24) ELSE {})
              \cup (IF word = MPASize THEN {25} \cup At(c.bx1, 16) ELSE {})]

(* The clusters of a sparsified event are at most 8 strips wide. *)
ZSRuns(hits) == Flat([k \in 1..2 |->
    LET runs == {c \in Clusters(hits) : c.fSensor = k - 1}
        Parts(c) == {[first |-> (2 * (c.fFirstStrip + (8 * j))) + c.fSensor,
                      width |-> IF c.fClusterWidth - (8 * j) > 8 THEN 8
                                ELSE c.fClusterWidth - (8 * j)]
                     : j \in 0..((c.fClusterWidth - 1) \div 8)}
    IN  Ordered(UNION {Parts(c) : c \in runs}, LAMBDA r : r.first)])
ZSWords(c, chip) ==
    LET runs == ZSRuns(c.hits)
        Id   == At(Bin(chip), 29)
        Pair(k) == Id \cup {24} \cup At(Bin(runs[k].first), 3) \cup Bin(runs[k].width - 1)
                     \cup IF k + 1 > Len(runs) THEN {}
                          ELSE {25} \cup At(Bin(runs[k + 1].first), 14)
                                 \cup At(Bin(runs[k + 1].width - 1), 11)
    IN  [k \in 1..((Len(runs) + 1) \div 2) |-> Pair((2 * k) - 1)]
        \o [k \in DOMAIN c.stubs |-> Id \cup {27, 3} \cup At(c.stubs[k].pos, 13)
                                       \cup At(c.stubs[k].bend, 6)]
        \o <<Id \cup {28} \cup c.err \cup At(c.pipe, 4)>>

ChipWords(f, c, chip) ==
    CASE f = "Cbc2" -> Cbc2Words(c) [] f = "Cbc3" -> Cbc3Words(c)
      [] f = "D19cCbc3" -> D19cWords(c) [] f = "D19cMPA" -> MPAWords(c)
      [] f = "D19cCbc3ZS" -> ZSWords(c, chip)

ModuleWords(f, chips) == Flat([k \in 1..Cardinality(DOMAIN chips) |->
    LET chip == Sorted(DOMAIN chips)[k] IN ChipWords(f, chips[chip], chip)])
D19cEvent(f, data) ==
    LET Fe(fe) == LET words == ModuleWords(f, data[fe])
                      mask  == IF f = "D19cCbc3ZS" THEN {} ELSE At(DOMAIN data[fe], 24)
                  IN  <<Bin(Len(words) + 1) \cup {16} \cup mask>> \o words
        body == Flat([k \in 1..Cardinality(DOMAIN data) |-> Fe(Sorted(DOMAIN data)[k])])
    IN  <<Bin(Len(body) + Header1) \cup At(DOMAIN data, 16) \cup At(Bin(Header1), 24),
          {}, {}, {}, {}>> \o body
PlainEvent(f, data) ==
    LET body == Flat([k \in 1..Cardinality(DOMAIN data) |->
                        ModuleWords(f, data[Sorted(DOMAIN data)[k]])])
        chips == MapThenSumSet(LAMBDA fe : Cardinality(DOMAIN data[fe]), DOMAIN data)
    IN  IF f = "Cbc2" THEN <<{}, {}, {}, {}, {}>> \o body \o <<{}>>
        ELSE <<Bin(Len(body)) \cup At(Bin(chips), 12), {}, {}>> \o body
EventWords(f, data) == IF f \in {"Cbc2", "Cbc3"} THEN PlainEvent(f, data)
                       ELSE D19cEvent(f, data)

---------------------------------------------------------------------------
(* SetEvent().  Cbc2: every module before this one is taken to have as     *)
(* many chips as this one; the module is known by its place in the list.   *)
Cbc2SetEvent(words) ==
    LET fes == Sorted(DOMAIN board)
        N(fe) == Cardinality(board[fes[fe + 1]])
        Begin(key) == 5 + (9 * ((key[1] * N(key[1])) + key[2]))
    IN  [key \in {<<fe, chip>> \in (0..Len(fes)-1) \X (0..7) : chip < N(fe)}
           |-> SubSeq(words, Begin(key) + 1, Begin(key) + 9)]

(* Cbc3: the number of chips comes from the header, the same for every     *)
(* module.                                                                 *)
Cbc3SetEvent(words) ==
    LET n == Value(Field(words[1], 12, 15))
        Begin(key) == 3 + (Cbc3Size * ((key[1] * n) + key[2]))
    IN  [key \in (0..Cardinality(DOMAIN board)-1) \X (0..n-1)
           |-> SubSeq(words, Begin(key) + 1, Begin(key) + Cbc3Size)]

(* D19cCbc3 and D19cMPA: the modules and chips of the masks the board sent, *)
(* each chip size words.                                                   *)
X_D19cSetEvent_Header(words, size) ==  (* Faulty variant: the header of the module is not skipped. *)
    LET Fe(at, fe) ==
            LET chips == Field(words[at.offset + 1], 24, 31)
                Begin(chip) == at.offset + Header2
                                 + (size * Cardinality({c \in chips : c < chip}))
            IN  [offset |-> at.offset + (size * Cardinality(chips)),
                 data |-> [key \in {fe} \X chips |-> SubSeq(words, Begin(key[2]) + 1,
                                                     Begin(key[2]) + size)] @@ at.data]
    IN  FoldLeft(Fe, [offset |-> Header1, data |-> <<>>],
                 Sorted(Field(words[1], 16, 23))).data

D19cSetEvent(words, size) ==
    LET Fe(at, fe) ==
            LET chips == Field(words[at.offset + 1], 24, 31)
                Begin(chip) == at.offset + Header2
                                 + (size * Cardinality({c \in chips : c < chip}))
            IN  [offset |-> at.offset + (size * Cardinality(chips)) + Header2,
                 data |-> [key \in {fe} \X chips |-> SubSeq(words, Begin(key[2]) + 1,
                                                     Begin(key[2]) + size)] @@ at.data]
    IN  FoldLeft(Fe, [offset |-> Header1, data |-> <<>>],
                 Sorted(Field(words[1], 16, 23))).data

D19cMPASetEvent(words) == D19cSetEvent(words, MPASize)

(* D19cCbc3ZS: the words of a chip are the last run of words with its id;  *)
(* the size that is added after the header has been passed counts it too.  *)
(* A place beyond the event makes at() throw.                              *)
ZSSetEvent(words) ==
    LET Fe(at, fe) ==
            IF fe \notin Field(words[1], 16, 23) \/ at.threw THEN at
            ELSE IF at.offset >= Len(words) THEN [at EXCEPT !.threw = TRUE]
            ELSE LET size  == Value(Field(words[at.offset + 1], 0, 15))
                     first == at.offset + Header2 + 1
                     last  == at.offset + size
                     Mine(chip) == {k \in first..last : Chip(words[k]) = chip}
                     Run(chip) ==
                        LET end == CHOOSE k \in Mine(chip) : \A j \in Mine(chip) : j <= k
                        IN  {k \in Mine(chip) : (k..end) \subseteq Mine(chip)}
                 IN  IF last > Len(words) THEN [at EXCEPT !.threw = TRUE]
                     ELSE [at EXCEPT !.offset = @ + Header2 + size, !.data =
                        [key \in {fe} \X {Chip(words[k]) : k \in first..last} |->
                           SubSeq(words, Min(Run(key[2])), Max(Run(key[2])))] @@ @]
    IN  FoldLeft(Fe, [offset |-> Header1, data |-> <<>>, threw |-> FALSE],
                 Sorted(DOMAIN board))

---------------------------------------------------------------------------
(* GetSLinkEvent(): what one chip adds to the payload and to the status.   *)
Appended(p, parts) == FoldLeft(LAMBDA q, part : append(q, part[1], part[2]), p, parts)

Cbc2Payload(p, d) ==
    padZero(Appended(p, <<<<Low(d[1], 22), 22>>>> \o [k \in 1..7 |-> <<d[k + 1], 32>>]
                          \o <<<<Shr(d[9], 24), 8>>>>), 2)
Cbc3Payload(p, d) ==
    padZero(Appended(p, <<<<reverse_bits(d[3] \cap (28..31)), 4>>>>
                          \o [k \in 1..7 |-> <<reverse_bits(d[k + 3]), 32>>]
                          \o <<<<Shr(reverse_bits(Low(d[11], 26)), 6), 26>>>>), 2)
D19cPayload(p, d) ==
    LET first == appendD19CData(p, Shr(reverse_bits(d[4]), 1), Shr(reverse_bits(d[8]), 1), 62)
        Next3(q, i) == appendD19CData(q, reverse_bits(d[i]), reverse_bits(d[i + 4]), 64)
    IN  padZero(FoldLeft(Next3, first, <<3, 2, 1>>), 2)
ZSPayload(p, d, chip) ==
    Appended(p, [k \in DOMAIN ZSClusters(d) |->
        <<At(Bin(chip), 11) \cup At(Bin(ZSClusters(d)[k].first), 3)
            \cup Bin(ZSClusters(d)[k].width - 1), 16>>])

StubPayload(p, stubs, chip) ==
    Appended(p, [k \in DOMAIN stubs |->
        <<At(Bin(chip), 12) \cup At(stubs[k].pos, 4) \cup stubs[k].bend, 16>>])

(* set() *)
set(p, position) == [p EXCEPT !.fData[(position \div WORDSIZE) + 1] =
                        @ \cup {(WORDSIZE - 1 - position) % WORDSIZE}]
Cbc2Stub(p, d, fe, chip) == IF Cbc2StubBit(d) THEN set(p, 255 - (16 * fe) - chip) ELSE p

(* The status of a chip: nothing in SUMMARY, whether there is an error in  *)
(* ERROR (the literal is an int: 32 bits), all of it in FULL.              *)
Cbc2StatusWord(p, d) ==
    LET s == Cbc2Status(d) IN
    CASE mode = "SUMMARY" -> p [] mode = "ERROR" -> append(p, s.err, 2)
      [] mode = "FULL" -> append(p, At(s.err, 8) \cup s.pipe, 10)
StatusWord(p, s) ==
    CASE mode = "SUMMARY" -> p
      [] mode = "ERROR" -> append(p, IF s.err # {} THEN {0} ELSE {}, 32)
      [] mode = "FULL" -> append(p, At(s.err, 18) \cup At(s.pipe, 9) \cup s.l1, 20)

GetHits(d) == CASE fmt = "Cbc2" -> Cbc2Hits(d) [] fmt = "Cbc3" -> Cbc3Hits(d)
                [] fmt = "D19cCbc3" -> D19cHits(d) [] fmt = "D19cCbc3ZS" -> ZSHits(d)
GetNHits(d) == CASE fmt = "Cbc2" -> Cbc2NHits(d) [] fmt = "Cbc3" -> Cbc3NHits(d)
                 [] fmt = "D19cCbc3" -> D19cNHits(d) [] fmt = "D19cCbc3ZS" -> ZSNHits(d)
                 [] fmt = "D19cMPA" -> MPANHits(d)
getClusters(d) == CASE fmt = "Cbc2" -> Cbc2Clusters(d) [] fmt = "Cbc3" -> Cbc3Clusters(d)
                    [] fmt = "D19cCbc3" -> D19cClusters(d)
StubVector(d) == CASE fmt = "Cbc2" -> IF Cbc2StubBit(d) THEN <<Stub({}, {})>> ELSE <<>>
                   [] fmt = "Cbc3" -> Cbc3StubVector(d)
                   [] fmt = "D19cCbc3" -> D19cStubVector(d)
                   [] fmt = "D19cCbc3ZS" -> ZSStubVector(d)
                   [] fmt = "D19cMPA" -> MPAStubVector(d)
Status(d) == CASE fmt = "Cbc2" -> Cbc2Status(d) [] fmt = "Cbc3" -> Cbc3Status(d)
               [] fmt = "D19cCbc3" -> D19cStatus(d) [] fmt = "D19cCbc3ZS" -> ZSStatus(d)
               [] fmt = "D19cMPA" -> MPAStatus(d)

(* What one chip of a module adds to the three payloads. *)
Cbc2AddChip(all, d, fe, chip) ==
    [data |-> Cbc2Payload(all.data, d), stub |-> Cbc2Stub(all.stub, d, fe, chip),
     status |-> Cbc2StatusWord(all.status, d)]
Cbc3AddChip(all, d, chip) ==
    [data |-> Cbc3Payload(all.data, d),
     stub |-> StubPayload(all.stub, Cbc3StubVector(d), chip),
     status |-> StatusWord(all.status, Cbc3Status(d))]
D19cAddChip(all, d, chip) ==
    [data |-> D19cPayload(all.data, d),
     stub |-> StubPayload(all.stub, D19cStubVector(d), chip),
     status |-> StatusWord(all.status, D19cStatus(d))]
ZSAddChip(all, d, chip) ==
    [data |-> ZSPayload(all.data, d, chip),
     stub |-> StubPayload(all.stub, ZSStubVector(d), chip),
     status |-> appendBit(all.status, ZSStatus(d).err # {})]

(* The MPA event has the CBC's code, which reads its words as a CBC's. *)
MPAAddChip(all, d, chip) == D19cAddChip(all, d, chip)

AddChip(all, fe, chip) ==
    IF <<fe, chip>> \notin DOMAIN fEventDataMap THEN all
    ELSE LET d == fEventDataMap[<<fe, chip>>] IN
         CASE fmt = "Cbc2" -> Cbc2AddChip(all, d, fe, chip)
           [] fmt = "Cbc3" -> Cbc3AddChip(all, d, chip)
           [] fmt = "D19cCbc3" -> D19cAddChip(all, d, chip)
           [] fmt = "D19cCbc3ZS" -> ZSAddChip(all, d, chip)
           [] fmt = "D19cMPA" -> MPAAddChip(all, d, chip)

(* The words or the clusters and the stubs of module fe were added at the  *)
(* places remembered before; their counters are inserted there.            *)
AddFe(all, fe) ==
    LET chips == Sorted(board[fe])
        here  == {chip \in board[fe] : <<fe, chip>> \in DOMAIN fEventDataMap}
        Count(F(_)) == MapThenSumSet(LAMBDA chip : Len(F(fEventDataMap[<<fe, chip>>])), here)
        start == IF fmt = "D19cCbc3ZS"
                 THEN [all EXCEPT !.status = append(@, {}, 9)] ELSE all
        chipsIn == FoldLeft(LAMBDA a, chip : AddChip(a, fe, chip), start, chips)
        stubs == IF fmt \in {"D19cCbc3", "D19cMPA"} THEN Count(D19cStubVector)
                 ELSE Count(StubVector)
        head  == IF fmt = "D19cCbc3ZS"
                 THEN insert(chipsIn.data, Bin(Count(ZSClusters) % 64),
                             get_current_write_position(all.data), 7)
                 ELSE insert(chipsIn.data, here, get_current_write_position(all.data), 16)
    IN  [chipsIn EXCEPT !.data = head,
           !.stub = IF fmt = "Cbc2" THEN @
                    ELSE insert(@, At(Bin(stubs % 32), 1),
                                get_current_write_position(all.stub), 6)]

(* SLinkEvent: the DAQ header, two words of the tracker header, the parts  *)
(* and the trailer, which carries the size.                                *)
AddWords(event, words) == [event EXCEPT !.fData = @ \o words, !.fSize = @ + Len(words)]
generateDAQHeader == [fData |-> <<{}>>, fSize |-> 1, length |-> 0]
generateTkHeader(event) == AddWords(event, <<{}, DOMAIN board>>)
generateStatus(event) == IF mode = "SUMMARY" THEN event
                         ELSE AddWords(event, payload.status.fData)
generatePayload(event) == AddWords(event, payload.data.fData)
generateStubs(event) == AddWords(event, payload.stub.fData)
generateConditionData(event) ==
    IF cond = 0 THEN event ELSE AddWords(event, <<Bin(cond)>> \o [k \in 1..cond |-> {}])
generateDAQTrailer(event) ==
    [event EXCEPT !.fData = Append(@, At(Bin(event.fSize + 1), 32)),
                  !.fSize = @ + 1, !.length = event.fSize + 1]

---------------------------------------------------------------------------
(* A CBC3FC7 board has one module, and the modules of a CBC2 board the      *)
(* same number of chips: with other boards SetEvent() reads past the event. *)
Init ==
    /\ fmt \in Formats /\ mode \in Modes /\ cond \in CondData
    /\ board \in Boards
    /\ fmt = "Cbc3" => Cardinality(DOMAIN board) = 1
    /\ fmt = "Cbc2" => \A a, b \in DOMAIN board : Cardinality(board[a]) = Cardinality(board[b])
    /\ sent \in [DOMAIN board -> Contents[fmt]]
    /\ list = <<>> /\ fEventDataMap = <<>> /\ cFe = {} /\ pc = "sent"
    /\ payload = [data |-> Empty, stub |-> Empty, status |-> Empty]
    /\ slink = [fData |-> <<>>, fSize |-> 0, length |-> 0]

(* The chips that report: all of them, or in the formats with a mask       *)
(* perhaps fewer.                                                          *)
Reported(chips) == [fe \in DOMAIN board |-> [c \in chips[fe] |-> sent[fe][c]]]

Frame ==
    /\ pc = "sent" /\ pc' = "framed"
    /\ \E chips \in [DOMAIN board -> SUBSET {0, 1}] :
         /\ \A fe \in DOMAIN board :
              chips[fe] \subseteq board[fe] /\
              (fmt \in {"Cbc2", "Cbc3"} => chips[fe] = board[fe])
         /\ sent' = Reported(chips)
         /\ list' = EventWords(fmt, Reported(chips))
    /\ UNCHANGED <<fmt, mode, cond, board, fEventDataMap, payload, cFe, slink>>

SetEvent ==
    /\ pc = "framed"
    /\ IF fmt = "D19cCbc3ZS"
       THEN /\ fEventDataMap' = ZSSetEvent(list).data
            /\ pc' = IF ZSSetEvent(list).threw THEN "threw" ELSE "set"
       ELSE /\ pc' = "set"
            /\ fEventDataMap' = CASE fmt = "Cbc2" -> Cbc2SetEvent(list)
                                  [] fmt = "Cbc3" -> Cbc3SetEvent(list)
                                  [] fmt = "D19cCbc3" -> D19cSetEvent(list, Cbc3Size)
                                  [] fmt = "D19cMPA" -> D19cMPASetEvent(list)
    /\ UNCHANGED <<fmt, mode, cond, board, sent, list, payload, cFe, slink>>

(* The CBC2 stubs are one bit per chip of sixteen modules. *)
StartSLink ==
    /\ pc = "set" /\ pc' = "slink"
    /\ payload' = IF fmt = "Cbc2"
                  THEN [payload EXCEPT !.stub = Appended(@, [k \in 1..4 |-> <<{}, 64>>])]
                  ELSE payload
    /\ UNCHANGED <<fmt, mode, cond, board, sent, list, fEventDataMap, cFe, slink>>

SLinkFe ==
    /\ pc = "slink" /\ cFe # DOMAIN board
    /\ LET fe == Min(DOMAIN board \ cFe) IN
         payload' = AddFe(payload, fe) /\ cFe' = cFe \cup {fe}
    /\ UNCHANGED <<fmt, mode, cond, board, sent, list, fEventDataMap, slink, pc>>

EndSLink ==
    /\ pc = "slink" /\ cFe = DOMAIN board /\ pc' = "done"
    /\ slink' = generateDAQTrailer(generateConditionData(generateStubs(
                  generatePayload(generateStatus(generateTkHeader(generateDAQHeader))))))
    /\ UNCHANGED <<fmt, mode, cond, board, sent, list, fEventDataMap, payload, cFe>>

Next == Frame \/ SetEvent \/ StartSLink \/ SLinkFe \/ EndSLink
Spec == Init /\ [][Next]_vars

---------------------------------------------------------------------------
Decoded == pc \in {"set", "slink", "done"}

(* What a format takes for granted: CBC2 and CBC3 that the modules are     *)
(* numbered from 0, the sparsified format that there is only one.          *)
Decodable ==
    CASE fmt \in {"Cbc2", "Cbc3"} -> DOMAIN board = 0..Cardinality(DOMAIN board)-1
      [] fmt = "D19cCbc3ZS" -> Cardinality(DOMAIN board) = 1
      [] OTHER -> TRUE

(* Whatever modules and chips reported, SetEvent() gives every chip of the *)
(* event the words the board sent for it, and nothing to any other.        *)
ChipsAreOwn ==
    Decoded /\ Decodable =>
        /\ DOMAIN fEventDataMap = UNION {{fe} \X DOMAIN sent[fe] : fe \in DOMAIN board}
        /\ \A key \in DOMAIN fEventDataMap :
             fEventDataMap[key] = ChipWords(fmt, sent[key[1]][key[2]], key[2])

(* The channels, their number, the clusters, the stubs and the status that *)
(* the accessors find each in their own way are those the chip reported.   *)
ViewsAgree ==
    Decoded /\ Decodable => \A key \in DOMAIN fEventDataMap :
        LET d == fEventDataMap[key]
            c == sent[key[1]][key[2]]
        IN  /\ Status(d).err = c.err
            /\ fmt = "Cbc2" => (StubVector(d) # <<>> <=> c.stubs # <<>>)
            /\ fmt # "Cbc2" => StubVector(d) = c.stubs
            /\ fmt # "D19cMPA" =>
                 /\ GetHits(d) = c.hits
                 /\ GetNHits(d) = Cardinality(c.hits)
                 /\ Status(d).pipe = IF fmt = "Cbc2" THEN c.pipe \cap (0..7) ELSE c.pipe
            /\ fmt \in {"Cbc2", "Cbc3", "D19cCbc3"} =>
                 UNION {ChannelsOf(u) : u \in getClusters(d)} = c.hits
            /\ fmt = "D19cMPA" =>
                 /\ GetStripClusters(d) = c.strips
                 /\ GetPixelClusters(d) = c.pixels
                 /\ GetSync1(d) /\ ~GetSync2(d) /\ GetBX1_NStubs(d) = c.bx1
                 /\ {i \in 0..255 : MPADataBit(d, i)} = MPAHits(d)
                 /\ MPAStubBit(d) <=> D19cStubVector(d) # <<>>
            /\ fmt = "Cbc2" => LET bytes == GetCbcEvent(d) IN
                 {i \in Channels : 7 - ((i + 10) % 8) \in bytes[((i + 10) \div 8) + 1]} = c.hits

(* What the S-link event should hold of one module: its header and then    *)
(* its chips in order.                                                     *)
Chips(fe) == Sorted(DOMAIN sent[fe])
Each(fe, F(_, _)) == JoinAll([k \in DOMAIN Chips(fe) |-> F(sent[fe][Chips(fe)[k]], Chips(fe)[k])])
DataOf(fe) ==
    IF fmt = "D19cCbc3ZS"
    THEN LET Run(r, chip) == Bits(At(Bin(chip), 11) \cup At(Bin(r.first), 3)
                                     \cup Bin(r.width - 1), 16)
             Part(c, chip) == JoinAll([k \in DOMAIN ZSRuns(c.hits) |->
                                         Run(ZSRuns(c.hits)[k], chip)])
             n == Each(fe, Part).len \div 16
         IN  Join(Bits(Bin(n), 7), Each(fe, Part))
    ELSE LET Part(c, chip) == [len |-> 256, ones |-> c.hits]
         IN  Join(Bits(DOMAIN sent[fe], 16), Each(fe, Part))
StubsOf(fe) ==
    LET Part(c, chip) == JoinAll([k \in DOMAIN c.stubs |->
            Bits(At(Bin(chip), 12) \cup At(c.stubs[k].pos, 4) \cup c.stubs[k].bend, 16)])
        n == Each(fe, Part).len \div 16
    IN  Join(Bits(At(Bin(n), 1), 6), Each(fe, Part))
StatusOf(fe) ==
    LET Full(c, chip) == IF fmt = "Cbc2" THEN Bits(At(c.err, 8) \cup (c.pipe \cap (0..7)), 10)
                         ELSE Bits(At(c.err, 18) \cup At(c.pipe, 9) \cup c.l1, 20)
        One(c, chip)  == Bits(IF c.err # {} THEN {0} ELSE {}, 1)
    IN  IF fmt = "D19cCbc3ZS" THEN Join(Bits({}, 9), Each(fe, One)) ELSE Each(fe, Full)
All(Of(_)) == JoinAll([k \in 1..Cardinality(DOMAIN board) |-> Of(Sorted(DOMAIN board)[k])])
Reads(p, s) == Stream(p) = s.ones /\ Words(p) = Max({1, (s.len + WORDSIZE - 1) \div WORDSIZE})

WholeSLink ==
    /\ Reads(payload.data, All(DataOf))
    /\ fmt = "Cbc2" => Stream(payload.stub) =
         {255 - (16 * key[1]) - key[2] : key \in {key \in DOMAIN fEventDataMap :
                                      sent[key[1]][key[2]].stubs # <<>>}}
    /\ fmt # "Cbc2" => Reads(payload.stub, All(StubsOf))
    /\ mode = "FULL" => Reads(payload.status, All(StatusOf))
    /\ slink.length = Len(slink.fData) /\ slink.fSize = Len(slink.fData)

(* The S-link event of a board with one module reads as the module's       *)
(* header, the channels, clusters, stubs and status of its chips, in       *)
(* order and without a gap, whatever words of the firmware they come from, *)
(* and carries its own length.  (With a second module it does not: the     *)
(* place remembered for its header is one in the last word, and bits       *)
(* inserted are not counted.)                                              *)
SLinkReads ==
    pc = "done" /\ Decodable /\ fmt # "D19cMPA" /\ Cardinality(DOMAIN board) = 1 => WholeSLink

=============================================================================
