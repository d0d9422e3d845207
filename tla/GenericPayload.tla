--------------------------- MODULE GenericPayload ---------------------------
(***************************************************************************)
(* Utils/GenericPayload.h: a string of bits kept in words of WORDSIZE      *)
(* bits, written from the most significant bit of the first word on.  A    *)
(* word is the set of the bits that are 1, bit 0 the least significant, so *)
(* a mask is an intersection and a shift adds to or takes from the bits.   *)
(* A shift by the whole width, which C++ leaves undefined and append()     *)
(* makes when its bits end a word, shifts by 0: what x86-64 does.          *)
(***************************************************************************)
EXTENDS Integers, Sequences, FiniteSets, SequencesExt

CONSTANT WORDSIZE

ASSUME PayloadAssumption == WORDSIZE \in Nat \ {0}

Shl(w, n, width) == {b + n : b \in {b \in w : b + n < width}}
Shr(w, n)        == {b - n : b \in {b \in w : b >= n}}
Low(w, n)        == {b \in w : b < n}

(* GenericPayload(): one word already there. *)
Empty == [fData |-> <<{}>>, fBitCount |-> 0, fWriteBitIndex |-> 0]

FreeBits(p) == WORDSIZE - (p.fBitCount % WORDSIZE)
AtWordEnd(p) == FreeBits(p) = WORDSIZE /\ p.fBitCount # 0
Words(p) == Len(p.fData)

(* The word the next bits need when the last one has no room for them. *)
Room(p, width) == IF AtWordEnd(p) \/ width > FreeBits(p)
                  THEN Append(p.fData, {}) ELSE p.fData

Moved(p, width) == (p.fWriteBitIndex + width) % WORDSIZE

(* get_current_write_position(): the place in the last word. *)
get_current_write_position(p) == p.fWriteBitIndex

(* append(): the part that spans two words leaves its upper bits in the    *)
(* first of them.                                                          *)
append(p, word, width) ==
    LET w     == Low(word, width)
        index == Moved(p, width)
        data  == Room(p, width)
        last  == Len(data)
        spans == ~AtWordEnd(p) /\ width > FreeBits(p)
        high  == IF spans THEN [data EXCEPT ![last - 1] = @ \cup Shr(w, index)] ELSE data
    IN  [fData |-> [high EXCEPT ![last] =
                       @ \cup Shl(w, (WORDSIZE - index) % WORDSIZE, WORDSIZE)],
         fBitCount |-> p.fBitCount + width,
         fWriteBitIndex |-> index]

(* append(bool) *)
appendBit(p, bit) == append(p, IF bit THEN {0} ELSE {}, 1)

(* padZero() and the reserve() it calls. *)
padZero(p, n) == [fData |-> Room(p, n), fBitCount |-> p.fBitCount + n,
                  fWriteBitIndex |-> Moved(p, n)]

(* appendD19CData(): bit k of the odd word becomes bit 2k, that of the     *)
(* even word bit 2k + 1.                                                   *)
appendD19CData(p, even, odd, width) ==
    append(p, {2 * k : k \in odd} \cup {2 * k + 1 : k \in even}, width)

(* insert(): the bits from pPosition on move right by the width of the new *)
(* ones, through every later word.  Neither the count of bits nor the      *)
(* place of the next write moves.                                          *)
X_Insert_Lost(p, word, position, width) ==  (* Faulty variant: what leaves the word is lost. *)
    LET w == Low(word, width)
        bit == (WORDSIZE - 1 - position) % WORDSIZE
        at == (position \div WORDSIZE) + 1
        old == Room(p, width)
    IN  [p EXCEPT !.fData = [old EXCEPT ![at] =
            {b \in @ : b > bit} \cup Shr(Low(@, bit + 1), width)
                \cup Shl(w, IF bit + 1 >= width THEN bit + 1 - width ELSE 0, WORDSIZE)]]

insert(p, word, position, width) ==
    LET w     == Low(word, width)
        at    == (position \div WORDSIZE) + 1
        bit   == (WORDSIZE - 1 - position) % WORDSIZE
        old   == Room(p, width)
        wraps == (position % WORDSIZE) + width > WORDSIZE
        n1    == bit + 1                        (* bits in the first word  *)
        n2    == width - n1                     (* bits in the second word *)
        stays == {b \in old[at] : b > bit} \cup Shr(Low(old[at], bit + 1), width)
        Fallout(k) == Shl(Low(old[k], width), WORDSIZE - width, WORDSIZE)
        Word(k) ==
            CASE k < at -> old[k]
              [] k = at -> stays \cup IF wraps THEN Shr(w, n2)
                                      ELSE Shl(w, bit + 1 - width, WORDSIZE)
              [] k = at + 1 /\ wraps ->
                    Shr(Shl(Low(old[at], bit + 1), WORDSIZE - bit - 1, WORDSIZE)
                          \cup Shr(old[k], n1), n2)
                    \cup Shl(Low(w, n2), WORDSIZE - n2, WORDSIZE)
              [] OTHER -> Fallout(k - 1) \cup Shr(old[k], width)
    IN  [p EXCEPT !.fData = [k \in DOMAIN old |-> Word(k)]]

---------------------------------------------------------------------------
(* What the payload stands for: the places, from 0, of the bits that are 1. *)
Stream(p) == UNION {{(WORDSIZE * (k - 1)) + WORDSIZE - 1 - b : b \in p.fData[k]}
                    : k \in DOMAIN p.fData}

(* A string of bits is its length and the places that are 1. *)
Bits(word, width) == [len |-> width, ones |-> {width - 1 - b : b \in Low(word, width)}]
NoBits            == [len |-> 0, ones |-> {}]
Join(s, t) == [len |-> s.len + t.len, ones |-> s.ones \cup {s.len + i : i \in t.ones}]
JoinAll(ss) == FoldLeft(Join, NoBits, ss)
=============================================================================
