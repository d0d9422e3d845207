---------------------------- MODULE Tools_proofs ----------------------------
(***************************************************************************)
(* Proofs about the tools.  ScanTools: the events of a scan are counted at *)
(* the setting they were taken at, and the S-curve of a search is whole.   *)
(* SweepTools: StubSweep takes events with the two channels of its pair    *)
(* unmasked and no others.  PedeNoise: a group is measured alone.          *)
(* MpaCounters: the S-curve of the MPA keeps what it has read out.         *)
(* PsRegisters: the replies that are read are those to what has been sent. *)
(*                                                                         *)
(* The invariants are EventsInv, CurveInv, StubInv, AloneInv, KeptInv and  *)
(* RepliesInv.                                                             *)
(***************************************************************************)
EXTENDS ScanTools, SweepTools, PedeNoise, PsRegisters, MpaCounters, FiniteSetTheorems, TLAPS
-----------------------------------------------------------------------------
(* Sequences and extrema. *)

\* The elements of a sequence with one more.
LEMMA AppendOne ==
    ASSUME NEW S, NEW q \in Seq(S), NEW x \in S
    PROVE  /\ Append(q, x) \in Seq(S)
           /\ \A k \in DOMAIN Append(q, x) :
                 (k \in DOMAIN q /\ Append(q, x)[k] = q[k]) \/ Append(q, x)[k] = x
<1>1. /\ Append(q, x) \in Seq(S) /\ Len(Append(q, x)) = Len(q) + 1
      /\ \A k \in 1 .. Len(q) : Append(q, x)[k] = q[k]
      /\ Append(q, x)[Len(q) + 1] = x
  OBVIOUS
<1>2. DOMAIN Append(q, x) = 1 .. Len(q) + 1 /\ DOMAIN q = 1 .. Len(q) /\ Len(q) \in Nat
  BY <1>1
<1> QED
  BY <1>1, <1>2

\* The smaller of two numbers.
LEMMA Least ==
    ASSUME NEW a \in Int, NEW b \in Int
    PROVE  Min({a, b}) = IF a <= b THEN a ELSE b
<1> DEFINE l == IF a <= b THEN a ELSE b
<1>1. /\ l \in {a, b} /\ \A y \in {a, b} : l <= y
      /\ \A x \in {a, b} : (\A y \in {a, b} : x <= y) => x = l
  OBVIOUS
<1> HIDE DEF l
<1>2. Min({a, b}) = l
  BY <1>1 DEF Min
<1> QED
  BY <1>2 DEF l

\* The greater of two numbers.
LEMMA Greatest ==
    ASSUME NEW a \in Int, NEW b \in Int
    PROVE  Max({a, b}) = IF a <= b THEN b ELSE a
<1> DEFINE g == IF a <= b THEN b ELSE a
<1>1. /\ g \in {a, b} /\ \A y \in {a, b} : g >= y
      /\ \A x \in {a, b} : (\A y \in {a, b} : x >= y) => x = g
  OBVIOUS
<1> HIDE DEF g
<1>2. Max({a, b}) = g
  BY <1>1 DEF Max
<1> QED
  BY <1>2 DEF g

-----------------------------------------------------------------------------
(* EventsAtSetting: the invariant holds at first, and every step keeps it. *)

\* The first state.
LEMMA InitEvents == InitScan => EventsInv
<1> SUFFICES ASSUME InitScan PROVE EventsInv
  OBVIOUS
<1> USE DEF InitScan
<1>1. /\ cMaxVcth \in Nat /\ Coarse \in Nat \ {0} /\ Byte \in Nat /\ Nevents \in Nat
  BY ScanAssumption DEF ScanAssumption
<1>2. noise \in Nat /\ plateau \in Nat
  BY <1>1
<1>3. from \in Nat /\ range \in Nat
  BY <1>1
<1>4. value \in Int /\ step \in Int
  BY <1>1
<1>5. fifo \in Seq(Int \X Nat) /\ chips \in Int \X Nat
  OBVIOUS
<1>6. ScanTypeOK
  BY <1>2, <1>3, <1>4, <1>5 DEF ScanTypeOK
<1>7. SettingHeld /\ EventsAtSetting
  BY DEF SettingHeld, EventsAtSetting
<1> QED
  BY <1>6, <1>7 DEF EventsInv

\* Every step keeps the types.
LEMMA ScanTypeStep == EventsInv /\ [ScanNext]_scanVars => ScanTypeOK'
<1> SUFFICES ASSUME ScanTypeOK, ScanNext \/ UNCHANGED scanVars PROVE ScanTypeOK'
  BY DEF EventsInv
<1> USE DEF ScanTypeOK, given, board
<1>0. /\ cMaxVcth \in Nat /\ Coarse \in Nat \ {0} /\ Word \in Nat \ {0} /\ Byte \in Nat \ {0}
      /\ Nevents \in Nat
  BY ScanAssumption DEF ScanAssumption
<1>1. \A x \in Int : x % Word \in Int /\ x % Byte \in Int
  BY <1>0
<1>2. \A x \in Nat : x % Byte \in Nat
  BY <1>0
<1>3. CASE Trigger
  BY <1>3 DEF Trigger
<1>4. CASE SetValue
  BY <1>4 DEF SetValue
<1>5. CASE SkipMeasured
  BY <1>1, <1>5 DEF SkipMeasured
<1>6. CASE NextLatency
  BY <1>6 DEF NextLatency
<1>7. CASE Start
  BY <1>7 DEF Start, Started
<1>8. CASE OpenSignal
  <2>1. <<chips>> \in Seq(Int \X Nat) /\ <<>> \in Seq(Int \X Nat)
    OBVIOUS
  <2> QED
    BY <1>8, <2>1 DEF OpenSignal
<1>9. CASE ReadData
  BY <1>9 DEF ReadData
<1>10. CASE MoreEvents \/ ReadFails \/ Stop \/ ReadNEvents
  BY <1>10 DEF MoreEvents, ReadFails, Stop, ReadNEvents
<1>11. CASE FirstHits
  <2>1. value' = Back /\ step' = step \div Coarse
        /\ UNCHANGED <<given, chips, board, cStubLatency, cAllOnes, module, cN, seen>>
    BY <1>11 DEF FirstHits
  <2>2. Back \in Int
    <3>1. value - 2 * step \in Int
      OBVIOUS
    <3>2. (value - 2 * step) % Word \in Int
      BY <1>1, <3>1
    <3>3. Min({cMaxVcth, value - 2 * step}) \in Int
      BY <1>0, <3>1, Least
    <3>4. ASSUME NEW m \in Int PROVE Max({0, m}) \in Int
      BY Greatest
    <3> QED
      BY <3>2, <3>3, <3>4 DEF Back
  <2>3. step \div Coarse \in Int
    BY <1>0
  <2> QED
    BY <2>1, <2>2, <2>3
<1>12. CASE Judge
  BY <1>1, <1>12 DEF Judge
<1>13. CASE tool \in Linear /\ NextValue
  <2>1. /\ UNCHANGED <<given, board, step, cDoubleVcth, cNonZero, cAllOnes, cN, filled, seen>>
        /\ chips' = IF tool = "ScanSignalFit" THEN <<value', 0>> ELSE chips
    BY <1>13 DEF NextValue
  <2>2. /\ tool \in Linear
        /\ value' \in {value + step, (value + 1) % Word, (value + 1) % Byte, value, value - 1,
                       (value - step) % Word}
        /\ cStubLatency' \in {cStubLatency, (cStubLatency + 1) % Byte}
    BY <1>13 DEF NextValue, Wider, Linear
  <2>3. value' \in Int /\ cStubLatency' \in Nat
    <3>1. /\ value + step \in Int /\ value + 1 \in Int /\ value - 1 \in Int
          /\ value - step \in Int /\ cStubLatency + 1 \in Nat
      OBVIOUS
    <3> QED
      BY <1>1, <1>2, <2>2, <3>1
  <2> QED
    BY <2>1, <2>3
<1>14. CASE TookLong
  BY <1>14 DEF TookLong
<1>15. CASE LoopEnds
  <2>1. /\ value' \in {value, from} /\ (UNCHANGED running \/ running' = FALSE)
        /\ UNCHANGED <<given, chips, fifo, cStubLatency, step, cAllOnes>>
    BY <1>15 DEF LoopEnds
  <2>2. value' \in Int
    BY <2>1
  <2>3. running' \in BOOLEAN
    BY <2>1
  <2> QED
    BY <2>1, <2>2, <2>3
<1>16. CASE UNCHANGED scanVars
  BY <1>16 DEF scanVars
<1> QED
  BY <1>3, <1>4, <1>5, <1>6, <1>7, <1>8, <1>9, <1>10, <1>11, <1>12, <1>13, <1>14, <1>15, <1>16
     DEF ScanNext, ScanStep, ScanThreshold, ScanVcth, ScanThresholds, ScanLatency,
         ScanStubLatency, ScanLatency2D, ScanSignal, ScanSignalFit, Scan, TakeData, Linear

\* The board takes events only while it runs, at the setting the chips have.
LEMMA TriggerSetting == EventsInv /\ Trigger => SettingHeld' /\ EventsAtSetting'
<1> SUFFICES ASSUME ScanTypeOK, SettingHeld, EventsAtSetting, Trigger
             PROVE SettingHeld' /\ EventsAtSetting'
  BY DEF EventsInv
<1>1. /\ running /\ fifo' = Append(fifo, chips)
      /\ UNCHANGED <<tool, value, cStubLatency, chips, running, scan, seen>>
  BY DEF Trigger, given
<1>2. \A k \in DOMAIN fifo' : (k \in DOMAIN fifo /\ fifo'[k] = fifo[k]) \/ fifo'[k] = chips
  <2>1. fifo \in Seq(Int \X Nat) /\ chips \in Int \X Nat
    BY DEF ScanTypeOK
  <2> QED
    BY <1>1, <2>1, AppendOne
<1>3. SettingHeld'
  BY <1>1, <1>2 DEF SettingHeld
<1> QED
  BY <1>1, <1>3 DEF EventsAtSetting

\* Every step of a scan keeps the setting until the events are read.
LEMMA ScanSettingHeld == EventsInv /\ [ScanStep]_scanVars => SettingHeld'
<1> SUFFICES ASSUME ScanTypeOK, SettingHeld, ScanStep \/ UNCHANGED scanVars, tool # "ScanSignal"
             PROVE SettingHeld'
  <2>1. ASSUME ScanStep \/ UNCHANGED scanVars PROVE UNCHANGED tool
    BY <2>1 DEF ScanStep, ScanThreshold, ScanVcth, ScanThresholds, ScanLatency,
         ScanStubLatency, ScanLatency2D, ScanSignal, ScanSignalFit, Scan, TakeData, scanVars,
         SetValue, SkipMeasured, NextLatency, Start, OpenSignal, ReadData, MoreEvents, ReadFails,
         Stop, ReadNEvents, FirstHits, Judge, NextValue, TookLong, LoopEnds, given
  <2> QED
    BY <2>1 DEF EventsInv, SettingHeld
<1> USE DEF given, board
<1>0. ScanTypeOK
  OBVIOUS
<1>1. CASE SetValue
  BY <1>1 DEF SetValue, SettingHeld
<1>2. CASE SkipMeasured
  BY <1>2 DEF SkipMeasured, SettingHeld
<1>3. CASE tool = "ScanLatency2D" /\ NextLatency
  BY <1>3 DEF NextLatency, SettingHeld
<1>4. CASE Start
  <2>1. fifo' = <<>> /\ scan = "set" /\ tool # "ScanVcth" /\ scan' \in {"more", "read"}
        /\ UNCHANGED <<tool, chips, value, cStubLatency>>
    BY <1>4 DEF Start, Started
  <2>2. DOMAIN fifo' = {}
    BY <2>1
  <2> QED
    BY <2>1, <2>2 DEF SettingHeld
<1>5. CASE ReadData
  <2>1. fifo' = <<>> /\ scan = "read" /\ scan' = "more"
        /\ UNCHANGED <<tool, chips, value, cStubLatency, running>>
    BY <1>5 DEF ReadData
  <2>2. DOMAIN fifo' = {}
    BY <2>1
  <2> QED
    BY <2>1, <2>2 DEF SettingHeld
<1>6. CASE MoreEvents
  BY <1>6 DEF MoreEvents, SettingHeld
<1>7. CASE ReadFails
  BY <1>7 DEF ReadFails, SettingHeld
<1>8. CASE Stop
  BY <1>8 DEF Stop, SettingHeld
<1>9. CASE ReadNEvents
  BY <1>9 DEF ReadNEvents, SettingHeld
<1>10. CASE FirstHits
  BY <1>10 DEF FirstHits, SettingHeld
<1>11. CASE Judge
  BY <1>11 DEF Judge, SettingHeld
<1>12. CASE tool # "ScanVcth" /\ NextValue
  BY <1>12 DEF NextValue, SettingHeld
<1>13. CASE LoopEnds
  <2>1. scan = "top" /\ UNCHANGED <<tool, chips, cStubLatency, fifo>> /\ running' = FALSE /\ scan' = "end"
    BY <1>13 DEF LoopEnds
  <2> QED
    BY <2>1 DEF SettingHeld
<1>14. CASE UNCHANGED scanVars
  BY <1>14 DEF scanVars, SettingHeld
<1> QED
  BY <1>1, <1>2, <1>3, <1>4, <1>5, <1>6, <1>7, <1>8, <1>9, <1>10, <1>11, <1>12, <1>13, <1>14
     DEF ScanStep, ScanThreshold, ScanVcth, ScanThresholds, ScanLatency,
         ScanStubLatency, ScanLatency2D, ScanSignal, ScanSignalFit, Scan, TakeData

\* What is counted was stored at the setting it is counted at.
LEMMA ScanEventsAtSetting == EventsInv /\ [ScanStep]_scanVars => EventsAtSetting'
<1> SUFFICES ASSUME ScanTypeOK, SettingHeld, EventsAtSetting, ScanStep \/ UNCHANGED scanVars,
                    tool' # "ScanSignal"
             PROVE  \A s \in seen' : s[1] = s[2]
  BY DEF EventsInv, EventsAtSetting
<1> USE DEF given, board
<1>1. CASE ReadData
  <2>1. scan = "read" /\ tool # "ScanSignal" /\ seen' = seen \cup countHitsLat
    BY <1>1 DEF ReadData
  <2>2. \A s \in countHitsLat : s[1] = s[2]
    BY <2>1 DEF countHitsLat, SettingHeld
  <2> QED
    BY <2>1, <2>2 DEF EventsAtSetting
<1>2. CASE tool = "ScanVcth" /\ ReadNEvents
  <2>1. scan = "set" /\ seen' = seen \cup {<<<<value, 0>>, chips>>}
    BY <1>2 DEF ReadNEvents
  <2>2. chips = <<value, 0>>
    BY <1>2, <2>1 DEF SettingHeld
  <2> QED
    BY <1>2, <2>1, <2>2 DEF EventsAtSetting
<1>3. ASSUME UNCHANGED <<tool, seen>> PROVE \A s \in seen' : s[1] = s[2]
  BY <1>3 DEF EventsAtSetting
<1>4. CASE SetValue \/ SkipMeasured \/ NextLatency \/ Start \/ OpenSignal \/ MoreEvents
           \/ ReadFails \/ Stop \/ FirstHits \/ Judge \/ NextValue \/ TookLong \/ LoopEnds
           \/ UNCHANGED scanVars
  BY <1>3, <1>4 DEF SetValue, SkipMeasured, NextLatency, Start, OpenSignal, MoreEvents, ReadFails,
     Stop, FirstHits, Judge, NextValue, TookLong, LoopEnds, scanVars
<1> QED
  BY <1>1, <1>2, <1>4
     DEF ScanStep, ScanThreshold, ScanVcth, ScanThresholds, ScanLatency,
         ScanStubLatency, ScanLatency2D, ScanSignal, ScanSignalFit, Scan, TakeData

(* EventsAtSetting: the events of a scan are counted at the setting they   *)
(* were taken at, whatever the board triggers on while it runs.            *)
THEOREM EventsAtTheirSetting == ScanSpec => []EventsAtSetting
<1>1. EventsInv /\ [ScanNext]_scanVars => EventsInv'
  BY ScanTypeStep, TriggerSetting, ScanSettingHeld, ScanEventsAtSetting DEF EventsInv, ScanNext
<1>2. EventsInv => EventsAtSetting
  BY DEF EventsInv
<1> QED
  BY InitEvents, <1>1, <1>2, PTL DEF ScanSpec

-----------------------------------------------------------------------------
(* CurveComplete: the arithmetic of a value that goes up or down. *)

\* The position of a value.
PositionOf(h, v) == IF h THEN (IF v <= cMaxVcth THEN cMaxVcth - v ELSE cMaxVcth - v + Word) ELSE v

\* The ranges of the counters.
LEMMA Constants ==
    /\ cMaxVcth \in Nat /\ Coarse \in Nat \ {0} /\ Word \in Nat \ {0} /\ AllOnes \in Nat \ {0}
    /\ cMaxVcth + Coarse < Word
  BY ScanAssumption DEF ScanAssumption

\* A counter wraps round once.
LEMMA Wraps ==
    ASSUME NEW x \in Int, -Word <= x, x < Word
    PROVE  (x % Word) = IF x >= 0 THEN x ELSE x + Word
<1>1. CASE x >= 0
  BY <1>1, Constants
<1>2. CASE x < 0
  <2>1. x + Word \in 0 .. Word - 1 /\ x = (-1) * Word + (x + Word)
    BY <1>2, Constants
  <2> QED
    BY <1>2, <2>1, Constants
<1> QED
  BY <1>1, <1>2

\* A position is in the range when its value is.
LEMMA Places ==
    ASSUME NEW h \in BOOLEAN, NEW v \in 0 .. Word - 1
    PROVE  /\ PositionOf(h, v) \in 0 .. Word - 1
           /\ PositionOf(h, v) <= cMaxVcth <=> v <= cMaxVcth
           /\ v <= cMaxVcth => PositionOf(h, v) = IF h THEN cMaxVcth - v ELSE v
  BY Constants DEF PositionOf

\* One step on, towards the larger or towards the smaller values.
LEMMA MoveOn ==
    ASSUME NEW h \in BOOLEAN, NEW v \in 0 .. cMaxVcth, NEW s \in 1 .. Coarse
    PROVE  /\ (v + (IF h THEN -s ELSE s)) % Word \in 0 .. Word - 1
           /\ PositionOf(h, (v + (IF h THEN -s ELSE s)) % Word) = PositionOf(h, v) + s
<1>1. CASE h
  <2>1. v - s \in Int /\ -Word <= v - s /\ v - s < Word
    BY Constants
  <2>2. ((v - s) % Word) = IF v - s >= 0 THEN v - s ELSE v - s + Word
    BY <2>1, Wraps
  <2>3. v + (IF h THEN -s ELSE s) = v - s
    BY <1>1
  <2>4. (v - s) % Word \in 0 .. Word - 1 /\ PositionOf(h, (v - s) % Word) = PositionOf(h, v) + s
    BY <1>1, <2>2, Constants DEF PositionOf
  <2> QED
    BY <2>3, <2>4
<1>2. CASE ~h
  <2>1. v + s \in Int /\ -Word <= v + s /\ v + s < Word /\ v + s >= 0
    BY Constants
  <2>2. ((v + s) % Word) = v + s
    BY <2>1, Wraps
  <2>3. v + (IF h THEN -s ELSE s) = v + s
    BY <1>2
  <2>4. (v + s) % Word \in 0 .. Word - 1 /\ PositionOf(h, (v + s) % Word) = PositionOf(h, v) + s
    BY <1>2, <2>1, <2>2, Constants DEF PositionOf
  <2> QED
    BY <2>3, <2>4
<1> QED
  BY <1>1, <1>2

\* Two coarse steps back, within the range or with room for them.
LEMMA GoBack ==
    ASSUME NEW h \in BOOLEAN, NEW v \in 0 .. cMaxVcth, NEW t,
           t = "ScanVcth" \/ PositionOf(h, v) >= 2 * Coarse
    PROVE  LET s == IF h THEN -Coarse ELSE Coarse
               b == IF t = "ScanVcth" THEN Max({0, Min({cMaxVcth, v - 2 * s})})
                    ELSE (v - 2 * s) % Word
           IN  /\ b \in 0 .. cMaxVcth
               /\ PositionOf(h, b) = IF PositionOf(h, v) >= 2 * Coarse
                                     THEN PositionOf(h, v) - 2 * Coarse ELSE 0
<1> DEFINE s == IF h THEN -Coarse ELSE Coarse
           x == v - 2 * s
           b == IF t = "ScanVcth" THEN Max({0, Min({cMaxVcth, x})}) ELSE x % Word
<1>1. x \in Int /\ x = IF h THEN v + 2 * Coarse ELSE v - 2 * Coarse
  BY Constants
<1> HIDE DEF s, x
<1>2. ASSUME t = "ScanVcth"
      PROVE  /\ b \in 0 .. cMaxVcth
             /\ PositionOf(h, b) = IF PositionOf(h, v) >= 2 * Coarse
                                   THEN PositionOf(h, v) - 2 * Coarse ELSE 0
  <2> DEFINE m == Min({cMaxVcth, x})
  <2>1. m = (IF cMaxVcth <= x THEN cMaxVcth ELSE x) /\ m \in Int
    BY <1>1, Constants, Least
  <2>2. b = Max({0, m})
    BY <1>2
  <2> HIDE DEF m, b
  <2>3. b = IF 0 <= m THEN m ELSE 0
    BY <2>1, <2>2, Greatest
  <2>4. b \in 0 .. cMaxVcth
    BY <1>1, <2>1, <2>3, Constants
  <2>5. PositionOf(h, b) = IF PositionOf(h, v) >= 2 * Coarse
                           THEN PositionOf(h, v) - 2 * Coarse ELSE 0
    BY <1>1, <2>1, <2>3, <2>4, Constants DEF PositionOf
  <2> QED
    BY <2>4, <2>5
<1>3. ASSUME t # "ScanVcth"
      PROVE  /\ b \in 0 .. cMaxVcth
             /\ PositionOf(h, b) = IF PositionOf(h, v) >= 2 * Coarse
                                   THEN PositionOf(h, v) - 2 * Coarse ELSE 0
  <2>1. PositionOf(h, v) >= 2 * Coarse
    BY <1>3
  <2>2. x \in 0 .. cMaxVcth /\ x < Word /\ -Word <= x
    BY <1>1, <2>1, Constants DEF PositionOf
  <2>3. b = x
    <3>1. b = x % Word
      BY <1>3
    <3> HIDE DEF b
    <3> QED
      BY <2>2, <3>1, Wraps
  <2> HIDE DEF b
  <2>4. PositionOf(h, b) = IF PositionOf(h, v) >= 2 * Coarse
                           THEN PositionOf(h, v) - 2 * Coarse ELSE 0
    BY <1>1, <2>1, <2>2, <2>3, Constants DEF PositionOf
  <2> QED
    BY <2>2, <2>3, <2>4
<1> HIDE DEF b
<1>4. /\ b \in 0 .. cMaxVcth
      /\ PositionOf(h, b) = IF PositionOf(h, v) >= 2 * Coarse
                            THEN PositionOf(h, v) - 2 * Coarse ELSE 0
  BY <1>2, <1>3
<1> QED
  BY <1>4 DEF b, x, s

\* A remainder is the only one.
LEMMA Remainder ==
    ASSUME NEW n \in Nat \ {0}, NEW a \in Nat, NEW q \in Nat, NEW r \in Nat, r < n, a = n * q + r
    PROVE  (a % n) = r
OBVIOUS

\* The multiples of the coarse step.
LEMMA Multiples ==
    ASSUME NEW p \in Nat, p % Coarse = 0
    PROVE  /\ (p + Coarse) % Coarse = 0
           /\ p > Coarse => p >= 2 * Coarse
           /\ p > cMaxVcth => p >= Coarse * (cMaxVcth \div Coarse) + Coarse
<1>1. PICK k \in Nat : p = k * Coarse
  <2>1. p = Coarse * (p \div Coarse) + (p % Coarse) /\ p \div Coarse \in Nat
    BY Constants
  <2> QED
    BY <2>1, Constants
<1> DEFINE m == cMaxVcth \div Coarse
<1>2. m \in Nat /\ Coarse * m <= cMaxVcth /\ cMaxVcth < Coarse * m + Coarse
  BY Constants
<1> HIDE DEF m
<1>3. (p + Coarse) % Coarse = 0
  <2> DEFINE j == k + 1
             a == p + Coarse
  <2>1. a = Coarse * j + 0 /\ j \in Nat /\ a \in Nat
    BY <1>1, Constants
  <2>2. Coarse \in Nat \ {0} /\ 0 \in Nat /\ 0 < Coarse
    BY Constants
  <2> HIDE DEF j, a
  <2>3. (a % Coarse) = 0
    BY <2>1, <2>2, Remainder
  <2> QED
    BY <2>3 DEF a
<1>4. ASSUME NEW a \in Nat, NEW b \in Nat, a >= b PROVE a * Coarse >= b * Coarse
  <2>1. PICK c \in Nat : a = b + c
    BY <1>4
  <2>2. a * Coarse = b * Coarse + c * Coarse /\ c * Coarse \in Nat /\ b * Coarse \in Nat
    BY <2>1, Constants
  <2> QED
    BY <2>2
<1>5. p > Coarse => p >= 2 * Coarse
  <2>1. k >= 2 => k * Coarse >= 2 * Coarse
    BY <1>4
  <2>2. k < 2 => k = 0 \/ k = 1
    OBVIOUS
  <2> QED
    BY <1>1, <2>1, <2>2, Constants
<1>6. p > cMaxVcth => p >= Coarse * m + Coarse
  <2>1. k <= m => m * Coarse >= k * Coarse
    BY <1>2, <1>4
  <2>2. k >= m + 1 => k * Coarse >= (m + 1) * Coarse
    BY <1>2, <1>4
  <2>3. (m + 1) * Coarse = Coarse * m + Coarse /\ m * Coarse = Coarse * m /\ Coarse * m \in Int
        /\ k * Coarse \in Int
    BY <1>2, Constants
  <2>4. k <= m \/ k >= m + 1
    BY <1>2
  <2> QED
    BY <1>1, <1>2, <2>1, <2>2, <2>3, <2>4, Constants
<1> QED
  BY <1>2, <1>3, <1>5, <1>6 DEF m

-----------------------------------------------------------------------------
(* The invariant of the search. *)

\* The invariant, with the position as a function of the value.
LEMMA CurveFacts ==
    ASSUME CurveInv, tool \in Searches, RoomToGoBack
    PROVE  /\ noise \in Nat /\ plateau \in Nat /\ noise < plateau /\ plateau <= noise + Coarse
           /\ value \in 0 .. Word - 1 /\ fHoleMode \in BOOLEAN /\ cNonZero \in BOOLEAN
           /\ cAllOnes \in Nat /\ filled \in [0 .. cMaxVcth -> Nat]
           /\ Position = PositionOf(fHoleMode, value) /\ Position \in 0 .. Word - 1
           /\ Position <= cMaxVcth <=> value <= cMaxVcth
           /\ value <= cMaxVcth => Position = Depth(value)
<1>1. /\ noise \in Nat /\ plateau \in noise + 1 .. noise + Coarse
      /\ value \in 0 .. Word - 1 /\ fHoleMode \in BOOLEAN /\ cNonZero \in BOOLEAN
      /\ cAllOnes \in Nat /\ filled \in [0 .. cMaxVcth -> Nat]
  BY DEF CurveInv
<1>2. Position = PositionOf(fHoleMode, value)
  BY DEF Position, PositionOf
<1>3. plateau \in Nat /\ noise < plateau /\ plateau <= noise + Coarse
  BY <1>1, Constants
<1>4. /\ Position \in 0 .. Word - 1
      /\ Position <= cMaxVcth <=> value <= cMaxVcth
      /\ value <= cMaxVcth => Position = Depth(value)
  BY <1>1, <1>2, Places DEF Depth
<1> QED
  BY <1>1, <1>2, <1>3, <1>4

\* The first state.
LEMMA InitCurve == InitScan => CurveInv
<1> SUFFICES ASSUME InitScan, tool \in Searches PROVE CurveInv
  BY DEF CurveInv
<1>1. /\ noise \in Nat /\ plateau \in noise + 1 .. noise + Coarse /\ fHoleMode \in BOOLEAN
      /\ value = (IF fHoleMode THEN cMaxVcth ELSE 0)
      /\ step = (IF fHoleMode THEN -Coarse ELSE Coarse)
      /\ cNonZero = FALSE /\ cAllOnes = 0 /\ filled = [v \in 0 .. cMaxVcth |-> 0]
  BY Constants DEF InitScan
<1>2. scan = "top"
  BY DEF InitScan, Searches
<1>3. value \in 0 .. Word - 1 /\ Position = 0
  BY <1>1, Constants DEF Position
<1>4. CoarseOK
  <2>1. Position % Coarse = 0
    BY <1>3, Constants
  <2> QED
    BY <1>1, <1>3, <2>1, Constants DEF CoarseOK
<1> QED
  BY <1>1, <1>2, <1>3, <1>4 DEF CurveInv

\* The steps that take events leave the search where it is.
LEMMA CurveHeld ==
    ASSUME CurveInv, tool \in Searches, RoomToGoBack,
           UNCHANGED <<tool, fHoleMode, noise, plateau, value, step, cDoubleVcth, cNonZero,
                       cAllOnes, filled>>,
           scan' \in {"top", "set", "more", "read", "judge", "end"},
           scan' \in {"set", "more", "read", "judge"} => Goes /\ ~Measured,
           scan' = "end" => ~Goes
    PROVE  CurveInv'
<1>1. (Goes' <=> Goes) /\ (Measured' <=> Measured) /\ RoomToGoBack'
  BY DEF Goes, Measured, RoomToGoBack, Searches
<1>2. /\ noise \in Nat /\ plateau \in noise + 1 .. noise + Coarse
      /\ value \in 0 .. Word - 1 /\ fHoleMode \in BOOLEAN /\ cNonZero \in BOOLEAN
      /\ cAllOnes \in Nat /\ filled \in [0 .. cMaxVcth -> Nat]
      /\ IF cNonZero THEN FineOK ELSE CoarseOK
  BY DEF CurveInv
<1>3. (FineOK => FineOK') /\ (CoarseOK => CoarseOK')
  BY DEF FineOK, CoarseOK, Passed, Position, AtDepth, Depth
<1> QED
  BY <1>1, <1>2, <1>3 DEF CurveInv

\* Those steps, one by one.
LEMMA TakingCurve ==
    ASSUME CurveInv, tool \in Searches, RoomToGoBack,
           Trigger \/ SetValue \/ TakeData \/ ReadNEvents \/ LoopEnds \/ UNCHANGED scanVars
    PROVE  CurveInv'
<1>1. /\ scan \in {"top", "set", "more", "read", "judge", "end"}
      /\ scan \in {"set", "more", "read", "judge"} => Goes /\ ~Measured
      /\ scan = "end" => ~Goes
  BY DEF CurveInv
<1>2. tool # "ScanSignal" /\ tool # "ScanSignalFit"
  BY DEF Searches
<1> USE DEF given, board
<1>3. CASE Trigger
  BY <1>1, <1>3, CurveHeld DEF Trigger
<1>4. CASE SetValue
  BY <1>1, <1>4, CurveHeld DEF SetValue
<1>5. CASE Start
  BY <1>1, <1>5, CurveHeld DEF Start
<1>6. CASE ReadData
  BY <1>1, <1>6, CurveHeld DEF ReadData
<1>7. CASE MoreEvents
  BY <1>1, <1>7, CurveHeld DEF MoreEvents
<1>8. CASE Stop
  BY <1>1, <1>8, CurveHeld DEF Stop
<1>9. CASE ReadNEvents
  BY <1>1, <1>9, CurveHeld DEF ReadNEvents
<1>10. CASE LoopEnds
  BY <1>1, <1>2, <1>10, CurveHeld DEF LoopEnds
<1>11. CASE UNCHANGED scanVars
  BY <1>1, <1>11, CurveHeld DEF scanVars
<1> QED
  BY <1>3, <1>4, <1>5, <1>6, <1>7, <1>8, <1>9, <1>10, <1>11 DEF TakeData

\* A search goes on within the range, until enough thresholds had all firing.
LEMMA SearchGoes ==
    ASSUME tool \in Searches
    PROVE  Goes <=> (value <= cMaxVcth /\ cAllOnes < AllOnes)
BY DEF Goes, Searches

\* One value on, as far as the step is.
LEMMA OneOn ==
    ASSUME CurveInv, tool \in Searches, RoomToGoBack, Goes, UNCHANGED fHoleMode,
           value' = (value + step) % Word
    PROVE  /\ value' \in 0 .. Word - 1
           /\ Position' = Position + (IF cNonZero THEN 1 ELSE Coarse)
<1> DEFINE s == IF cNonZero THEN 1 ELSE Coarse
<1>1. s \in 1 .. Coarse /\ step = IF fHoleMode THEN -s ELSE s
  BY Constants DEF CurveInv, CoarseOK, FineOK
<1>2. value \in 0 .. cMaxVcth /\ fHoleMode \in BOOLEAN /\ Position = PositionOf(fHoleMode, value)
  <2>1. value \in 0 .. Word - 1 /\ fHoleMode \in BOOLEAN /\ Position = PositionOf(fHoleMode, value)
    BY CurveFacts
  <2>2. value <= cMaxVcth
    BY SearchGoes
  <2> QED
    BY <2>1, <2>2, Constants
<1>3. Position' = PositionOf(fHoleMode, value')
  BY DEF Position, PositionOf
<1> HIDE DEF s
<1>4. value' \in 0 .. Word - 1 /\ PositionOf(fHoleMode, value') = PositionOf(fHoleMode, value) + s
  BY <1>1, <1>2, MoveOn
<1> QED
  BY <1>2, <1>3, <1>4 DEF s

\* A threshold is told by its place.
LEMMA DepthTells ==
    ASSUME NEW v \in 0 .. cMaxVcth, NEW w \in 0 .. cMaxVcth, fHoleMode \in BOOLEAN
    PROVE  /\ Depth(v) = Depth(w) <=> v = w
           /\ Depth(v) \in 0 .. cMaxVcth /\ AtDepth(Depth(v)) = v
           /\ v = AtDepth(Depth(w)) <=> v = w
  BY Constants DEF Depth, AtDepth

\* A search is at a value of the range, and has not filled enough.
LEMMA Going ==
    ASSUME CurveInv, tool \in Searches, RoomToGoBack, Goes
    PROVE  /\ value \in 0 .. cMaxVcth /\ Position = Depth(value) /\ Position \in 0 .. cMaxVcth
           /\ cAllOnes < AllOnes
           /\ Fires(value) <=> Position >= noise
           /\ AllFire(value) <=> Position >= plateau
<1>1. value <= cMaxVcth /\ cAllOnes < AllOnes
  BY SearchGoes
<1>2. value \in 0 .. cMaxVcth /\ Position = Depth(value) /\ Position \in 0 .. cMaxVcth
  BY <1>1, CurveFacts, Constants
<1> QED
  BY <1>1, <1>2 DEF Fires, AllFire

\* A threshold is left out when it is the one measured last: the coarse
\* search leaves out one at most, the fine one has its hits already.
LEMMA SkipCurve ==
    ASSUME CurveInv, tool \in Searches, RoomToGoBack, SkipMeasured
    PROVE  CurveInv'
<1>1. /\ scan = "top" /\ Goes /\ value = cDoubleVcth /\ scan' = "top"
      /\ value' = (value + step) % Word
      /\ UNCHANGED <<tool, fHoleMode, noise, plateau, step, cDoubleVcth, cNonZero,
                     cAllOnes, filled>>
  BY DEF SkipMeasured, Measured, given
<1>2. /\ value' \in 0 .. Word - 1
      /\ Position' = Position + (IF cNonZero THEN 1 ELSE Coarse)
  BY <1>1, OneOn
<1>3. /\ value \in 0 .. cMaxVcth /\ Position = Depth(value) /\ Position \in 0 .. cMaxVcth
      /\ cAllOnes < AllOnes
  BY <1>1, Going
<1>4. /\ noise \in Nat /\ plateau \in Nat /\ fHoleMode \in BOOLEAN /\ cNonZero \in BOOLEAN
      /\ cAllOnes \in Nat /\ plateau \in noise + 1 .. noise + Coarse
      /\ filled \in [0 .. cMaxVcth -> Nat]
  BY CurveFacts, Constants
<1>5. ASSUME ~cNonZero PROVE CoarseOK'
  <2>1. CoarseOK /\ Position' = Position + Coarse
    BY <1>2, <1>5 DEF CurveInv
  <2>2. (Position' % Coarse) = 0
    BY <1>3, <2>1, Multiples DEF CoarseOK
  <2>3. Position < noise + Coarse
    <3>1. ASSUME cDoubleVcth = AtDepth(Position - Coarse) PROVE FALSE
      <4>1. AtDepth(Position - Coarse) = value
        BY <1>1, <3>1
      <4>2. value = AtDepth(Position)
        BY <1>3, <1>4, DepthTells
      <4> QED
        BY <1>3, <4>1, <4>2, Constants DEF AtDepth
    <3> QED
      BY <2>1, <3>1 DEF CoarseOK
  <2>4. Position' < noise' + 2 * Coarse /\ (cDoubleVcth = AtDepth(Position - Coarse))'
    <3>1. value = AtDepth(Position)
      BY <1>3, <1>4, DepthTells
    <3>2. Position' - Coarse = Position
      BY <1>3, <2>1, Constants
    <3> QED
      BY <1>1, <1>3, <1>4, <2>1, <2>3, <3>1, <3>2, Constants DEF AtDepth
  <2> QED
    BY <1>1, <2>1, <2>2, <2>4 DEF CoarseOK
<1>6. ASSUME cNonZero PROVE FineOK'
  <2>1. FineOK /\ Position' = Position + 1 /\ Passed = Position /\ Passed' = Position + 1
    BY <1>1, <1>2, <1>3, <1>4, <1>6, Constants DEF CurveInv, Passed
  <2>2. Position' <= cMaxVcth + 1
    BY <1>3, <2>1, Constants
  <2>3. cAllOnes' > 0 => cAllOnes' <= Passed' - plateau'
    BY <1>1, <1>3, <1>4, <2>1, Constants DEF FineOK
  <2>4. ASSUME NEW v \in 0 .. cMaxVcth
        PROVE  filled'[v] = IF v = cDoubleVcth' \/ Depth(v)' \in noise' .. Passed' - 1 THEN 1 ELSE 0
    <3>1. Depth(v)' = Depth(v) /\ Depth(v) \in 0 .. cMaxVcth
      BY <1>1, <1>4, DepthTells DEF Depth
    <3>2. Depth(v) = Position <=> v = value
      BY <1>3, <1>4, DepthTells
    <3>3. filled[v] = IF v = cDoubleVcth \/ Depth(v) \in noise .. Position - 1 THEN 1 ELSE 0
      BY <2>1 DEF FineOK
    <3> QED
      BY <1>1, <1>3, <1>4, <2>1, <3>1, <3>2, <3>3, Constants
  <2> QED
    BY <1>1, <2>1, <2>2, <2>3, <2>4 DEF FineOK, Depth
<1> QED
  BY <1>1, <1>2, <1>4, <1>5, <1>6 DEF CurveInv

\* The first hits: two coarse steps back there were none.
LEMMA FirstHitsCurve ==
    ASSUME CurveInv, tool \in Searches, RoomToGoBack, FirstHits
    PROVE  CurveInv'
<1>1. /\ scan = "judge" /\ ~cNonZero /\ Fires(value) /\ Fill
      /\ cNonZero' = TRUE /\ cDoubleVcth' = value
      /\ value' = Back /\ step' = step \div Coarse /\ scan' = "top"
      /\ UNCHANGED <<tool, fHoleMode, noise, plateau, cAllOnes>>
  BY DEF FirstHits, given
<1>2. Goes /\ CoarseOK
  BY <1>1 DEF CurveInv
<1>3. /\ value \in 0 .. cMaxVcth /\ Position = Depth(value) /\ Position \in 0 .. cMaxVcth
      /\ Position >= noise
  BY <1>1, <1>2, Going
<1>4. /\ noise \in Nat /\ plateau \in Nat /\ fHoleMode \in BOOLEAN
      /\ plateau \in noise + 1 .. noise + Coarse
      /\ filled \in [0 .. cMaxVcth -> Nat] /\ Position = PositionOf(fHoleMode, value)
  BY CurveFacts, Constants
<1>5. tool = "ScanVcth" \/ PositionOf(fHoleMode, value) >= 2 * Coarse
  <2>1. ASSUME tool # "ScanVcth" PROVE Position >= 2 * Coarse
    <3>1. Position > Coarse
      BY <1>3, <1>4, <2>1, Constants DEF RoomToGoBack
    <3> QED
      BY <1>2, <1>3, <3>1, Multiples DEF CoarseOK
  <2> QED
    BY <1>4, <2>1
<1>6. /\ value' \in 0 .. cMaxVcth
      /\ PositionOf(fHoleMode, value') = IF Position >= 2 * Coarse THEN Position - 2 * Coarse ELSE 0
  <2>1. step = IF fHoleMode THEN -Coarse ELSE Coarse
    BY <1>2 DEF CoarseOK
  <2>2. value' = IF tool = "ScanVcth" THEN Max({0, Min({cMaxVcth, value - 2 * step})})
                 ELSE (value - 2 * step) % Word
    BY <1>1 DEF Back
  <2> QED
    BY <1>3, <1>4, <1>5, <2>1, <2>2, GoBack
<1>7. Position' = (IF Position >= 2 * Coarse THEN Position - 2 * Coarse ELSE 0)
      /\ Position' \in 0 .. cMaxVcth
  <2>1. Position' = PositionOf(fHoleMode, value')
    BY <1>1 DEF Position, PositionOf
  <2> QED
    BY <1>3, <1>6, <2>1, Constants
<1>8. Position' <= noise
  BY <1>2, <1>3, <1>4, <1>7, Constants DEF CoarseOK
<1>9. Passed' = Position' /\ cAllOnes' = 0
  BY <1>1, <1>2, Constants DEF CoarseOK, Passed
<1>10. step' = IF fHoleMode THEN -1 ELSE 1
  <2>1. step = IF fHoleMode THEN -Coarse ELSE Coarse
    BY <1>2 DEF CoarseOK
  <2>2. Coarse \div Coarse = 1 /\ (-Coarse) \div Coarse = -1
    BY Constants
  <2> QED
    BY <1>1, <2>1, <2>2
<1>11. filled' \in [0 .. cMaxVcth -> Nat]
       /\ \A v \in 0 .. cMaxVcth : filled'[v] = IF v = value THEN 1 ELSE 0
  BY <1>1, <1>2, <1>3, <1>4 DEF Fill, CoarseOK
<1>12. FineOK'
  <2>1. ASSUME NEW v \in 0 .. cMaxVcth
        PROVE  filled'[v] = IF v = cDoubleVcth' \/ Depth(v)' \in noise' .. Passed' - 1 THEN 1 ELSE 0
    BY <1>1, <1>4, <1>7, <1>8, <1>9, <1>11
  <2>2. Depth(cDoubleVcth)' >= noise'
    BY <1>1, <1>3 DEF Depth
  <2>3. Position' <= cMaxVcth + 1
    BY <1>7, Constants
  <2> QED
    BY <1>1, <1>3, <1>9, <1>10, <2>1, <2>2, <2>3 DEF FineOK, Depth
<1> QED
  BY <1>1, <1>4, <1>6, <1>9, <1>11, <1>12, Constants DEF CurveInv

\* The coarse search judges a threshold without hits and goes on; the fine
\* one fills it, and stays at the last it needs.
LEMMA JudgeCurve ==
    ASSUME CurveInv, tool \in Searches, RoomToGoBack, Judge
    PROVE  CurveInv'
<1>1. /\ scan = "judge" /\ (cNonZero \/ ~Fires(value)) /\ Fill /\ scan' = "top"
      /\ cAllOnes' = cAllOnes + (IF AllFire(value) THEN 1 ELSE 0)
      /\ value' = IF cAllOnes' >= AllOnes THEN value ELSE (value + step) % Word
      /\ UNCHANGED <<tool, fHoleMode, noise, plateau, step, cDoubleVcth, cNonZero>>
  BY DEF Judge, given
<1>2. Goes /\ ~Measured
  BY <1>1 DEF CurveInv
<1>3. /\ value \in 0 .. cMaxVcth /\ Position = Depth(value) /\ Position \in 0 .. cMaxVcth
      /\ cAllOnes < AllOnes
      /\ Fires(value) <=> Position >= noise
      /\ AllFire(value) <=> Position >= plateau
  BY <1>2, Going
<1>4. /\ noise \in Nat /\ plateau \in Nat /\ fHoleMode \in BOOLEAN /\ cNonZero \in BOOLEAN
      /\ cAllOnes \in Nat /\ plateau \in noise + 1 .. noise + Coarse /\ noise < plateau
      /\ filled \in [0 .. cMaxVcth -> Nat]
      /\ Position = PositionOf(fHoleMode, value) /\ value \in 0 .. Word - 1
  BY CurveFacts, Constants
<1>5. value # cDoubleVcth
  BY <1>2 DEF Measured
<1>6. cAllOnes' < AllOnes =>
         /\ value' \in 0 .. Word - 1
         /\ Position' = Position + (IF cNonZero THEN 1 ELSE Coarse)
  <2> SUFFICES ASSUME cAllOnes' < AllOnes
               PROVE  value' = (value + step) % Word
    BY <1>1, <1>2, OneOn
  <2>1. cAllOnes' \in Nat
    BY <1>1, <1>4
  <2> QED
    BY <1>1, <2>1, Constants
<1>7. cAllOnes' \in Nat
  BY <1>1, <1>4
<1>8. cAllOnes' >= AllOnes => value' = value /\ Position' = Position
  BY <1>1 DEF Position
<1>9. value' \in 0 .. Word - 1
  BY <1>4, <1>6, <1>7, <1>8, Constants
<1>10. filled' \in [0 .. cMaxVcth -> Nat]
       /\ \A v \in 0 .. cMaxVcth :
             filled'[v] = filled[v] + (IF v = value /\ Fires(value) THEN 1 ELSE 0)
  BY <1>1, <1>3, <1>4 DEF Fill
<1>11. ASSUME ~cNonZero PROVE CoarseOK'
  <2>1. CoarseOK /\ Position < noise /\ cAllOnes' = 0
    BY <1>1, <1>3, <1>4, <1>11 DEF CurveInv, CoarseOK
  <2>2. Position' = Position + Coarse
    BY <1>6, <1>11, <2>1, Constants
  <2>3. (Position' % Coarse) = 0
    BY <1>3, <2>1, <2>2, Multiples DEF CoarseOK
  <2>4. \A v \in 0 .. cMaxVcth : filled'[v] = 0
    BY <1>3, <1>4, <1>10, <2>1 DEF CoarseOK
  <2>5. Position' < noise' + Coarse
    BY <1>1, <1>3, <1>4, <2>1, <2>2, Constants
  <2> QED
    BY <1>1, <2>1, <2>3, <2>4, <2>5 DEF CoarseOK
<1>12. ASSUME cNonZero PROVE FineOK'
  <2>1. FineOK /\ Passed = Position
    BY <1>3, <1>12, <1>4, Constants DEF CurveInv, Passed
  <2>2. Passed' = Position + 1 /\ Position' <= cMaxVcth + 1
    BY <1>3, <1>6, <1>7, <1>8, <1>12, Constants DEF Passed
  <2>3. cAllOnes' > 0 => cAllOnes' <= Passed' - plateau'
    <3>1. cAllOnes > 0 => cAllOnes <= Position - plateau
      BY <2>1 DEF FineOK
    <3> QED
      BY <1>1, <1>3, <1>4, <2>2, <3>1
  <2>4. ASSUME NEW v \in 0 .. cMaxVcth
        PROVE  filled'[v] = IF v = cDoubleVcth' \/ Depth(v)' \in noise' .. Passed' - 1 THEN 1 ELSE 0
    <3>1. Depth(v)' = Depth(v) /\ Depth(v) \in 0 .. cMaxVcth
      BY <1>1, <1>4, DepthTells DEF Depth
    <3>2. Depth(v) = Position <=> v = value
      BY <1>3, <1>4, DepthTells
    <3>3. filled[v] = IF v = cDoubleVcth \/ Depth(v) \in noise .. Position - 1 THEN 1 ELSE 0
      BY <2>1 DEF FineOK
    <3>4. filled'[v] = filled[v] + (IF v = value /\ Position >= noise THEN 1 ELSE 0)
      BY <1>3, <1>10
    <3>5. Depth(v) \in noise .. Position <=> Depth(v) \in noise .. Position - 1
                                               \/ (v = value /\ Position >= noise)
      BY <1>3, <1>4, <3>1, <3>2, Constants
    <3>6. filled'[v] = IF v = cDoubleVcth \/ Depth(v) \in noise .. Position THEN 1 ELSE 0
      <4>1. CASE v = value
        <5>1. filled[v] = 0
          BY <1>3, <1>4, <1>5, <3>2, <3>3, <4>1, Constants
        <5> QED
          BY <1>3, <1>4, <1>5, <3>4, <3>5, <4>1, <5>1
      <4>2. CASE v # value
        <5>1. filled'[v] = filled[v]
          BY <1>4, <3>4, <4>2
        <5> QED
          BY <3>3, <3>5, <4>2, <5>1
      <4> QED
        BY <4>1, <4>2
    <3>7. Passed' - 1 = Position /\ noise' = noise /\ cDoubleVcth' = cDoubleVcth
      BY <1>1, <1>3, <2>2, Constants
    <3> QED
      BY <3>1, <3>6, <3>7
  <2> QED
    BY <1>1, <2>1, <2>2, <2>3, <2>4 DEF FineOK, Depth
<1> QED
  BY <1>1, <1>4, <1>7, <1>9, <1>10, <1>11, <1>12 DEF CurveInv

\* Every step keeps the invariant.
LEMMA CurveSteps == CurveInv /\ [ScanNext]_scanVars => CurveInv'
<1> SUFFICES ASSUME CurveInv, ScanNext \/ UNCHANGED scanVars, (tool \in Searches /\ RoomToGoBack)'
             PROVE  CurveInv'
  BY DEF CurveInv
<1>1. tool' = tool /\ noise' = noise
  BY DEF ScanNext, Trigger, ScanStep, ScanThreshold, ScanVcth, ScanThresholds, ScanLatency,
         ScanStubLatency, ScanLatency2D, ScanSignal, ScanSignalFit, Scan, TakeData, scanVars,
         SetValue, SkipMeasured, NextLatency, Start, OpenSignal, ReadData, MoreEvents, ReadFails,
         Stop, ReadNEvents, FirstHits, Judge, NextValue, TookLong, LoopEnds, given
<1>2. tool \in Searches /\ RoomToGoBack
  BY <1>1 DEF RoomToGoBack
<1>3. \/ Trigger \/ SetValue \/ TakeData \/ ReadNEvents \/ LoopEnds \/ UNCHANGED scanVars
      \/ SkipMeasured \/ FirstHits \/ Judge
  BY <1>2 DEF ScanNext, ScanStep, ScanThreshold, ScanVcth, ScanThresholds, ScanLatency,
         ScanStubLatency, ScanLatency2D, ScanSignal, ScanSignalFit, Scan, Searches
<1> QED
  BY <1>2, <1>3, TakingCurve, SkipCurve, FirstHitsCurve, JudgeCurve

\* At the end of a search nothing is missing: one that met no hits is at
\* odds with Found, one that did has passed all that is needed.
LEMMA CurveIsWhole == CurveInv => CurveComplete
<1> SUFFICES ASSUME CurveInv, scan = "end", tool \in Searches, Found, RoomToGoBack,
                    NEW v \in 0 .. cMaxVcth
             PROVE  /\ filled[v] <= 1
                    /\ Depth(v) \in noise .. LastNeeded - 1 => filled[v] = 1
  BY DEF CurveComplete
<1>1. /\ noise \in Nat /\ plateau \in Nat /\ fHoleMode \in BOOLEAN /\ cNonZero \in BOOLEAN
      /\ cAllOnes \in Nat /\ value \in 0 .. Word - 1
      /\ Position \in 0 .. Word - 1 /\ (Position <= cMaxVcth <=> value <= cMaxVcth)
  BY CurveFacts, Constants
<1>2. value > cMaxVcth \/ cAllOnes >= AllOnes
  BY <1>1, SearchGoes, Constants DEF CurveInv
<1>3. cNonZero
  <2> SUFFICES ASSUME ~cNonZero PROVE FALSE
    BY <1>1
  <2>1. CoarseOK
    BY DEF CurveInv
  <2>2. Position > cMaxVcth
    BY <1>1, <1>2, <2>1, Constants DEF CoarseOK
  <2> DEFINE m == cMaxVcth \div Coarse
             q == Coarse * m
  <2>3. Position >= q + Coarse
    BY <1>1, <2>1, <2>2, Multiples DEF CoarseOK
  <2>4. m \in Nat /\ Coarse * (m - 1) = q - Coarse /\ q \in Nat
    BY Constants
  <2>5. noise <= q - Coarse
    BY <2>4 DEF Found
  <2>6. Position < noise + 2 * Coarse
    BY <1>1, <2>1, Constants DEF CoarseOK
  <2> HIDE DEF q, m
  <2> QED
    BY <1>1, <2>3, <2>4, <2>5, <2>6, Constants
<1>4. FineOK
  BY <1>3 DEF CurveInv
<1>5. filled[v] = IF v = cDoubleVcth \/ Depth(v) \in noise .. Passed - 1 THEN 1 ELSE 0
  BY <1>4 DEF FineOK
<1>6. LastNeeded <= Passed /\ LastNeeded \in Int /\ Passed \in Int
  <2>1. LastNeeded = IF cMaxVcth <= plateau + AllOnes - 1 THEN cMaxVcth ELSE plateau + AllOnes - 1
    BY <1>1, Constants, Least DEF LastNeeded
  <2>2. cAllOnes > 0 => cAllOnes <= Passed - plateau
    BY <1>4 DEF FineOK
  <2>3. Passed = IF cAllOnes >= AllOnes THEN Position + 1 ELSE Position
    BY DEF Passed
  <2> QED
    BY <1>1, <1>2, <2>1, <2>2, <2>3, Constants
<1>7. Depth(v) \in Int
  BY Constants DEF Depth
<1> QED
  BY <1>1, <1>5, <1>6, <1>7

(* CurveComplete: the S-curve of a search is whole, from the first hits to *)
(* the plateau, and no threshold is filled twice, for every range, step    *)
(* and shape of the curve and whatever cDoubleVcth holds at the start.     *)
THEOREM CurveIsComplete == ScanSpec => []CurveComplete
BY InitCurve, CurveSteps, CurveIsWhole, PTL DEF ScanSpec

-----------------------------------------------------------------------------
(* OnlyThePair: the pairs of a group and their masks. *)

\* The channels of a chip, and the numbers that make them up.
LEMMA SweepConstants ==
    /\ SweepCbc \in Nat \ {0} /\ NGroupsStub \in Nat \ {0} /\ MaskWidth \in Nat \ {0}
    /\ Turns \div 2 \in Nat /\ Turns \div 2 >= 2
  BY SweepAssumption DEF SweepAssumption

\* The last channel of a chip.
TopChannel == 2 * NGroupsStub * (Turns \div 2) - 2

\* The channels are those up to the last one.
LEMMA LastChannel ==
    /\ TopChannel \in Nat /\ TopChannel >= 2 * NGroupsStub - 1 /\ TopChannel >= 1
    /\ Channels = 1 .. TopChannel /\ Max(Channels) = TopChannel
<1> DEFINE t == Turns \div 2
           p == NGroupsStub * t
           q == NGroupsStub * (t - 2)
<1>1. t \in Nat /\ t >= 2 /\ NGroupsStub \in Nat /\ NGroupsStub >= 1
  BY SweepConstants
<1>2. p \in Nat /\ q \in Nat /\ p = 2 * NGroupsStub + q /\ TopChannel = 2 * p - 2
  BY <1>1 DEF TopChannel
<1>3. Channels = 1 .. TopChannel
  BY DEF Channels, TopChannel
<1> HIDE DEF t, p, q
<1>4. TopChannel \in Nat /\ TopChannel >= 2 * NGroupsStub - 1 /\ TopChannel >= 1
  BY <1>1, <1>2
<1>5. Max(Channels) = TopChannel
  <2>1. /\ TopChannel \in Channels /\ \A y \in Channels : TopChannel >= y
        /\ \A x \in Channels : (\A y \in Channels : x >= y) => x = TopChannel
    BY <1>3, <1>4
  <2> QED
    BY <2>1 DEF Max
<1> QED
  BY <1>3, <1>4, <1>5

\* The first channel of a pair tells whether there is one.
LEMMA PairExists ==
    ASSUME NEW g \in Nat, NEW k \in Nat
    PROVE  /\ 2 * NGroupsStub * k + 2 * g \in Nat
           /\ Pair(g, k) # {} <=> 2 * NGroupsStub * k + 2 * g + 1 <= TopChannel
<1> DEFINE b == 2 * NGroupsStub * k + 2 * g
<1>1. b \in Nat
  BY SweepConstants
<1>2. Pair(g, k) = {ch \in Channels : ch - b \in {1, 2}}
  BY DEF Pair
<1> HIDE DEF b
<1>3. ASSUME b + 1 <= TopChannel PROVE b + 1 \in Pair(g, k)
  BY <1>1, <1>2, <1>3, LastChannel
<1>4. ASSUME NEW ch \in Pair(g, k) PROVE b + 1 <= TopChannel
  BY <1>1, <1>2, <1>4, LastChannel
<1>5. Pair(g, k) # {} <=> b + 1 <= TopChannel
  BY <1>3, <1>4
<1> QED
  BY <1>1, <1>5 DEF b

\* A pair has a mask register of the chip.
LEMMA MaskOfPair ==
    ASSUME NEW g \in Nat, NEW k \in Nat, Pair(g, k) # {}
    PROVE  MaskOf(g, k) \in Masks
<1> DEFINE b == 2 * NGroupsStub * k + 2 * g
           S == Pair(g, k)
<1>1. b \in Nat /\ S = {ch \in Channels : ch - b \in {1, 2}}
  BY PairExists DEF Pair
<1> HIDE DEF b, S
<1>2. S \subseteq 1 .. TopChannel /\ \A ch \in S : ch = b + 1 \/ ch = b + 2
  BY <1>1, LastChannel
<1>3. \E x \in S : \A y \in S : x <= y
  <2>1. CASE b + 1 \in S
    BY <1>1, <1>2, <2>1
  <2>2. CASE b + 1 \notin S
    <3>1. PICK x \in S : TRUE
      BY DEF S
    <3> QED
      BY <1>1, <1>2, <2>2, <3>1
  <2> QED
    BY <2>1, <2>2
<1>4. Min(S) \in S
  BY <1>3 DEF Min
<1> DEFINE n == Min(S) - 1
<1>5. n \in Nat /\ n <= TopChannel - 1 /\ TopChannel - 1 \in Nat
  <2>1. ASSUME NEW l \in 1 .. TopChannel
        PROVE  l - 1 \in Nat /\ l - 1 <= TopChannel - 1 /\ TopChannel - 1 \in Nat
    BY LastChannel
  <2>2. Min(S) \in 1 .. TopChannel
    BY <1>2, <1>4
  <2> QED
    BY <2>1, <2>2
<1> HIDE DEF n
<1>6. n \div MaskWidth \in Nat /\ n \div MaskWidth <= (TopChannel - 1) \div MaskWidth
  BY <1>5, SweepConstants
<1>7. MaskOf(g, k) = n \div MaskWidth
  BY DEF MaskOf, n, S
<1>8. Masks = 0 .. ((TopChannel - 1) \div MaskWidth)
  BY LastChannel DEF Masks
<1>9. (TopChannel - 1) \div MaskWidth \in Nat
  BY <1>5, SweepConstants
<1> QED
  BY <1>6, <1>7, <1>8, <1>9

\* The first pair of a group exists.
LEMMA FirstPair ==
    ASSUME NEW g \in 0 .. NGroupsStub - 1
    PROVE  0 \in Idx /\ Pair(g, 0) # {}
<1>1. 2 * NGroupsStub * 0 = 0 /\ g \in Nat
  BY SweepConstants
<1>2. 2 * NGroupsStub * 0 + 2 * g + 1 <= TopChannel
  BY <1>1, LastChannel, SweepConstants
<1>3. 0 \in Idx
  BY SweepConstants DEF Idx
<1> QED
  BY <1>1, <1>2, <1>3, PairExists

\* And so does each, as long as there are more than that.
LEMMA NextPair ==
    ASSUME NEW g \in Nat, NEW k \in Idx, k + 1 < cNumberOfPairs(g)
    PROVE  k + 1 \in Idx /\ Pair(g, k + 1) # {}
<1> DEFINE K == {j \in Idx : Pair(g, j) # {}}
<1>1. Idx = 0 .. (Turns \div 2) - 1 /\ k \in Nat
  BY SweepConstants DEF Idx
<1> SUFFICES ASSUME ~(k + 1 \in Idx /\ Pair(g, k + 1) # {}) PROVE FALSE
  OBVIOUS
<1>2. ASSUME NEW j \in K PROVE j \in 0 .. k
  <2>1. j \in Nat /\ j \in Idx /\ Pair(g, j) # {}
    BY <1>1
  <2> SUFFICES ASSUME j >= k + 1 PROVE FALSE
    BY <1>1, <2>1
  <2>2. k + 1 \in Idx
    BY <1>1, <2>1, SweepConstants
  <2> DEFINE z == j - (k + 1)
             w == 2 * NGroupsStub
  <2>3. z \in Nat /\ j = (k + 1) + z /\ w \in Nat
    BY <1>1, <2>1, SweepConstants
  <2> HIDE DEF z
  <2>4. w * j = w * (k + 1) + w * z /\ w * z \in Nat /\ w * (k + 1) \in Nat
    BY <1>1, <2>3
  <2>5. w * j + 2 * g + 1 <= TopChannel
    BY <2>1, PairExists
  <2>6. w * (k + 1) + 2 * g + 1 <= TopChannel
    <3> HIDE DEF w
    <3> DEFINE x == w * j
               y == w * (k + 1)
               u == w * z
    <3>1. x = y + u /\ u \in Nat /\ y \in Nat /\ x + 2 * g + 1 <= TopChannel
      BY <2>4, <2>5
    <3> HIDE DEF x, y, u
    <3>2. y + 2 * g + 1 <= TopChannel
      BY <3>1, LastChannel
    <3> QED
      BY <3>2 DEF y
  <2>7. Pair(g, k + 1) # {}
    BY <1>1, <2>6, PairExists
  <2> QED
    BY <2>2, <2>7
<1>3. IsFiniteSet(0 .. k) /\ Cardinality(0 .. k) = k + 1
  BY <1>1, FS_Interval
<1>4. K \in SUBSET (0 .. k)
  BY <1>2
<1>5. cNumberOfPairs(g) = Cardinality(K)
  BY DEF cNumberOfPairs
<1> HIDE DEF K
<1>6. IsFiniteSet(K) /\ Cardinality(K) <= k + 1
  BY <1>3, <1>4, FS_Subset
<1>7. Cardinality(K) \in Nat
  BY <1>6, FS_CardinalityType
<1> QED
  BY <1>1, <1>5, <1>6, <1>7

-----------------------------------------------------------------------------
(* The invariant of the sweep. *)

\* Writes of a chip's registers: the pulse.
LEMMA WritePulse ==
    ASSUME NEW r \in ChipRegisters
    PROVE  LET n == [r EXCEPT !.Amux.pulse = TRUE]
           IN  n \in ChipRegisters /\ n.mask = r.mask /\ n.group = r.group /\ n.Amux.pulse
BY DEF ChipRegisters

\* The test group.
LEMMA WriteGroup ==
    ASSUME NEW r \in ChipRegisters, NEW g \in Nat
    PROVE  LET n == [r EXCEPT !.group = g]
           IN  n \in ChipRegisters /\ n.mask = r.mask /\ n.group = g /\ n.Amux = r.Amux
BY DEF ChipRegisters

\* All masks.
LEMMA WriteMasks ==
    ASSUME NEW r \in ChipRegisters, NEW w \in [Masks -> SUBSET Channels]
    PROVE  LET n == [r EXCEPT !.mask = w]
           IN  n \in ChipRegisters /\ n.mask = w /\ n.group = r.group /\ n.Amux = r.Amux
BY DEF ChipRegisters

\* One mask.
LEMMA WriteMask ==
    ASSUME NEW r \in ChipRegisters, NEW m \in Masks, NEW P \in SUBSET Channels
    PROVE  LET n == [r EXCEPT !.mask[m] = P]
           IN  n \in ChipRegisters /\ n.mask = [r.mask EXCEPT ![m] = P]
               /\ n.group = r.group /\ n.Amux = r.Amux
<1>1. [r.mask EXCEPT ![m] = P] \in [Masks -> SUBSET Channels]
  BY DEF ChipRegisters
<1>2. [r EXCEPT !.mask[m] = P] = [r EXCEPT !.mask = [r.mask EXCEPT ![m] = P]]
  BY DEF ChipRegisters
<1> QED
  BY <1>1, <1>2, WriteMasks

\* Whether the pulse is on is a Boolean.
LEMMA PulseOn == ASSUME NEW r \in ChipRegisters PROVE r.Amux.pulse \in BOOLEAN
BY DEF ChipRegisters

\* The first state.
LEMMA InitStub == InitSweep => StubInv
<1> SUFFICES ASSUME InitSweep PROVE StubInv
  OBVIOUS
<1>1. cbc = 1 /\ 1 \in 1 .. SweepCbc /\ original = regs[1] /\ regCopy = regs
      /\ sweeper \in {"BiasSweep", "StubSweep", "CMTester"}
      /\ sweep = IF sweeper = "StubSweep" THEN "mask" ELSE "idle"
  BY SweepConstants DEF InitSweep
<1>2. regs \in [1 .. SweepCbc -> ChipRegisters]
  <2>1. PICK pulse \in BOOLEAN, v \in {0, Top} :
          regs = [c \in 1 .. SweepCbc |->
                     [Amux |-> [pulse |-> pulse, mux |-> "none"], own |-> v, shared |-> Top - 1,
                      VCth |-> v, clk |-> TRUE, group |-> 0,
                      mask |-> [m \in Masks |-> {ch \in Channels : (ch - 1) \div MaskWidth = m}]]]
    BY DEF InitSweep
  <2>2. [m \in Masks |-> {ch \in Channels : (ch - 1) \div MaskWidth = m}]
           \in [Masks -> SUBSET Channels]
    OBVIOUS
  <2> HIDE DEF Top
  <2> QED
    BY <2>1, <2>2 DEF ChipRegisters
<1> QED
  BY <1>1, <1>2 DEF StubInv, StubSteps, InGroup, PairIsOut

\* The tools that do not sweep stubs do not come into its steps.
LEMMA OtherSweeps ==
    ASSUME StubInv, sweeper # "StubSweep", SweepNext \/ UNCHANGED sweepVars
    PROVE  StubInv'
<1>1. sweep \notin StubSteps \cup {"mask"} /\ cbc \in 1 .. SweepCbc
  BY DEF StubInv
<1> USE DEF StubSteps
<1>2. sweeper' = sweeper /\ sweep' \notin StubSteps \cup {"mask"} /\ cbc' \in {cbc, cbc + 1}
      /\ (cbc' = cbc \/ cbc < SweepCbc)
  <2>1. CASE SweepBias \/ measureSingle \/ SweepBias_End \/ sweep8Bit \/ sweep8Bit_End
    BY <1>1, <2>1 DEF SweepBias, measureSingle, SweepBias_End, sweep8Bit, sweep8Bit_End
  <2>2. CASE sweepVCth \/ sweepVCth_Back \/ resetAmux \/ MeasureMinPower \/ MeasureMinPower_End
    BY <1>1, <2>2 DEF sweepVCth, sweepVCth_Back, resetAmux, MeasureMinPower, MeasureMinPower_End
  <2>3. CASE InstrumentFails \/ NextCbc \/ ScanNoiseChannels \/ analyze \/ UNCHANGED sweepVars
    BY <1>1, <2>3 DEF InstrumentFails, NextCbc, ScanNoiseChannels, analyze, sweepVars
  <2>4. CASE maskAllChannels \/ configureTestPulse \/ SetTestGroup_Stub \/ UnmaskPair \/ ReadStub
             \/ RemaskPair \/ LeaveCbc
    BY <1>1, <2>4 DEF maskAllChannels, configureTestPulse, SetTestGroup_Stub, UnmaskPair, ReadStub,
       RemaskPair, LeaveCbc
  <2> QED
    BY <2>1, <2>2, <2>3, <2>4 DEF SweepNext
<1>3. cbc' \in 1 .. SweepCbc
  BY <1>1, <1>2, SweepConstants
<1> QED
  BY <1>2, <1>3 DEF StubInv, InGroup, PairIsOut

\* The steps of a sweep of stubs.
LEMMA StubNext ==
    ASSUME StubInv, sweeper = "StubSweep", SweepNext
    PROVE  maskAllChannels \/ configureTestPulse \/ SetTestGroup_Stub \/ UnmaskPair \/ ReadStub
           \/ RemaskPair \/ LeaveCbc
<1>1. sweep \in StubSteps \cup {"mask", "swept"}
  BY DEF StubInv
<1>2. ~(SweepBias \/ measureSingle \/ SweepBias_End \/ sweep8Bit \/ sweep8Bit_End)
  BY <1>1 DEF SweepBias, measureSingle, SweepBias_End, sweep8Bit, sweep8Bit_End, StubSteps
<1>3. ~(sweepVCth \/ sweepVCth_Back \/ resetAmux \/ MeasureMinPower \/ MeasureMinPower_End)
  BY <1>1 DEF sweepVCth, sweepVCth_Back, resetAmux, MeasureMinPower, MeasureMinPower_End, StubSteps
<1>4. ~(InstrumentFails \/ NextCbc \/ ScanNoiseChannels \/ analyze)
  BY DEF InstrumentFails, NextCbc, ScanNoiseChannels, analyze
<1> QED
  BY <1>2, <1>3, <1>4 DEF SweepNext

\* A write changes the registers of one chip.
LEMMA WriteHere ==
    ASSUME regs \in [1 .. SweepCbc -> ChipRegisters], cbc \in 1 .. SweepCbc, regCopy = regs,
           NEW new \in ChipRegisters, Write(new)
    PROVE  /\ regs' \in [1 .. SweepCbc -> ChipRegisters] /\ regCopy' = regs'
           /\ regs'[cbc] = new /\ \A c \in 1 .. SweepCbc : c # cbc => regs'[c] = regs[c]
BY DEF Write

\* What the invariant says of a sweep of stubs.
LEMMA StubFacts ==
    ASSUME StubInv, sweeper = "StubSweep"
    PROVE  /\ regs \in [1 .. SweepCbc -> ChipRegisters] /\ original \in ChipRegisters
           /\ regCopy = regs /\ cbc \in 1 .. SweepCbc
           /\ Here = regs[cbc] /\ Here \in ChipRegisters
BY DEF StubInv, Here

\* All masks are empty.
LEMMA MaskAllStub ==
    ASSUME StubInv, sweeper = "StubSweep", maskAllChannels
    PROVE  StubInv'
<1>1. /\ regs' = [c \in 1 .. SweepCbc |-> [regs[c] EXCEPT !.mask = [m \in Masks |-> {}]]]
      /\ regCopy' = regs' /\ sweep' = "cbc"
      /\ UNCHANGED <<sweeper, cbc, original>>
  BY DEF maskAllChannels, biasing
<1>2. ASSUME NEW c \in 1 .. SweepCbc
      PROVE  regs'[c] \in ChipRegisters /\ regs'[c].mask = AllMasked
  <2>1. AllMasked \in [Masks -> SUBSET Channels] /\ regs[c] \in ChipRegisters
    BY StubFacts DEF AllMasked
  <2>2. regs'[c] = [regs[c] EXCEPT !.mask = AllMasked]
    BY <1>1 DEF AllMasked
  <2> QED
    BY <2>1, <2>2, WriteMasks
<1>3. regs' \in [1 .. SweepCbc -> ChipRegisters]
  BY <1>1, <1>2
<1> QED
  BY <1>1, <1>2, <1>3, StubFacts DEF StubInv, StubSteps, InGroup, PairIsOut, AllMasked

\* The chip pulses, and begins with the first group.
LEMMA PulseStub ==
    ASSUME StubInv, sweeper = "StubSweep", configureTestPulse
    PROVE  StubInv'
<1>1. /\ sweep = "cbc" /\ Write([Here EXCEPT !.Amux.pulse = TRUE])
      /\ stubGroup' = 0 /\ sweep' = "group" /\ UNCHANGED <<sweeper, cbc, original>>
  BY DEF configureTestPulse, biasing
<1>2. /\ regs' \in [1 .. SweepCbc -> ChipRegisters] /\ regCopy' = regs'
      /\ regs'[cbc].Amux.pulse
      /\ \A c \in 1 .. SweepCbc : regs'[c].mask = regs[c].mask
  <2> DEFINE n == [Here EXCEPT !.Amux.pulse = TRUE]
  <2>1. n \in ChipRegisters /\ n.mask = regs[cbc].mask /\ n.Amux.pulse
    BY StubFacts, WritePulse
  <2>2. Write(n)
    BY <1>1
  <2> HIDE DEF n
  <2> QED
    BY <2>1, <2>2, StubFacts, WriteHere
<1>3. \A c \in 1 .. SweepCbc : regs[c].mask = AllMasked
  BY <1>1 DEF StubInv, StubSteps, PairIsOut
<1>4. 0 \in 0 .. NGroupsStub - 1
  BY SweepConstants
<1> QED
  BY <1>1, <1>2, <1>3, <1>4, StubFacts DEF StubInv, StubSteps, InGroup, PairIsOut, AllMasked

\* The group is selected; its first pair is next.
LEMMA GroupStub ==
    ASSUME StubInv, sweeper = "StubSweep", SetTestGroup_Stub
    PROVE  StubInv'
<1>1. /\ sweep = "group" /\ Write([Here EXCEPT !.group = stubGroup])
      /\ pair' = 0 /\ sweep' = "unmask" /\ UNCHANGED <<sweeper, cbc, original, stubGroup>>
  BY DEF SetTestGroup_Stub, biasing
<1>2. /\ stubGroup \in 0 .. NGroupsStub - 1 /\ regs[cbc].Amux.pulse
      /\ \A c \in 1 .. SweepCbc : regs[c].mask = AllMasked
  BY <1>1 DEF StubInv, StubSteps, PairIsOut
<1>3. stubGroup \in Nat
  BY <1>2, SweepConstants
<1>4. /\ regs' \in [1 .. SweepCbc -> ChipRegisters] /\ regCopy' = regs'
      /\ regs'[cbc].Amux.pulse = regs[cbc].Amux.pulse /\ regs'[cbc].group = stubGroup
      /\ \A c \in 1 .. SweepCbc : regs'[c].mask = regs[c].mask
  <2> DEFINE n == [Here EXCEPT !.group = stubGroup]
  <2>1. n \in ChipRegisters /\ n.mask = regs[cbc].mask /\ n.Amux = regs[cbc].Amux
        /\ n.group = stubGroup
    BY <1>3, StubFacts, WriteGroup
  <2>2. Write(n)
    BY <1>1
  <2> HIDE DEF n
  <2> QED
    BY <2>1, <2>2, StubFacts, WriteHere
<1>5. 0 \in Idx /\ Pair(stubGroup, 0) # {} /\ Pair(stubGroup', pair') = Pair(stubGroup, 0)
  BY <1>1, <1>2, FirstPair
<1> QED
  BY <1>1, <1>2, <1>4, <1>5, StubFacts DEF StubInv, StubSteps, InGroup, PairIsOut, AllMasked, Pair

\* The pair is unmasked, in the one register that has it.
LEMMA UnmaskStub ==
    ASSUME StubInv, sweeper = "StubSweep", UnmaskPair
    PROVE  StubInv'
<1> DEFINE m == MaskOf(stubGroup, pair)
           P == Pair(stubGroup, pair)
<1>1. /\ sweep = "unmask" /\ original' = regCopy[cbc]
      /\ Write([Here EXCEPT !.mask[m] = P])
      /\ sweep' = "events" /\ UNCHANGED <<sweeper, cbc, stubGroup, pair>>
  BY DEF UnmaskPair
<1>2. /\ stubGroup \in 0 .. NGroupsStub - 1 /\ regs[cbc].Amux.pulse /\ regs[cbc].group = stubGroup
      /\ pair \in Idx /\ P # {} /\ \A c \in 1 .. SweepCbc : regs[c].mask = AllMasked
  BY <1>1 DEF StubInv, StubSteps, PairIsOut, InGroup
<1>3. stubGroup \in Nat /\ pair \in Nat
  BY <1>2, SweepConstants DEF Idx
<1>4. m \in Masks /\ P \in SUBSET Channels
  BY <1>2, <1>3, MaskOfPair DEF Pair
<1>5. (PairAlone)' = [AllMasked EXCEPT ![m] = P]
  <2>1. (PairAlone)' = PairAlone
    BY <1>1 DEF PairAlone, MaskOf, Pair
  <2> QED
    BY <1>4, <2>1 DEF PairAlone, AllMasked
<1> HIDE DEF m, P
<1>6. /\ regs' \in [1 .. SweepCbc -> ChipRegisters] /\ regCopy' = regs'
      /\ regs'[cbc].Amux = regs[cbc].Amux /\ regs'[cbc].group = regs[cbc].group
      /\ regs'[cbc].mask = [regs[cbc].mask EXCEPT ![m] = P]
      /\ \A c \in 1 .. SweepCbc : c # cbc => regs'[c] = regs[c]
  <2> DEFINE n == [Here EXCEPT !.mask[m] = P]
  <2>1. /\ n \in ChipRegisters /\ n.mask = [regs[cbc].mask EXCEPT ![m] = P]
        /\ n.Amux = regs[cbc].Amux /\ n.group = regs[cbc].group
    BY <1>4, StubFacts, WriteMask
  <2>2. Write(n)
    BY <1>1, <1>4
  <2> HIDE DEF n
  <2> QED
    BY <2>1, <2>2, StubFacts, WriteHere
<1>7. regs'[cbc].mask = (PairAlone)'
  BY <1>2, <1>5, <1>6, StubFacts
<1>8. original' \in ChipRegisters /\ original'.mask = AllMasked
  BY <1>1, <1>2, StubFacts
<1>9. Pair(stubGroup, pair)' # {}
  BY <1>1, <1>2 DEF P, Pair
<1>10. \A c \in 1 .. SweepCbc : regs'[c].mask = IF c = cbc THEN (PairAlone)' ELSE AllMasked
  BY <1>2, <1>6, <1>7
<1>11. (PairIsOut)' /\ (InGroup)' /\ (AllMasked)' = AllMasked
  BY <1>1 DEF PairIsOut, InGroup, AllMasked
<1> QED
  BY <1>1, <1>2, <1>6, <1>8, <1>9, <1>10, <1>11, StubFacts DEF StubInv, StubSteps

\* Reading changes no register.
LEMMA ReadStubStub ==
    ASSUME StubInv, sweeper = "StubSweep", ReadStub
    PROVE  StubInv'
<1>1. /\ sweep = "events" /\ sweep' \in {"events", "remask"}
      /\ UNCHANGED <<sweeper, cbc, regs, regCopy, original, stubGroup, pair>>
  BY DEF ReadStub, biasing
<1>2. /\ (PairAlone)' = PairAlone /\ (AllMasked)' = AllMasked
      /\ Pair(stubGroup, pair)' = Pair(stubGroup, pair)
  BY <1>1 DEF AllMasked, PairAlone, MaskOf, Pair
<1>3. (PairIsOut)' /\ PairIsOut /\ (InGroup)' /\ InGroup
  BY <1>1 DEF PairIsOut, InGroup
<1> QED
  BY <1>1, <1>2, <1>3, StubFacts DEF StubInv, StubSteps

\* The mask is empty again; the next pair, if there is one, exists.
LEMMA RemaskStub ==
    ASSUME StubInv, sweeper = "StubSweep", RemaskPair
    PROVE  StubInv'
<1> DEFINE m == MaskOf(stubGroup, pair)
<1>1. /\ sweep = "remask" /\ Write([Here EXCEPT !.mask[m] = original.mask[m]])
      /\ UNCHANGED <<sweeper, cbc, original>>
      /\ \/ /\ pair + 1 < cNumberOfPairs(stubGroup)
            /\ pair' = pair + 1 /\ sweep' = "unmask" /\ UNCHANGED stubGroup
         \/ /\ stubGroup + 1 < NGroupsStub
            /\ stubGroup' = stubGroup + 1 /\ sweep' = "group"
         \/ sweep' = "leave" /\ UNCHANGED stubGroup
  BY DEF RemaskPair, Masked, biasing
<1>2. /\ stubGroup \in 0 .. NGroupsStub - 1 /\ regs[cbc].Amux.pulse /\ regs[cbc].group = stubGroup
      /\ pair \in Idx /\ Pair(stubGroup, pair) # {} /\ original.mask = AllMasked
      /\ \A c \in 1 .. SweepCbc : regs[c].mask = IF c = cbc THEN PairAlone ELSE AllMasked
  BY <1>1 DEF StubInv, StubSteps, PairIsOut, InGroup
<1>3. stubGroup \in Nat /\ pair \in Nat
  BY <1>2, SweepConstants DEF Idx
<1>4. m \in Masks /\ original.mask[m] = {}
  BY <1>2, <1>3, MaskOfPair DEF AllMasked
<1>5. [PairAlone EXCEPT ![m] = {}] = AllMasked
  BY <1>4 DEF PairAlone, AllMasked
<1> HIDE DEF m
<1>6. /\ regs' \in [1 .. SweepCbc -> ChipRegisters] /\ regCopy' = regs'
      /\ regs'[cbc].Amux = regs[cbc].Amux /\ regs'[cbc].group = regs[cbc].group
      /\ regs'[cbc].mask = [regs[cbc].mask EXCEPT ![m] = {}]
      /\ \A c \in 1 .. SweepCbc : c # cbc => regs'[c] = regs[c]
  <2> DEFINE n == [Here EXCEPT !.mask[m] = {}]
  <2>0. {} \in SUBSET Channels /\ Here \in ChipRegisters /\ Here = regs[cbc]
    BY StubFacts
  <2>1. /\ n \in ChipRegisters /\ n.mask = [regs[cbc].mask EXCEPT ![m] = {}]
        /\ n.Amux = regs[cbc].Amux /\ n.group = regs[cbc].group
    BY <1>4, <2>0, WriteMask
  <2>2. Write(n)
    BY <1>1, <1>4
  <2> HIDE DEF n
  <2> QED
    BY <2>1, <2>2, StubFacts, WriteHere
<1>7. \A c \in 1 .. SweepCbc : regs'[c].mask = AllMasked
  BY <1>2, <1>5, <1>6, StubFacts
<1>8. stubGroup' \in 0 .. NGroupsStub - 1
  BY <1>1, <1>2, <1>3, SweepConstants
<1>9. ASSUME sweep' = "unmask"
      PROVE  stubGroup' = stubGroup /\ pair' \in Idx /\ Pair(stubGroup, pair)' # {}
  <2>1. pair' = pair + 1 /\ stubGroup' = stubGroup /\ pair + 1 < cNumberOfPairs(stubGroup)
    BY <1>1, <1>9
  <2>2. pair + 1 \in Idx /\ Pair(stubGroup, pair + 1) # {}
    BY <1>2, <1>3, <2>1, NextPair
  <2> QED
    BY <2>1, <2>2 DEF Pair
<1>10. (AllMasked)' = AllMasked /\ sweep' \in {"unmask", "group", "leave"}
  BY <1>1 DEF AllMasked
<1> QED
  BY <1>1, <1>2, <1>6, <1>7, <1>8, <1>9, <1>10, StubFacts DEF StubInv, StubSteps, InGroup, PairIsOut

\* The next chip finds all masks empty.
LEMMA LeaveStub ==
    ASSUME StubInv, sweeper = "StubSweep", LeaveCbc
    PROVE  StubInv'
<1>1. /\ sweep = "leave" /\ Write([Here EXCEPT !.Amux.pulse = @ \/ FALSE])
      /\ UNCHANGED <<sweeper, original>>
      /\ \/ cbc < SweepCbc /\ cbc' = cbc + 1 /\ sweep' = "cbc"
         \/ sweep' = "swept" /\ UNCHANGED cbc
  BY DEF LeaveCbc, biasing
<1>2. regs[cbc].Amux.pulse /\ \A c \in 1 .. SweepCbc : regs[c].mask = AllMasked
  BY <1>1 DEF StubInv, StubSteps, PairIsOut
<1>3. Write([Here EXCEPT !.Amux.pulse = TRUE])
  <2>1. (Here.Amux.pulse \/ FALSE) = TRUE
    BY <1>2, StubFacts, PulseOn
  <2> QED
    BY <1>1, <2>1
<1>4. /\ regs' \in [1 .. SweepCbc -> ChipRegisters] /\ regCopy' = regs'
      /\ \A c \in 1 .. SweepCbc : regs'[c].mask = regs[c].mask
  <2> DEFINE n == [Here EXCEPT !.Amux.pulse = TRUE]
  <2>1. n \in ChipRegisters /\ n.mask = regs[cbc].mask
    BY StubFacts, WritePulse
  <2>2. Write(n)
    BY <1>3
  <2> HIDE DEF n
  <2> QED
    BY <2>1, <2>2, StubFacts, WriteHere
<1>5. cbc' \in 1 .. SweepCbc
  BY <1>1, StubFacts, SweepConstants
<1> QED
  BY <1>1, <1>2, <1>4, <1>5, StubFacts DEF StubInv, StubSteps, InGroup, PairIsOut, AllMasked

\* Nothing changes.
LEMMA StubStays ==
    ASSUME StubInv, UNCHANGED sweepVars
    PROVE  StubInv'
<1>1. /\ (PairAlone)' = PairAlone /\ (AllMasked)' = AllMasked
      /\ Pair(stubGroup, pair)' = Pair(stubGroup, pair)
      /\ (PairIsOut)' = PairIsOut /\ (InGroup)' = InGroup
  BY DEF sweepVars, AllMasked, PairAlone, MaskOf, Pair, PairIsOut, InGroup
<1> QED
  BY <1>1 DEF StubInv, StubSteps, sweepVars

\* While events are taken only the pair is unmasked.
LEMMA StubAlone == StubInv => OnlyThePair
<1> SUFFICES ASSUME StubInv, sweep = "events" PROVE OnlyThePair
  BY DEF OnlyThePair
<1>1. /\ sweeper = "StubSweep" /\ stubGroup \in 0 .. NGroupsStub - 1 /\ regs[cbc].Amux.pulse
      /\ regs[cbc].group = stubGroup /\ pair \in Idx /\ Pair(stubGroup, pair) # {}
      /\ cbc \in 1 .. SweepCbc
      /\ \A c \in 1 .. SweepCbc : regs[c].mask = IF c = cbc THEN PairAlone ELSE AllMasked
  BY DEF StubInv, StubSteps, PairIsOut, InGroup
<1>2. stubGroup \in Nat /\ pair \in Nat
  BY <1>1, SweepConstants DEF Idx
<1>3. MaskOf(stubGroup, pair) \in Masks
  BY <1>1, <1>2, MaskOfPair
<1>4. Out(PairAlone) = Pair(stubGroup, pair) /\ Out(AllMasked) = {}
  BY <1>3 DEF Out, PairAlone, AllMasked
<1>5. Pair(stubGroup, pair) \subseteq findChannelsInTestGroup(stubGroup)
  BY <1>1 DEF Pair, findChannelsInTestGroup
<1> QED
  BY <1>1, <1>4, <1>5 DEF OnlyThePair

(* OnlyThePair: while StubSweep takes events the two channels of its pair  *)
(* are unmasked, in the pulsed group of the chip, and none in any chip     *)
(* besides, for any number of chips, groups, pairs and widths of a mask.   *)
THEOREM OnlyThePairIsOut == SweepSpec => []OnlyThePair
<1>1. StubInv /\ [SweepNext]_sweepVars => StubInv'
  BY OtherSweeps, StubNext, MaskAllStub, PulseStub, GroupStub, UnmaskStub, ReadStubStub,
     RemaskStub, LeaveStub, StubStays
<1> QED
  BY InitStub, <1>1, StubAlone, PTL DEF SweepSpec
-----------------------------------------------------------------------------
(* CurveKept: the invariant holds at first, and every step keeps it.       *)

(* The thresholds before ith have been read out and the others have not;   *)
(* a repeat follows a bin with many hits, and as many read-outs in a row   *)
(* have given nothing.                                                     *)
CountersTypeOK ==
    /\ ith \in Nat /\ nrep \in 0 .. 4 /\ zeros \in 0 .. 5 /\ totaleventsprev \in Nat /\ counter \in Nat
    /\ phase \in {"set", "open", "start", "poll", "timeout", "fifo", "done"}
    /\ bins \in [Thresholds -> Nat \cup {Unread}]
KeptInv ==
    /\ CountersTypeOK
    /\ phase \notin {"set", "done"} => ith \in Thresholds
    /\ nrep <= zeros /\ (nrep > 0 => totaleventsprev > Enough)
    /\ \A t \in Thresholds : t >= ith <=> bins[t] = Unread
    /\ IF ith = 0 THEN totaleventsprev = 0
       ELSE ith - 1 \in Thresholds /\ totaleventsprev = bins[ith - 1]

KeptAt(t) ==
  \/ bins[t] = Unread /\ (t > 0 /\ bins[t - 1] > Enough => bins'[t] # 0)
  \/ bins[t] # Unread /\ bins'[t] = 0 /\ zeros' = 5

(* What is assumed of the constants.                                       *)
LEMMA RatesAre ==
    /\ Enough \in Nat /\ Thresholds \subseteq Nat /\ \A t \in Thresholds : Rate[t] \in Nat
    /\ Unread \notin Nat /\ Unread \in Int
BY CountersAssumption DEF Thresholds, Unread

(* A fast command leaves a count in the counter.                           *)
LEMMA Counted ==
    ASSUME counter \in Nat, ith \in Thresholds, NEW w, Obeys(w)
    PROVE  counter' \in Nat
<1>1. counter' \in {0, counter, counter + Rate[ith]}
  BY DEF Obeys
<1> QED
  BY <1>1, RatesAre

(* A read-out is taken, or is repeated.                                    *)
LEMMA Taken ==
    ASSUME KeptInv, ith \in Thresholds, NEW total \in Nat, Take(total)
    PROVE  KeptInv' /\ \A t \in Thresholds : bins'[t] # bins[t] => KeptAt(t)
<1> DEFINE suspicious == totaleventsprev > Enough /\ total = 0
           times == IF suspicious THEN nrep + 1 ELSE nrep
           at    == IF suspicious THEN ith - 1 ELSE ith
<1>1. /\ phase' = "set" /\ zeros' = IF total # 0 THEN 0 ELSE IF zeros < 5 THEN zeros + 1 ELSE 5
      /\ suspicious /\ times < 5 =>
            nrep' = times /\ UNCHANGED <<ith, totaleventsprev, counter, shutter, bins>>
      /\ ~(suspicious /\ times < 5) =>
            /\ bins' = [bins EXCEPT ![at] = total] /\ nrep' = 0
            /\ counter' \in Nat /\ totaleventsprev' = total /\ ith' = at + 1
  BY Counted DEF Take, AfterFill, KeptInv, CountersTypeOK
<1>2. /\ ith \in Nat /\ nrep \in 0 .. 4 /\ zeros \in 0 .. 5 /\ totaleventsprev \in Nat /\ counter \in Nat
      /\ bins \in [Thresholds -> Nat \cup {Unread}] /\ nrep <= zeros
      /\ (\A t \in Thresholds : t >= ith <=> bins[t] = Unread)
      /\ (IF ith = 0 THEN totaleventsprev = 0
          ELSE ith - 1 \in Thresholds /\ totaleventsprev = bins[ith - 1])
  BY DEF KeptInv, CountersTypeOK
<1>3. zeros' \in 0 .. 5 /\ (total = 0 => nrep + 1 <= zeros' \/ zeros' = 5)
  BY <1>1, <1>2
<1>4. CASE suspicious /\ times < 5
  <2>1. /\ nrep' = nrep + 1 /\ nrep + 1 < 5 /\ totaleventsprev > Enough /\ total = 0
        /\ ith' = ith /\ totaleventsprev' = totaleventsprev /\ counter' = counter /\ bins' = bins
    BY <1>1, <1>4
  <2>2. nrep' \in 0 .. 4 /\ nrep' <= zeros'
    BY <1>2, <1>3, <2>1
  <2> QED
    BY <1>1, <1>2, <1>3, <2>1, <2>2 DEF KeptInv, CountersTypeOK
<1>5. CASE suspicious /\ ~(times < 5)
  <2>1. nrep = 4 /\ total = 0 /\ totaleventsprev > Enough
    BY <1>2, <1>5
  <2>2. ith # 0 /\ ith - 1 \in Thresholds /\ bins[ith - 1] > Enough /\ bins[ith - 1] \in Nat
    BY <1>2, <2>1, RatesAre
  <2>3. /\ bins' = [bins EXCEPT ![ith - 1] = 0] /\ nrep' = 0 /\ counter' \in Nat
        /\ totaleventsprev' = 0 /\ ith' = ith - 1 + 1
    BY <1>1, <1>5, <2>1
  <2>4. ith' = ith /\ zeros' = 5
    BY <1>2, <1>3, <2>1, <2>3
  <2>5. /\ bins' \in [Thresholds -> Nat \cup {Unread}] /\ bins'[ith - 1] = 0
        /\ \A t \in Thresholds : t # ith - 1 => bins'[t] = bins[t]
    BY <1>2, <2>2, <2>3
  <2>6. \A t \in Thresholds : t >= ith <=> bins'[t] = Unread
    BY <1>2, <2>2, <2>5, RatesAre
  <2>7. KeptInv'
    BY <1>1, <1>2, <1>3, <2>2, <2>3, <2>4, <2>5, <2>6 DEF KeptInv, CountersTypeOK
  <2>8. \A t \in Thresholds : bins'[t] # bins[t] => KeptAt(t)
    BY <2>2, <2>4, <2>5, RatesAre DEF KeptAt
  <2> QED
    BY <2>7, <2>8
<1>6. CASE ~suspicious
  <2>1. /\ bins' = [bins EXCEPT ![ith] = total] /\ nrep' = 0 /\ counter' \in Nat
        /\ totaleventsprev' = total /\ ith' = ith + 1
    BY <1>1, <1>6
  <2>2. /\ bins' \in [Thresholds -> Nat \cup {Unread}] /\ bins'[ith] = total
        /\ \A t \in Thresholds : t # ith => bins'[t] = bins[t]
    BY <1>2, <2>1
  <2>3. \A t \in Thresholds : t >= ith' <=> bins'[t] = Unread
    BY <1>2, <2>1, <2>2, RatesAre
  <2>4. ith' \in Nat /\ ith' # 0 /\ ith' - 1 = ith
    BY <1>2, <2>1
  <2>5. KeptInv'
    BY <1>1, <1>2, <1>3, <2>1, <2>2, <2>3, <2>4 DEF KeptInv, CountersTypeOK
  <2>6. bins[ith] = Unread /\ (ith > 0 /\ bins[ith - 1] > Enough => total # 0)
    BY <1>2, <1>6
  <2>7. \A t \in Thresholds : bins'[t] # bins[t] => KeptAt(t)
    BY <2>2, <2>6 DEF KeptAt
  <2> QED
    BY <2>5, <2>7
<1> QED
  BY <1>4, <1>5, <1>6

(* Every step keeps the invariant and the curve.                           *)
LEMMA CurveStep ==
    ASSUME KeptInv, CountersNext
    PROVE  KeptInv' /\ \A t \in Thresholds : bins'[t] # bins[t] => KeptAt(t)
<1>1. CASE TimeOut \/ ReadFifo
  <2>1. PICK total \in {counter, 0} : Take(total) /\ phase \in {"timeout", "fifo"}
    BY <1>1 DEF TimeOut, ReadFifo
  <2>2. total \in Nat /\ ith \in Thresholds
    BY <2>1 DEF KeptInv, CountersTypeOK
  <2> QED
    BY <2>1, <2>2, Taken
<1>2. CASE OpenShutter \/ Send_pulses \/ StartRead
  <2>1. /\ UNCHANGED <<ith, nrep, totaleventsprev, bins, zeros>> /\ counter' \in Nat /\ ith \in Thresholds
        /\ phase' \in {"open", "start", "fifo", "poll"}
    BY <1>2, Counted DEF OpenShutter, Send_pulses, StartRead, KeptInv, CountersTypeOK
  <2> QED
    BY <2>1 DEF KeptInv, CountersTypeOK
<1>3. CASE CurveDone \/ Poll
  <2>1. /\ UNCHANGED <<ith, nrep, totaleventsprev, bins, zeros, counter>>
        /\ phase' = "done" \/ (phase' \in {"timeout", "fifo", "poll"} /\ phase = "poll")
    BY <1>3 DEF CurveDone, Poll
  <2> QED
    BY <2>1 DEF KeptInv, CountersTypeOK
<1> QED
  BY <1>1, <1>2, <1>3 DEF CountersNext

(* For any hits, thresholds, limits and time-outs, the S-curve of the MPA  *)
(* keeps what it has read out.                                             *)
THEOREM CurveIsKept == InitCounters /\ [][CountersNext]_countersVars => CurveKept
<1>1. InitCounters => KeptInv
  BY RatesAre DEF InitCounters, KeptInv, CountersTypeOK
<1>2. KeptInv /\ [CountersNext]_countersVars => KeptInv'
  <2>1. ASSUME KeptInv, UNCHANGED countersVars PROVE KeptInv'
    BY <2>1 DEF KeptInv, CountersTypeOK, countersVars
  <2> QED
    BY <2>1, CurveStep
<1>3. KeptInv /\ [CountersNext]_countersVars =>
        [\A t \in Thresholds : bins'[t] # bins[t] =>
           \/ bins[t] = Unread /\ (t > 0 /\ bins[t - 1] > Enough => bins'[t] # 0)
           \/ bins[t] # Unread /\ bins'[t] = 0 /\ zeros' = 5]_countersVars
  BY CurveStep DEF KeptAt
<1> QED
  BY <1>1, <1>2, <1>3, PTL DEF CurveKept
-----------------------------------------------------------------------------
(* RepliesAreTheirs: the invariant holds at first and in every step.       *)

(* The steps of the utilities.                                             *)
Slaves == {i2cmux, dac7678, pcf8574, powerenable}
DacChannels == {"", "0x30", "0x31", "0x32", "0x33", "0x34", "0x35", "0x36"}
Steps == {Map, Master("board"), Master("chip"), [op |-> "reset"]}
           \cup {Send(slave, reg, data) : slave \in Slaves, reg \in DacChannels, data \in Nat}

(* Whether the chip of the call answers, and whether it is asked to.       *)
Answers ==
  /\ master = "chip" /\ port[powerenable] = 0 /\ port[pcf8574] = 1
  /\ call.chip \in DOMAIN SetI2CAddressTable
  /\ SetI2CAddressTable[call.chip] = OnBus[call.chip]
  /\ call.op \in {"read", "readall"} \/ call.verify

(* While a utility runs the FIFOs are its own, as soon as it sends.        *)
OwnFifos ==
  \/ ~waiting /\ commands = <<>> /\ replies = <<>>
  \/ /\ waiting /\ left # <<>> /\ Head(left).op = "send"
     /\ \/ commands = <<Head(left)>> /\ replies = <<>>
        \/ commands = <<>> /\ replies = <<Head(left)>>
  \/ /\ ~waiting /\ left # <<>>
     /\ \/ Head(left).op \in {"wait", "reset"}
        \/ Head(left).op = "map" /\ Len(left) > 1 /\ left[2].op = "wait"
UtilityInv ==
  /\ left \in Seq(Steps)
  /\ utility = NoUtility => ~waiting /\ left = <<>>
  /\ utility # NoUtility => asked = <<>> /\ OwnFifos

(* While a call waits the FIFOs hold the commands that are left and the    *)
(* replies to the others.                                                  *)
OwnCommands == {EncodeReg(i) : i \in DOMAIN call.at}
CallFifos ==
  /\ commands \in Seq(OwnCommands) /\ Len(commands) <= Len(call.at)
  /\ \A i \in 1 .. Len(commands) : commands[i] = Requests[Len(call.at) - Len(commands) + i]
  /\ IF Answers
     THEN /\ \E S : replies \in Seq(S)
          /\ Len(replies) = Len(call.at) - Len(commands)
          /\ \A i \in 1 .. Len(replies) :
               /\ replies[i].op = "chip" /\ replies[i].chip = call.chip /\ replies[i].at = call.at[i]
     ELSE replies = <<>>
CallInv ==
  /\ asked \in Seq(Calls)
  /\ asked = <<>> => transfer = "idle"
  /\ transfer = "wait" => CallFifos
RepliesInv == UtilityInv /\ CallInv /\ RepliesAreTheirs

\* The command for one register of a call.
LEMMA Encoded ==
    ASSUME NEW c, NEW i, NEW r, c.verify \in BOOLEAN,
           r = [op |-> "chip", chip |-> c.chip, at |-> c.at[i], value |-> c.value[i],
                read |-> c.op \in {"read", "readall"}, back |-> c.verify]
    PROVE  (r.read \/ r.back) <=> (c.op \in {"read", "readall"} \/ c.verify)
<1> DEFINE w == c.op \in {"read", "readall"}
<1>2. w \in BOOLEAN
  OBVIOUS
<1> HIDE DEF w
<1>3. (r.read \/ r.back) <=> (w \/ c.verify)
  BY <1>2 DEF w
<1> QED
  BY <1>3, Zenon DEF w

(* The commands of a call, and those of a utility.                         *)
LEMMA RequestsAre ==
    ASSUME asked \in Seq(Calls), asked # <<>>
    PROVE  /\ call \in Calls /\ Tail(asked) \in Seq(Calls) /\ Len(call.at) \in Nat
           /\ call.at \in Seq(Nat) /\ DOMAIN call.at = 1 .. Len(call.at)
           /\ Requests \in Seq(OwnCommands) /\ Len(Requests) = Len(call.at)
           /\ \A i \in 1 .. Len(call.at) : /\ Requests[i] = EncodeReg(i)
                /\ Requests[i].op = "chip" /\ Requests[i].chip = call.chip /\ Requests[i].at = call.at[i]
<1>1. call \in Calls /\ Tail(asked) \in Seq(Calls)
  BY DEF call
<1>2. call.at \in Seq(Nat) /\ DOMAIN call.at = 1 .. Len(call.at) /\ Len(call.at) \in Nat
  BY <1>1 DEF Calls
<1>3. Requests = [i \in 1 .. Len(call.at) |-> EncodeReg(i)]
  BY <1>2 DEF Requests
<1>4. \A i \in 1 .. Len(call.at) : Requests[i] = EncodeReg(i)
  BY <1>3
<1>5. Requests \in Seq(OwnCommands) /\ Len(Requests) = Len(call.at)
  <2> DEFINE R == Requests
             n == Len(call.at)
  <2>1. \A i \in 1 .. n : EncodeReg(i) \in OwnCommands
    BY <1>2 DEF OwnCommands
  <2>2. R \in [1 .. n -> OwnCommands] /\ n \in Nat
    BY <1>2, <1>3, <2>1
  <2> HIDE DEF R, n
  <2>3. R \in Seq(OwnCommands) /\ Len(R) = n
    BY <2>2
  <2> QED
    BY <2>3 DEF R, n
<1>6. ASSUME NEW i \in 1 .. Len(call.at)
      PROVE  Requests[i].op = "chip" /\ Requests[i].chip = call.chip /\ Requests[i].at = call.at[i]
  <2>1. Requests[i] = EncodeReg(i)
    BY <1>4
  <2> QED
    BY <2>1 DEF EncodeReg
<1> QED
  BY <1>1, <1>2, <1>4, <1>5, <1>6

(* A call asks for a reply to all of its commands, or to none.             *)
LEMMA Asked ==
    ASSUME asked \in Seq(Calls), asked # <<>>, NEW i \in 1 .. Len(call.at)
    PROVE  (Requests[i].read \/ Requests[i].back) <=> (call.op \in {"read", "readall"} \/ call.verify)
<1>1. call.verify \in BOOLEAN
  BY RequestsAre DEF Calls
<1>2. PICK c, r : c = call /\ r = Requests[i]
  OBVIOUS
<1>3. r = [op |-> "chip", chip |-> c.chip, at |-> c.at[i], value |-> c.value[i],
           read |-> c.op \in {"read", "readall"}, back |-> c.verify]
  <2>1. Requests[i] = EncodeReg(i)
    BY RequestsAre
  <2> QED
    BY <1>2, <2>1, Zenon DEF EncodeReg
<1>5. c.verify \in BOOLEAN
  BY <1>1, <1>2, Zenon
<1>4. (r.read \/ r.back) <=> (c.op \in {"read", "readall"} \/ c.verify)
  BY <1>3, <1>5, Encoded, Zenon
<1> QED
  BY <1>2, <1>4, Zenon

(* A utility hands the master over before it sends.                        *)
LEMMA ProgramsAre ==
    ASSUME NEW u
    PROVE  /\ Program(u) \in Seq(Steps) /\ Program(u) # <<>> /\ Head(Program(u)).op = "map"
           /\ Len(Program(u)) > 1 /\ Program(u)[2].op = "wait"
<1> DEFINE m == Map
           b == Master("board")
           c == Master("chip")
           S(slave, reg, data) == Send(slave, reg, data)
<1>1. m \in Steps /\ b \in Steps /\ c \in Steps
      /\ \A s \in Slaves, r \in DacChannels, d \in Nat : S(s, r, d) \in Steps
  BY DEF Steps
<1>2. /\ i2cmux \in Slaves /\ dac7678 \in Slaves /\ pcf8574 \in Slaves /\ powerenable \in Slaves
      /\ "" \in DacChannels /\ "0x30" \in DacChannels /\ "0x31" \in DacChannels /\ "0x32" \in DacChannels
      /\ "0x33" \in DacChannels /\ "0x34" \in DacChannels /\ "0x35" \in DacChannels /\ "0x36" \in DacChannels
  BY DEF Slaves, DacChannels
<1> HIDE DEF m, b, c
<1>3. ASSUME NEW v \in Nat
      PROVE  /\ PSInterfaceBoard_Power(v) \in Seq(Steps) /\ Len(PSInterfaceBoard_Power(v)) > 1
             /\ PSInterfaceBoard_Power(v)[1] = m /\ PSInterfaceBoard_Power(v)[2] = b
  <2> DEFINE x == S(i2cmux, "", 2)
             y == S(powerenable, "", v)
  <2>1. x \in Steps /\ y \in Steps
    BY <1>1, <1>2
  <2> HIDE DEF x, y
  <2>2. <<m, b, x, y, c>> \in Seq(Steps) /\ Len(<<m, b, x, y, c>>) = 5
        /\ <<m, b, x, y, c>>[1] = m /\ <<m, b, x, y, c>>[2] = b
    BY <1>1, <2>1
  <2>3. PSInterfaceBoard_Power(v) = <<m, b, x, y, c>>
    BY Zenon DEF PSInterfaceBoard_Power, m, b, c, x, y
  <2> QED
    BY <2>2, <2>3
<1>4. PSInterfaceBoard_PowerOn_MPA \in Seq(Steps)
  <2> DEFINE x1 == S(i2cmux, "", 1)
             x2 == S(i2cmux, "", 2)
             x4 == S(i2cmux, "", 4)
             d3 == S(dac7678, "0x33", 1)
             d1 == S(dac7678, "0x31", 1)
             d5 == S(dac7678, "0x35", 1)
             d6 == S(dac7678, "0x36", 1)
             p  == S(pcf8574, "", 1)
  <2>1. /\ x1 \in Steps /\ x2 \in Steps /\ x4 \in Steps /\ p \in Steps
        /\ d3 \in Steps /\ d1 \in Steps /\ d5 \in Steps /\ d6 \in Steps
    BY <1>1, <1>2
  <2> HIDE DEF x1, x2, x4, d3, d1, d5, d6, p
  <2>2. <<m, b, x1, d3, x1, d1, x1, d5, x1, d6, x2, p, x4, c>> \in Seq(Steps)
    BY <1>1, <2>1
  <2>3. PSInterfaceBoard_PowerOn_MPA = <<m, b, x1, d3, x1, d1, x1, d5, x1, d6, x2, p, x4, c>>
    BY Zenon DEF PSInterfaceBoard_PowerOn_MPA, m, b, c, x1, x2, x4, d3, d1, d5, d6, p
  <2> QED
    BY <2>2, <2>3
<1>6. /\ PSInterfaceBoard_PowerOff_MPA \in Seq(Steps) /\ Len(PSInterfaceBoard_PowerOff_MPA) > 1
      /\ PSInterfaceBoard_PowerOff_MPA[1] = m /\ PSInterfaceBoard_PowerOff_MPA[2] = b
  <2> DEFINE x1 == S(i2cmux, "", 1)
             x2 == S(i2cmux, "", 2)
             d6 == S(dac7678, "0x36", 0)
             d2 == S(dac7678, "0x32", 0)
             d0 == S(dac7678, "0x30", 0)
             d4 == S(dac7678, "0x34", 0)
             p  == S(pcf8574, "", 0)
  <2>1. /\ x1 \in Steps /\ x2 \in Steps /\ p \in Steps
        /\ d6 \in Steps /\ d2 \in Steps /\ d0 \in Steps /\ d4 \in Steps
    BY <1>1, <1>2
  <2> HIDE DEF x1, x2, d6, d2, d0, d4, p
  <2>2. /\ <<m, b, x2, p, x1, d6, x1, d2, x1, d0, x1, d4>> \in Seq(Steps)
        /\ Len(<<m, b, x2, p, x1, d6, x1, d2, x1, d0, x1, d4>>) > 1
        /\ <<m, b, x2, p, x1, d6, x1, d2, x1, d0, x1, d4>>[1] = m
        /\ <<m, b, x2, p, x1, d6, x1, d2, x1, d0, x1, d4>>[2] = b
    BY <1>1, <2>1
  <2>3. PSInterfaceBoard_PowerOff_MPA = <<m, b, x2, p, x1, d6, x1, d2, x1, d0, x1, d4>>
    BY Zenon DEF PSInterfaceBoard_PowerOff_MPA, m, b, x1, x2, d6, d2, d0, d4, p
  <2> QED
    BY <2>2, <2>3
<1>5. ASSUME NEW f \in Seq(Steps), NEW g \in Seq(Steps), Len(f) > 1, f[1] = m, f[2] = b
      PROVE  /\ f \o g \in Seq(Steps) /\ f \o g # <<>> /\ Head(f \o g).op = "map"
             /\ Len(f \o g) > 1 /\ (f \o g)[2].op = "wait"
  <2>1. f \o g \in Seq(Steps) /\ Len(f \o g) > 1 /\ (f \o g)[1] = m /\ (f \o g)[2] = b
    BY <1>5
  <2>2. f \o g # <<>> /\ Head(f \o g) = m
    BY <2>1
  <2> QED
    BY <2>1, <2>2 DEF m, b, Map, Master
<1>7. CASE u = "power_on"
  <2>1. Program(u) = PSInterfaceBoard_Power(0) \o PSInterfaceBoard_PowerOn_MPA
    BY <1>7 DEF Program
  <2>2. /\ PSInterfaceBoard_Power(0) \in Seq(Steps) /\ Len(PSInterfaceBoard_Power(0)) > 1
        /\ PSInterfaceBoard_Power(0)[1] = m /\ PSInterfaceBoard_Power(0)[2] = b
    BY <1>3
  <2> QED
    BY <1>4, <1>5, <2>1, <2>2
<1>8. CASE u # "power_on"
  <2>1. Program(u) = PSInterfaceBoard_PowerOff_MPA \o PSInterfaceBoard_Power(1)
    BY <1>8 DEF Program
  <2>2. PSInterfaceBoard_Power(1) \in Seq(Steps)
    BY <1>3
  <2> QED
    BY <1>6, <1>5, <2>1, <2>2
<1> QED
  BY <1>7, <1>8

(* A step of a utility, or of the board.                                   *)
LEMMA UtilityStep ==
    ASSUME RepliesInv, PsBoard, utility # NoUtility
    PROVE  RepliesInv'
<1>1. /\ UNCHANGED <<cells, copy, asked, transfer, answers>>
      /\ asked = <<>> /\ transfer = "idle" /\ OwnFifos /\ left \in Seq(Steps)
  BY DEF RepliesInv, UtilityInv, CallInv, PsBoard, registerVars
<1>2. CallInv'
  BY <1>1 DEF RepliesInv, CallInv
<1>3. /\ left # <<>> => Tail(left) \in Seq(Steps)
      /\ Len(left) > 1 => Tail(left) # <<>> /\ Head(Tail(left)) = left[2]
  <2>1. left # <<>> => Tail(left) \in Seq(Steps)
    BY <1>1
  <2>2. ASSUME Len(left) > 1 PROVE Tail(left) # <<>> /\ Head(Tail(left)) = left[2]
    <3>1. left # <<>> /\ Len(Tail(left)) = Len(left) - 1 /\ Tail(left)[1] = left[2] /\ Len(left) \in Nat
      BY <1>1, <2>2
    <3>2. PICK t \in Seq(Steps) : t = Tail(left)
      BY <2>1, <3>1
    <3>3. Len(t) > 0 /\ t[1] = left[2]
      BY <2>2, <3>1, <3>2
    <3>4. t # <<>> /\ Head(t) = left[2]
      BY <3>3
    <3> QED
      BY <3>2, <3>4
  <2> QED
    BY <2>1, <2>2
<1>4. CASE SetSlaveMap
  <2>1. /\ UNCHANGED <<utility, waiting, commands, replies, answered>> /\ left' = Tail(left) /\ left # <<>>
        /\ Head(left).op = "map"
    BY <1>4 DEF SetSlaveMap, AtOp
  <2>2. CASE waiting
    BY <1>1, <2>1, <2>2 DEF OwnFifos
  <2>3. CASE ~waiting /\ commands = <<>> /\ replies = <<>>
    BY <1>1, <1>2, <1>3, <2>1, <2>3 DEF RepliesInv, UtilityInv, OwnFifos, RepliesAreTheirs
  <2>4. CASE ~waiting /\ Len(left) > 1 /\ left[2].op = "wait"
    <3>1. left' # <<>> /\ Head(left').op = "wait" /\ left' \in Seq(Steps)
      BY <1>3, <2>1, <2>4
    <3> QED
      BY <1>1, <1>2, <2>1, <2>4, <3>1 DEF RepliesInv, UtilityInv, OwnFifos, RepliesAreTheirs
  <2>5. waiting \/ (commands = <<>> /\ replies = <<>>) \/ (Len(left) > 1 /\ left[2].op = "wait")
    BY <1>1, <2>1 DEF OwnFifos
  <2> QED
    BY <2>2, <2>3, <2>4, <2>5
<1>5. CASE ConfigureI2CMaster
  <2>1. /\ UNCHANGED <<utility, waiting, commands, replies, answered>> /\ left # <<>>
        /\ left' = <<[op |-> "reset"]>> \o Tail(left) /\ Head(left).op = "wait"
    BY <1>5 DEF ConfigureI2CMaster, AtOp
  <2>2. <<[op |-> "reset"]>> \in Seq(Steps)
    BY DEF Steps
  <2>3. left' \in Seq(Steps) /\ left' # <<>> /\ Head(left').op = "reset"
    BY <1>3, <2>1, <2>2
  <2>4. ~waiting
    BY <1>1, <2>1 DEF OwnFifos
  <2> QED
    BY <1>1, <1>2, <2>1, <2>3, <2>4 DEF RepliesInv, UtilityInv, OwnFifos, RepliesAreTheirs
<1>6. CASE ResetMaster
  <2>1. /\ UNCHANGED <<utility, waiting, answered>> /\ left # <<>> /\ left' = Tail(left) /\ Head(left).op = "reset"
        /\ commands' = <<>> /\ replies' = <<>>
    BY <1>6 DEF ResetMaster, AtOp, Emptied
  <2>2. ~waiting
    BY <1>1, <2>1 DEF OwnFifos
  <2> QED
    BY <1>1, <1>2, <1>3, <2>1, <2>2 DEF RepliesInv, UtilityInv, OwnFifos, RepliesAreTheirs
<1>7. CASE SendI2CCommand
  <2>1. /\ UNCHANGED <<utility, left, replies, answered>> /\ left # <<>> /\ Head(left).op = "send" /\ ~waiting
        /\ waiting' = TRUE /\ commands' = Append(commands, Head(left))
    BY <1>7 DEF SendI2CCommand, AtOp
  <2>2. commands = <<>> /\ replies = <<>>
    BY <1>1, <2>1 DEF OwnFifos
  <2>3. commands' = <<Head(left)>>
    BY <2>1, <2>2
  <2> QED
    BY <1>1, <1>2, <2>1, <2>2, <2>3 DEF RepliesInv, UtilityInv, OwnFifos, RepliesAreTheirs
<1>8. CASE ReadReply
  <2>1. /\ UNCHANGED <<utility, commands>> /\ left # <<>> /\ waiting /\ replies # <<>>
        /\ waiting' = FALSE /\ left' = Tail(left) /\ replies' = Tail(replies)
        /\ answered' = <<Head(left), Head(replies)>>
    BY <1>8 DEF ReadReply, AtOp
  <2>2. commands = <<>> /\ replies = <<Head(left)>>
    BY <1>1, <2>1 DEF OwnFifos
  <2>3. replies' = <<>> /\ answered'[1] = answered'[2]
    BY <2>1, <2>2
  <2> QED
    BY <1>1, <1>2, <1>3, <2>1, <2>2, <2>3 DEF RepliesInv, UtilityInv, OwnFifos, RepliesAreTheirs
<1>9. CASE Finish \/ Kill
  <2>1. UNCHANGED answered /\ left' = <<>> /\ utility' = NoUtility /\ waiting' = FALSE
    BY <1>1, <1>9 DEF Finish, Kill, OwnFifos
  <2> QED
    BY <1>2, <2>1 DEF RepliesInv, UtilityInv, RepliesAreTheirs
<1>10. CASE Execute
  <2>1. /\ UNCHANGED <<utility, left, waiting, answered>> /\ commands # <<>> /\ commands' = Tail(commands)
        /\ replies' = Append(replies, Head(commands))
    BY <1>10 DEF Execute
  <2>2. CASE waiting
    <3>1. left # <<>> /\ Head(left).op = "send" /\ commands = <<Head(left)>> /\ replies = <<>>
      BY <1>1, <2>1, <2>2 DEF OwnFifos
    <3>2. commands' = <<>> /\ replies' = <<Head(left)>>
      BY <2>1, <3>1
    <3> QED
      BY <1>1, <1>2, <2>1, <2>2, <3>1, <3>2 DEF RepliesInv, UtilityInv, OwnFifos, RepliesAreTheirs
  <2>3. CASE ~waiting
    BY <1>1, <1>2, <2>1, <2>3 DEF RepliesInv, UtilityInv, OwnFifos, RepliesAreTheirs
  <2> QED
    BY <2>2, <2>3
<1> QED
  BY <1>4, <1>5, <1>6, <1>7, <1>8, <1>9, <1>10 DEF PsBoard, PsNext, Utility, StartUtility

(* A step of the board while no utility runs.                              *)
LEMMA BoardStep ==
    ASSUME RepliesInv, PsBoard, utility = NoUtility
    PROVE  RepliesInv'
<1>1. /\ UNCHANGED <<cells, copy, asked, transfer, answers>> /\ (asked # <<>> => utility' = utility)
      /\ left = <<>> /\ ~waiting
  BY DEF RepliesInv, UtilityInv, PsBoard, registerVars, OneProgram
<1>2. CASE Execute
  <2>1. UNCHANGED <<utility, left, waiting, answered>> /\ commands # <<>> /\ Head(commands).op = "send"
    BY <1>2 DEF Execute
  <2>2. transfer # "wait"
    <3>1. SUFFICES ASSUME CallFifos, asked \in Seq(Calls), asked # <<>> PROVE FALSE
      BY DEF RepliesInv, CallInv
    <3>2. Len(commands) \in Nat /\ Len(commands) > 0 /\ Head(commands) = commands[1]
      BY <2>1, <3>1 DEF CallFifos
    <3>3. /\ Len(call.at) - Len(commands) + 1 \in 1 .. Len(call.at)
          /\ commands[1] = Requests[Len(call.at) - Len(commands) + 1]
      <4>1. Len(call.at) \in Nat
        BY <3>1, RequestsAre
      <4>2. /\ Len(commands) <= Len(call.at)
            /\ \A i \in 1 .. Len(commands) : commands[i] = Requests[Len(call.at) - Len(commands) + i]
        BY <3>1 DEF CallFifos
      <4> QED
        BY <3>2, <4>1, <4>2
    <3> QED
      <4>1. Requests[Len(call.at) - Len(commands) + 1].op = "chip"
        BY <3>1, <3>3, RequestsAre
      <4> QED
        BY <2>1, <3>2, <3>3, <4>1, Zenon
  <2> QED
    BY <1>1, <2>1, <2>2 DEF RepliesInv, UtilityInv, CallInv, RepliesAreTheirs
<1>3. CASE \E u \in {"power_on", "power_off"} : StartUtility(u)
  <2>1. PICK u \in {"power_on", "power_off"} : StartUtility(u)
    BY <1>3
  <2>2. /\ utility' # NoUtility /\ left' = Program(u) /\ waiting' = waiting /\ answered' = <<>> /\ asked = <<>>
    BY <1>1, <2>1 DEF StartUtility, NoUtility
  <2>3. OwnFifos' /\ left' \in Seq(Steps)
    BY <1>1, <2>2, ProgramsAre DEF OwnFifos
  <2> QED
    BY <1>1, <2>2, <2>3 DEF RepliesInv, UtilityInv, CallInv, RepliesAreTheirs
<1> QED
  BY <1>2, <1>3 DEF PsBoard, PsNext, Utility, SetSlaveMap, ConfigureI2CMaster, ResetMaster,
                    SendI2CCommand, ReadReply, Finish, AtOp, Kill

(* A step of a call.                                                       *)
LEMMA CallStep ==
    ASSUME RepliesInv,
           WriteI2C \/ ReadI2C \/ ReadI2CFailed \/ WriteCbcBlockReg \/ Pix_write_MPA \/ ReadCbcBlockReg
    PROVE  RepliesInv'
<1>1. /\ UNCHANGED <<utility, left, waiting, master, port>> /\ asked # <<>>
      /\ asked \in Seq(Calls) /\ utility = NoUtility
  BY DEF RepliesInv, UtilityInv, CallInv, WriteI2C, ReadI2C, ReadI2CFailed, TakeReplies,
         WriteCbcBlockReg, Pix_write_MPA, ReadCbcBlockReg, Done, psVars
<1>2. UtilityInv'
  BY <1>1 DEF RepliesInv, UtilityInv
<1>3. CASE WriteI2C
  <2>1. /\ UNCHANGED <<answered, asked>> /\ commands' = Requests /\ replies' = <<>> /\ transfer' = "wait"
    BY <1>3 DEF WriteI2C, Emptied
  <2>2. call' = call /\ Requests' = Requests /\ OwnCommands' = OwnCommands
    BY <2>1 DEF call, Requests, EncodeReg, OwnCommands
  <2>3. CallFifos'
    <3>1. Requests \in Seq(OwnCommands) /\ Len(Requests) = Len(call.at) /\ Len(call.at) \in Nat
      BY <1>1, RequestsAre
    <3>2. Len(replies') = 0
      BY <2>1
    <3> QED
      BY <2>1, <2>2, <3>1, <3>2 DEF CallFifos
  <2> QED
    BY <1>1, <1>2, <2>1, <2>3 DEF RepliesInv, CallInv, RepliesAreTheirs
<1>4. CASE ReadI2C \/ ReadI2CFailed
  <2>1. /\ UNCHANGED asked /\ transfer = "wait" /\ transfer' = "decode" /\ CallFifos
        /\ answered' = <<[i \in 1 .. Min({Len(replies), Len(Expected)}) |->
                            <<"chip", Expected[i].chip, Expected[i].at>>],
                         [i \in DOMAIN replies |-> IF replies[i].op = "chip"
                                                   THEN <<"chip", replies[i].chip, replies[i].at>>
                                                   ELSE <<replies[i].op>>]>>
    BY <1>4 DEF ReadI2C, ReadI2CFailed, TakeReplies, RepliesInv, CallInv
  <2> DEFINE n == Min({Len(replies), Len(Expected)})
             first  == [i \in 1 .. n |-> <<"chip", Expected[i].chip, Expected[i].at>>]
             second == [i \in DOMAIN replies |-> IF replies[i].op = "chip"
                                                 THEN <<"chip", replies[i].chip, replies[i].at>>
                                                 ELSE <<replies[i].op>>]
  <2>2. \A i \in 1 .. Len(call.at) : <<"chip", Requests[i].chip, Requests[i].at>> = <<"chip", call.chip, call.at[i]>>
    BY <1>1, RequestsAre
  <2>3. CASE Answers
    <3>1. Expected = Requests /\ Len(Requests) = Len(call.at) /\ Len(call.at) \in Nat
      BY <1>1, <2>3, RequestsAre DEF Expected, Answers
    <3>2. /\ Len(replies) \in 0 .. Len(call.at) /\ DOMAIN replies = 1 .. Len(replies)
          /\ \A i \in 1 .. Len(replies) :
               /\ replies[i].op = "chip" /\ replies[i].chip = call.chip /\ replies[i].at = call.at[i]
      BY <2>1, <2>3, <3>1 DEF CallFifos
    <3>3. n = Len(replies)
      BY <3>1, <3>2, Least
    <3> HIDE DEF n
    <3>4. first = [i \in 1 .. n |-> <<"chip", call.chip, call.at[i]>>]
      BY <2>2, <3>1, <3>2, <3>3
    <3>5. second = [i \in 1 .. n |-> <<"chip", call.chip, call.at[i]>>]
      BY <3>2, <3>3
    <3>6. first = second
      BY <3>4, <3>5
    <3> QED
      BY <1>1, <1>2, <2>1, <3>6 DEF RepliesInv, CallInv, RepliesAreTheirs, n
  <2>4. CASE ~Answers
    <3>1. replies = <<>> /\ Len(replies) = 0 /\ DOMAIN replies = 1 .. 0
      BY <2>1, <2>4 DEF CallFifos
    <3>2. Len(Expected) \in Nat
      BY <1>1, RequestsAre DEF Expected
    <3>3. n = 0
      BY <3>1, <3>2, Least
    <3> HIDE DEF n
    <3>4. first = second
      BY <3>1, <3>3
    <3> QED
      BY <1>1, <1>2, <2>1, <3>4 DEF RepliesInv, CallInv, RepliesAreTheirs, n
  <2> QED
    BY <2>3, <2>4
<1>5. CASE WriteCbcBlockReg \/ Pix_write_MPA \/ ReadCbcBlockReg
  <2>1. UNCHANGED answered /\ asked' = Tail(asked) /\ transfer' = "idle"
    BY <1>5 DEF WriteCbcBlockReg, Pix_write_MPA, ReadCbcBlockReg, Done, psVars
  <2> QED
    BY <1>1, <1>2, <2>1, RequestsAre DEF RepliesInv, CallInv, RepliesAreTheirs
<1> QED
  BY <1>3, <1>4, <1>5

(* The firmware carries out a command for a chip.                          *)
LEMMA ChipStep ==
    ASSUME RepliesInv, ExecuteChip
    PROVE  RepliesInv'
<1>1. /\ UNCHANGED <<utility, left, waiting, master, mapped, port, answered, asked, transfer>>
      /\ commands # <<>> /\ Head(commands).op = "chip" /\ commands' = Tail(commands)
  BY DEF ExecuteChip
<1>2. UtilityInv'
  <2>1. utility # NoUtility /\ OwnFifos => ~waiting /\ OwnFifos'
    BY <1>1 DEF OwnFifos
  <2> QED
    BY <1>1, <2>1 DEF RepliesInv, UtilityInv
<1>3. ASSUME transfer = "wait" PROVE CallFifos'
  <2>1. asked \in Seq(Calls) /\ asked # <<>> /\ CallFifos
    BY <1>3 DEF RepliesInv, CallInv
  <2>2. call' = call /\ Requests' = Requests /\ OwnCommands' = OwnCommands /\ Answers' = Answers
    BY <1>1 DEF call, Requests, EncodeReg, OwnCommands, Answers
  <2> DEFINE k == Len(call.at) - Len(commands)
             c == Head(commands)
  <2>3. /\ Len(call.at) \in Nat /\ commands \in Seq(OwnCommands) /\ Len(commands) \in 1 .. Len(call.at)
        /\ k \in 0 .. Len(call.at) - 1 /\ c = Requests[k + 1]
    BY <1>1, <2>1, RequestsAre DEF CallFifos
  <2>4. /\ commands' \in Seq(OwnCommands) /\ Len(commands') = Len(commands) - 1
        /\ \A i \in 1 .. Len(commands') : commands'[i] = commands[i + 1]
    BY <1>1, <2>3
  <2>5. \A i \in 1 .. Len(commands') : commands'[i] = Requests[Len(call.at) - Len(commands') + i]
    <3>1. \A i \in 1 .. Len(commands) : commands[i] = Requests[Len(call.at) - Len(commands) + i]
      BY <2>1 DEF CallFifos
    <3> HIDE DEF call
    <3> QED
      BY <2>3, <2>4, <3>1
  <2>6. /\ c = EncodeReg(k + 1) /\ c.op = "chip" /\ c.chip = call.chip /\ c.at = call.at[k + 1]
        /\ (c.read \/ c.back) <=> (call.op \in {"read", "readall"} \/ call.verify)
    <3>1. k + 1 \in 1 .. Len(call.at)
      BY <2>3
    <3> HIDE DEF k
    <3>2. c = EncodeReg(k + 1) /\ c.op = "chip" /\ c.chip = call.chip /\ c.at = call.at[k + 1]
      BY <2>1, <2>3, <3>1, RequestsAre
    <3>3. (Requests[k + 1].read \/ Requests[k + 1].back) <=> (call.op \in {"read", "readall"} \/ call.verify)
      BY <2>1, <3>1, Asked
    <3> QED
      BY <2>3, <3>2, <3>3, Zenon
  <2>7. \E now : replies' = IF Answers THEN Append(replies, [c EXCEPT !.value = now]) ELSE replies
    <3> DEFINE there == /\ master = "chip" /\ port[powerenable] = 0 /\ port[pcf8574] = 1
                        /\ c.chip \in DOMAIN SetI2CAddressTable
                        /\ SetI2CAddressTable[c.chip] = OnBus[c.chip]
               now == IF c.read THEN cells[c.chip][c.at] ELSE c.value
    <3>1. replies' = IF there /\ (c.read \/ c.back) THEN Append(replies, [c EXCEPT !.value = now]) ELSE replies
      BY Zenon DEF ExecuteChip
    <3>2. (there /\ (c.read \/ c.back)) <=> Answers
      BY <2>6 DEF Answers
    <3> HIDE DEF there, now
    <3> QED
      BY <3>1, <3>2
  <2>8. CASE Answers
    <3>1. PICK now : replies' = Append(replies, [c EXCEPT !.value = now])
      BY <2>7, <2>8
    <3> DEFINE r == [c EXCEPT !.value = now]
    <3>2. r.op = "chip" /\ r.chip = call.chip /\ r.at = call.at[k + 1]
      BY <2>6 DEF EncodeReg
    <3> HIDE DEF r
    <3>3. PICK S : replies \in Seq(S)
      BY <2>1, <2>8 DEF CallFifos
    <3>4. /\ Len(replies) = k
          /\ \A i \in 1 .. Len(replies) :
               /\ replies[i].op = "chip" /\ replies[i].chip = call.chip /\ replies[i].at = call.at[i]
      BY <2>1, <2>8 DEF CallFifos
    <3>5. replies \in Seq(S \cup {r}) /\ replies' = Append(replies, r)
      BY <3>1, <3>3 DEF r
    <3>6. /\ replies' \in Seq(S \cup {r}) /\ Len(replies') = k + 1 /\ replies'[k + 1] = r
          /\ \A i \in 1 .. k : replies'[i] = replies[i]
      <4> HIDE DEF k
      <4> QED
        BY <3>4, <3>5
    <3>7. \A i \in 1 .. Len(replies') :
            /\ replies'[i].op = "chip" /\ replies'[i].chip = call.chip /\ replies'[i].at = call.at[i]
      <4>0. k \in Nat
        BY <2>3
      <4> HIDE DEF k
      <4>1. ASSUME NEW i \in 1 .. Len(replies'), i # k + 1 PROVE i \in 1 .. k
        BY <3>6, <4>0, <4>1
      <4> QED
        BY <3>2, <3>4, <3>6, <4>1
    <3>8. Len(replies') = Len(call.at) - Len(commands')
      BY <2>3, <2>4, <3>6
    <3> QED
      BY <2>2, <2>3, <2>4, <2>5, <2>8, <3>6, <3>7, <3>8 DEF CallFifos
  <2>9. CASE ~Answers
    BY <2>1, <2>2, <2>3, <2>4, <2>5, <2>7, <2>9 DEF CallFifos
  <2> QED
    BY <2>8, <2>9
<1> QED
  BY <1>1, <1>2, <1>3 DEF RepliesInv, CallInv, RepliesAreTheirs

(* Every step keeps the invariant.                                         *)
LEMMA RegistersStep ==
    ASSUME RepliesInv, [RegisterNext]_<<psVars, registerVars>>
    PROVE  RepliesInv'
<1>1. CASE StartCalls
  <2>1. /\ UNCHANGED <<utility, left, waiting, transfer, answered>> /\ transfer = "idle" /\ utility = NoUtility
        /\ asked' \in Operations
    BY <1>1 DEF StartCalls
  <2>2. asked' \in Seq(Calls)
    BY <2>1, RegistersAssumption DEF RegistersAssumption
  <2> QED
    BY <2>1, <2>2 DEF RepliesInv, UtilityInv, CallInv, RepliesAreTheirs
<1>2. CASE KillCalls
  <2>1. /\ UNCHANGED <<utility, left, waiting, answered, commands, replies>> /\ transfer' = "idle" /\ asked' = <<>>
    BY <1>2 DEF KillCalls, psVars
  <2> QED
    BY <2>1 DEF RepliesInv, UtilityInv, CallInv, RepliesAreTheirs, OwnFifos
<1>3. CASE UNCHANGED <<psVars, registerVars>>
  BY <1>3 DEF psVars, registerVars, RepliesInv, UtilityInv, CallInv, RepliesAreTheirs, OwnFifos,
              CallFifos, Answers, call, Requests, EncodeReg, OwnCommands
<1> QED
  BY <1>1, <1>2, <1>3, UtilityStep, BoardStep, CallStep, ChipStep DEF RegisterNext

(* For any chips, addresses and programs, the replies that are read are    *)
(* those to what has been sent: to a utility of the interface board and to *)
(* the calls for the registers of the chips.                               *)
THEOREM OwnReplies ==
  InitRegisters /\ [][RegisterNext]_<<psVars, registerVars>> => []RepliesAreTheirs
<1>1. InitRegisters => RepliesInv
  BY DEF InitRegisters, InitPs, RepliesInv, UtilityInv, CallInv, RepliesAreTheirs
<1>2. RepliesInv /\ [RegisterNext]_<<psVars, registerVars>> => RepliesInv'
  BY RegistersStep
<1>3. RepliesInv => RepliesAreTheirs
  BY DEF RepliesInv
<1> QED
  BY <1>1, <1>2, <1>3, PTL

-----------------------------------------------------------------------------
(* MeasuredAlone: the invariant holds at first, and every step keeps it.   *)

(* From its choice to its end a group is alone, and the stub logic of a    *)
(* CBC3 is off from Initialise() to the end of a tool.                     *)
OthersOff == \A c \in Cbc, ch \in Channel : ch \notin TestGroupChannelMap(cTGroup) => offset[c][ch] = Off
StubOff   == \A c \in Cbc : type = "CBC3" => stub[c] = "off"
Noisy == {"save", "group", "group pedestal", "group decide", "curve", "group end"}
Calibrating == {"offsets", "occupancy", "back", "verify"}
AloneInv ==
    /\ pc \in {"initialise", "find", "flip", "take", "judge", "mean", "write", "done", "pedestal", "decide",
               "restore", "swept", "noisy", "validated"} \cup Noisy \cup Calibrating
    /\ pc \in {"find", "flip", "take", "judge", "mean", "write", "pedestal", "decide"} \cup Noisy \cup Calibrating
         => StubOff
    /\ pc \in Calibrating \cup {"group pedestal", "group decide", "curve"} => OthersOff
    /\ pc \in Noisy \ {"save"} /\ all => cTGroup = -1

(* All channels go off.                                                   *)
LEMMA AllOff ==
    ASSUME NEW alsoHist, setOffset(Off, -1, alsoHist), holes' = holes
    PROVE  OthersOff'
BY DEF setOffset, OthersOff, TestGroupChannelMap, Off

(* Those of a group go off.                                                *)
LEMMA GroupOff ==
    ASSUME NEW alsoHist, setOffset(Off, cTGroup, alsoHist), OthersOff, holes' = holes
    PROVE  OthersOff'
BY DEF setOffset, OthersOff, TestGroupChannelMap, Off

(* Every step of the calibration keeps the invariant.                      *)
LEMMA CalibrateAlone ==
    ASSUME AloneInv, Next
    PROVE  AloneInv'
<1>1. CASE Initialise
  BY <1>1 DEF Initialise, AloneInv, StubOff, Noisy, Calibrating
<1>2. CASE FindVplus \/ FlipThreshold \/ TakeThreshold \/ bitwiseVCth \/ bitwiseVplus
  <2>1. /\ UNCHANGED <<type, stub>> /\ pc \in {"find", "flip", "take", "judge"}
        /\ pc' \in {"flip", "take", "judge", "mean"}
    BY <1>2 DEF FindVplus, FlipThreshold, TakeThreshold, bitwiseVCth, bitwiseVplus, Judged, chipVars
  <2> QED
    BY <2>1 DEF AloneInv, StubOff, Noisy, Calibrating
<1>3. CASE FindOffsets
  <2>1. UNCHANGED <<type, stub, holes>> /\ pc = "mean" /\ pc' = "offsets" /\ setOffset(Off, -1, TRUE)
    BY <1>3 DEF FindOffsets
  <2>2. OthersOff'
    BY <2>1, AllOff
  <2> QED
    BY <2>1, <2>2 DEF AloneInv, StubOff, Noisy, Calibrating
<1>4. CASE toggleOffset_Begin \/ measureOccupancy \/ bitwiseOffset
  <2>1. /\ UNCHANGED <<type, stub, holes, cTGroup>> /\ pc \in {"offsets", "occupancy", "back"}
        /\ pc' \in {"occupancy", "back", "offsets", "verify"}
    BY <1>4 DEF toggleOffset_Begin, measureOccupancy, bitwiseOffset, chipVars
  <2>2. OthersOff /\ StubOff
    BY <2>1 DEF AloneInv, Calibrating
  <2>3. \A c \in Cbc, ch \in Channel : ch \notin TestGroupChannelMap(cTGroup) => offset'[c][ch] = offset[c][ch]
    BY <1>4 DEF toggleOffset_Begin, measureOccupancy, bitwiseOffset, toggleOffset, chipVars
  <2>4. OthersOff'
    BY <2>1, <2>2, <2>3 DEF OthersOff, TestGroupChannelMap, Off
  <2> QED
    BY <2>1, <2>2, <2>4 DEF AloneInv, StubOff, Noisy, Calibrating
<1>5. CASE GroupDone
  <2>1. /\ UNCHANGED <<type, stub, holes>> /\ pc = "verify" /\ pc' \in {"offsets", "write"}
        /\ setOffset(Off, cTGroup, FALSE)
    BY <1>5 DEF GroupDone
  <2>2. OthersOff' /\ StubOff
    BY <2>1, GroupOff DEF AloneInv, Calibrating
  <2> QED
    BY <2>1, <2>2 DEF AloneInv, StubOff, Noisy, Calibrating
<1>6. CASE setRegValues
  BY <1>6 DEF setRegValues, AloneInv, StubOff, Noisy, Calibrating
<1> QED
  BY <1>1, <1>2, <1>3, <1>4, <1>5, <1>6 DEF Next

(* Every step of the noise measurement keeps it.                           *)
LEMMA NoiseAlone ==
    ASSUME AloneInv, [NoiseNext]_noiseVars
    PROVE  AloneInv'
<1>1. CASE Calibrate
  BY <1>1, CalibrateAlone DEF Calibrate
<1>2. CASE InitialiseNoise
  <2>1. /\ pc = "done" /\ pc' \in {"pedestal", "save"} /\ cTGroup' = -1 /\ type' = type
        /\ stub' = [c \in Cbc |-> IF type = "CBC3" THEN "off" ELSE stub[c]]
    BY <1>2 DEF InitialiseNoise, mode
  <2> QED
    BY <2>1 DEF AloneInv, StubOff, Noisy, Calibrating
<1>3. CASE measureOccupancy_Noise \/ findPedestal
  <2>1. /\ UNCHANGED <<type, holes, all, stub, offset, cTGroup>>
        /\ \/ pc \in {"pedestal", "decide"} /\ pc' \in {"decide", "pedestal"}
           \/ pc = "decide" /\ pc' = "save"
           \/ pc \in {"group pedestal", "group decide"} /\ pc' \in {"group decide", "group pedestal", "curve"}
    BY <1>3 DEF measureOccupancy_Noise, findPedestal, mode
  <2> QED
    BY <2>1 DEF AloneInv, StubOff, Noisy, Calibrating, OthersOff, TestGroupChannelMap, Off
<1>4. CASE saveInitialOffsets
  BY <1>4 DEF saveInitialOffsets, mode, AloneInv, StubOff, Noisy, Calibrating
<1>5. CASE BeginGroup
  <2>1. /\ UNCHANGED <<type, holes, all, stub, cTGroup>> /\ pc = "group" /\ pc' \in {"group pedestal", "curve"}
        /\ enableTestGroupforNoise
    BY <1>5 DEF BeginGroup, mode
  <2>2. StubOff /\ (all => cTGroup = -1)
    BY <2>1 DEF AloneInv, Noisy
  <2>3. OthersOff'
    BY <2>1, <2>2 DEF enableTestGroupforNoise, OthersOff, TestGroupChannelMap, Off
  <2> QED
    BY <2>1, <2>2, <2>3 DEF AloneInv, StubOff, Noisy, Calibrating
<1>6. CASE SkipGroup \/ EndGroup
  <2>1. /\ UNCHANGED <<type, all, stub>> /\ (all => UNCHANGED cTGroup)
        /\ pc \in {"group", "group end"} /\ pc' \in {"group", "restore"}
    BY <1>6 DEF SkipGroup, EndGroup, mode
  <2> QED
    BY <2>1 DEF AloneInv, StubOff, Noisy, Calibrating
<1>7. CASE NextTurn \/ measureSCurves
  <2>1. /\ UNCHANGED <<type, holes, all, stub, offset, cTGroup>>
        /\ pc = "curve" /\ pc' \in {"curve", "group end"}
    BY <1>7 DEF NextTurn, measureSCurves, mode
  <2> QED
    BY <2>1 DEF AloneInv, StubOff, Noisy, Calibrating, OthersOff, TestGroupChannelMap, Off
<1>8. CASE setInitialOffsets \/ Validate \/ MaskNoisy
  <2>1. pc' \in {"swept", "noisy", "validated"}
    BY <1>8 DEF setInitialOffsets, Validate, MaskNoisy
  <2> QED
    BY <2>1 DEF AloneInv, Noisy, Calibrating
<1>9. CASE UNCHANGED noiseVars
  BY <1>9 DEF noiseVars, vars, chipVars, AloneInv, StubOff, OthersOff, TestGroupChannelMap, Off
<1> QED
  BY <1>1, <1>2, <1>3, <1>4, <1>5, <1>6, <1>7, <1>8, <1>9 DEF NoiseNext, Sweep

(* For any chips, groups, points and limits, a group is measured alone.    *)
THEOREM GroupsAreAlone == NoiseSpec => []MeasuredAlone
<1>1. InitNoise => AloneInv
  BY DEF InitNoise, Init, AloneInv, Noisy, Calibrating
<1>2. AloneInv /\ [NoiseNext]_noiseVars => AloneInv'
  BY NoiseAlone
<1>3. AloneInv => MeasuredAlone
  BY DEF AloneInv, MeasuredAlone, Noisy, Calibrating, StubOff, OthersOff
<1> QED
  BY <1>1, <1>2, <1>3, PTL DEF NoiseSpec
=============================================================================
