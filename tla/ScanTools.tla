----------------------------- MODULE ScanTools -----------------------------
(***************************************************************************)
(* The scans of the tools: the thresholds of HybridTester and PulseShape,  *)
(* which search the noise in coarse steps, go back and continue in fine    *)
(* ones, and the latencies and thresholds of LatencyScan, HybridTester,    *)
(* SignalScan and SignalScanFit, which take one after the other.           *)
(*                                                                         *)
(* The board and the chips are external: while it runs the board stores    *)
(* events, each taken at the setting of its moment, starting it drops what *)
(* is stored, pausing and resuming does not.  Seen from the end where the  *)
(* search begins, channels start firing at one threshold and all fire from *)
(* another one on.  There is one board, and time-to-digital phases are off.*)
(***************************************************************************)
EXTENDS Integers, Sequences, FiniteSetsExt

CONSTANTS cMaxVcth,   (* largest threshold, 0xFF, 0x3FF or 0x3F            *)
          Coarse,     (* first step of the searches, 10 in the code        *)
          AllOnes,    (* values with all firing that end one, 10 or 7      *)
          Byte, Word, (* the range of uint8_t and of uint16_t              *)
          Nevents,    (* events asked for at each setting                  *)
          FifoSize,   (* events the board stores                           *)
          Modules     (* modules on the board                              *)

ASSUME ScanAssumption ==
    /\ {Coarse, AllOnes, Byte, Word, Nevents, FifoSize, Modules} \subseteq Nat \ {0}
    /\ cMaxVcth \in Nat /\ cMaxVcth + Coarse < Word /\ Byte <= Word

VARIABLES
    tool, fHoleMode,
    noise, plateau,  (* distance from the search's start: first hits, all  *)
    from, range,     (* the arguments of the scan                          *)
    chips,           (* the setting the chips have                         *)
    running, fifo,   (* the board, and the settings of its stored events   *)
    value, cStubLatency, step,
    cDoubleVcth, cNonZero, cAllOnes,
    module,          (* SignalScan's module                                *)
    cN,              (* events counted at this setting                     *)
    filled,          (* fills of the hits of a threshold, per threshold    *)
    seen,            (* <<bin, setting>> of the events counted             *)
    scan             (* where the scan is                                  *)

scanVars == <<tool, fHoleMode, noise, plateau, from, range, chips, running, fifo, value,
              cStubLatency, step, cDoubleVcth, cNonZero, cAllOnes, module, cN, filled, seen,
              scan>>
given == <<tool, fHoleMode, noise, plateau, from, range>>
board == <<running, fifo>>

Searches  == {"ScanThreshold", "ScanVcth"}
Linear    == {"ScanThresholds", "ScanLatency", "ScanStubLatency", "ScanLatency2D",
              "ScanSignal", "ScanSignalFit"}
Depth(v)  == IF fHoleMode THEN cMaxVcth - v ELSE v
Fires(v)  == v \in 0 .. cMaxVcth /\ Depth(v) >= noise
AllFire(v) == v \in 0 .. cMaxVcth /\ Depth(v) >= plateau

(* Where a scan begins and by how much it goes on; the loops over 8 bits   *)
(* start where they are told, cDoubleVcth has no first value.              *)
InitScan ==
    /\ tool \in Searches \cup Linear
    /\ fHoleMode \in BOOLEAN /\ (tool \notin Searches => ~fHoleMode)
    /\ noise \in 0 .. cMaxVcth + 1 /\ plateau \in {noise + 1, noise + Coarse}
    /\ (tool \notin Searches => noise = 0 /\ plateau = 1)
    /\ from \in 0 .. Byte - 1 /\ range \in 1 .. 3
    /\ (tool \in Searches \cup {"ScanThresholds"} => from = 0 /\ range = 1)
    /\ value = IF tool \in Searches \cup {"ScanThresholds"}
               THEN (IF fHoleMode THEN cMaxVcth ELSE 0) ELSE from
    /\ step = IF tool \in Searches THEN (IF fHoleMode THEN -Coarse ELSE Coarse)
              ELSE IF tool = "ScanThresholds" THEN 2 ELSE 1
    /\ cDoubleVcth \in IF tool \in Searches THEN 0 .. Word - 1 ELSE {0}
    /\ cStubLatency = 0 /\ chips = <<0, 0>> /\ fifo = <<>> /\ module = 1
    /\ cNonZero = FALSE /\ cAllOnes = 0 /\ cN = 0 /\ seen = {}
    /\ running = FALSE
    /\ filled = [v \in 0 .. cMaxVcth |-> 0]
    /\ scan = IF tool = "ScanSignal" THEN "open" ELSE "top"

(* The board takes an event. *)
Trigger ==
    /\ running /\ Len(fifo) < FifoSize
    /\ fifo' = Append(fifo, chips)
    /\ UNCHANGED <<given, chips, running, value, cStubLatency, step, cDoubleVcth, cNonZero,
                   cAllOnes, module, cN, filled, seen, scan>>
-----------------------------------------------------------------------------
(* The condition of each loop. *)
Goes == CASE tool \in Searches -> value <= cMaxVcth /\ cAllOnes < AllOnes
          [] tool = "ScanThresholds" -> value <= cMaxVcth
          [] tool \in {"ScanLatency", "ScanStubLatency"} -> value < from + range
          [] tool = "ScanLatency2D" -> value < from + range
          [] tool = "ScanSignal" -> value >= from - range
          [] tool = "ScanSignalFit" -> module <= range

(* Faulty variant: a threshold already measured is taken again. *)
Measured_Never == FALSE
(* The threshold whose hits are in the histogram already. *)
Measured == tool \in Searches /\ value = cDoubleVcth

(* The top of the loop: the setting is written to all chips.  ScanLatency()*)
(* counts its events from whatever cNevents holds.                         *)
SetValue ==
    /\ scan = "top" /\ Goes
    /\ ~Measured
    /\ tool = "ScanLatency2D" => cStubLatency < value
    /\ chips' = <<value, cStubLatency>>
    /\ cN' \in IF tool = "ScanLatency" THEN {0, Nevents} ELSE {0}
    /\ scan' = "set"
    /\ UNCHANGED <<given, board, value, cStubLatency, step, cDoubleVcth, cNonZero, cAllOnes,
                   module, filled, seen>>

(* Faulty variant: the loop goes on before it has left the threshold. *)
SkipMeasured_Stays == scan = "top" /\ Goes /\ Measured /\ UNCHANGED scanVars
(* The next threshold, instead. *)
SkipMeasured ==
    /\ scan = "top" /\ Goes /\ Measured
    /\ value' = (value + step) % Word
    /\ UNCHANGED <<given, chips, board, cStubLatency, step, cDoubleVcth, cNonZero, cAllOnes,
                   module, cN, filled, seen, scan>>

(* ScanLatency2D() with no stub latency left below the latency. *)
NextLatency ==
    /\ scan = "top" /\ Goes /\ tool = "ScanLatency2D" /\ cStubLatency >= value
    /\ value' = value + 1 /\ cStubLatency' = 0
    /\ UNCHANGED <<given, chips, board, step, cDoubleVcth, cNonZero, cAllOnes, module,
                   cN, filled, seen, scan>>

(* Faulty variant: the board is not restarted, only resumed. *)
Started_Resumed == running' = TRUE /\ UNCHANGED fifo
(* Start() drops what the board has stored, Resume() does not. *)
Started == running' = TRUE /\ fifo' = IF tool = "ScanSignal" THEN fifo ELSE <<>>

Start ==
    /\ scan = "set" /\ tool # "ScanVcth"
    /\ Started
    /\ scan' = IF tool \in {"ScanThreshold", "ScanThresholds", "ScanSignalFit"}
               THEN "more" ELSE "read"
    /\ UNCHANGED <<given, chips, value, cStubLatency, step, cDoubleVcth, cNonZero, cAllOnes,
                   module, cN, filled, seen>>

(* SignalScan starts the board once and pauses it; events may be taken in  *)
(* between.                                                                *)
OpenSignal ==
    /\ scan = "open"
    /\ running' = FALSE /\ fifo' \in {<<>>, <<chips>>}
    /\ scan' = "top"
    /\ UNCHANGED <<given, chips, value, cStubLatency, step, cDoubleVcth, cNonZero, cAllOnes,
                   module, cN, filled, seen>>

(* ReadData() and the loop over the events: all that are stored, if any,   *)
(* are counted in the bin of the setting.                                  *)
countHitsLat == {<<<<value, cStubLatency>>, fifo[k]>> : k \in DOMAIN fifo}
ReadData ==
    /\ scan = "read"
    /\ cN' = cN + Len(fifo)
    /\ seen' = seen \cup countHitsLat
    /\ fifo' = <<>> /\ scan' = "more"
    /\ UNCHANGED <<given, chips, running, value, cStubLatency, step, cDoubleVcth, cNonZero,
                   cAllOnes, module, filled>>
MoreEvents ==
    /\ scan = "more" /\ cN < Nevents
    /\ scan' = "read"
    /\ UNCHANGED <<given, chips, board, value, cStubLatency, step, cDoubleVcth, cNonZero,
                   cAllOnes, module, cN, filled, seen>>

(* SignalScanFit gives up when the read fails, and the board runs on. *)
ReadFails ==
    /\ scan = "read" /\ tool = "ScanSignalFit"
    /\ scan' = "failed"
    /\ UNCHANGED <<given, chips, board, value, cStubLatency, step, cDoubleVcth, cNonZero,
                   cAllOnes, module, cN, filled, seen>>

(* With enough events the board is stopped, by SignalScan paused.          *)
Stop ==
    /\ scan = "more" /\ cN >= Nevents
    /\ running' = FALSE
    /\ scan' = IF tool \in Searches THEN "judge" ELSE "next"
    /\ UNCHANGED <<given, chips, fifo, value, cStubLatency, step, cDoubleVcth, cNonZero,
                   cAllOnes, module, cN, filled, seen>>

(* PulseShape asks for a number of events.  *)
ReadNEvents ==
    /\ scan = "set" /\ tool = "ScanVcth"
    /\ cN' = Nevents /\ seen' = seen \cup {<<<<value, 0>>, chips>>}
    /\ scan' = "judge"
    /\ UNCHANGED <<given, chips, board, value, cStubLatency, step, cDoubleVcth, cNonZero,
                   cAllOnes, module, filled>>
-----------------------------------------------------------------------------
Fill == filled' = [filled EXCEPT ![value] = @ + (IF Fires(value) THEN 1 ELSE 0)]

(* Two coarse steps back: PulseShape stays within the range, HybridTester  *)
(* wraps round.                                                            *)
Back == IF tool = "ScanVcth"
        THEN Max({0, Min({cMaxVcth, value - 2 * step})})
        ELSE (value - 2 * step) % Word

(* The first hits: back, and on in steps of one. *)
FirstHits ==
    /\ scan = "judge" /\ ~cNonZero /\ Fires(value)
    /\ Fill
    /\ cNonZero' = TRUE /\ cDoubleVcth' = value
    /\ value' = Back /\ step' = step \div Coarse
    /\ scan' = "top"
    /\ UNCHANGED <<given, chips, board, cStubLatency, cAllOnes, module, cN, seen>>

(* Otherwise the next value, unless enough had all channels firing. *)
Judge ==
    /\ scan = "judge" /\ (cNonZero \/ ~Fires(value))
    /\ Fill
    /\ cAllOnes' = cAllOnes + (IF AllFire(value) THEN 1 ELSE 0)
    /\ value' = IF cAllOnes' >= AllOnes THEN value ELSE (value + step) % Word
    /\ scan' = "top"
    /\ UNCHANGED <<given, chips, board, cStubLatency, step, cDoubleVcth, cNonZero, module, cN, seen>>

(* cLat of ScanLatency() is a uint16_t, that of ScanStubLatency() and      *)
(* cStubLatency a uint8_t.                                                 *)
Wider(v) == v % Word
NextValue ==
    /\ scan = "next"
    /\ CASE tool = "ScanThresholds" -> value' = value + step /\ UNCHANGED <<cStubLatency, module>>
         [] tool = "ScanLatency" -> value' = Wider(value + 1) /\ UNCHANGED <<cStubLatency, module>>
         [] tool = "ScanStubLatency" ->
                value' = (value + 1) % Byte /\ UNCHANGED <<cStubLatency, module>>
         [] tool = "ScanLatency2D" -> cStubLatency' = (cStubLatency + 1) % Byte /\ UNCHANGED <<value, module>>
         [] tool = "ScanSignal" -> value' = value - 1 /\ UNCHANGED <<cStubLatency, module>>
         [] tool = "ScanSignalFit" ->
                value' = (value - step) % Word /\ module' = module + 1 /\ UNCHANGED cStubLatency
    /\ chips' = IF tool = "ScanSignalFit" THEN <<value', 0>> ELSE chips
    /\ scan' = "top"
    /\ UNCHANGED <<given, board, step, cDoubleVcth, cNonZero, cAllOnes, cN, filled, seen>>

(* SignalScan leaves out the rest of a module's thresholds when one took   *)
(* more than 20 seconds.                                                   *)
TookLong ==
    /\ scan = "next" /\ tool = "ScanSignal"
    /\ value' = from - range - 1
    /\ scan' = "top"
    /\ UNCHANGED <<given, chips, board, cStubLatency, step, cDoubleVcth, cNonZero, cAllOnes,
                   module, cN, filled, seen>>

(* The end of the loop; SignalScan scans again for its next module. *)
LoopEnds ==
    /\ scan = "top" /\ ~Goes
    /\ IF tool = "ScanSignal" /\ module < Modules
       THEN module' = module + 1 /\ value' = from /\ UNCHANGED <<running, scan>>
       ELSE running' = FALSE /\ scan' = "end" /\ UNCHANGED <<module, value>>
    /\ UNCHANGED <<given, chips, fifo, cStubLatency, step, cDoubleVcth, cNonZero, cAllOnes, cN,
                   filled, seen>>

(* The steps each scan is made of. *)
TakeData == Start \/ ReadData \/ MoreEvents \/ Stop
Scan(t, Steps) == tool = t /\ Steps
ScanThreshold   == Scan("ScanThreshold", SetValue \/ SkipMeasured \/ TakeData \/ FirstHits \/ Judge
                                         \/ LoopEnds)
ScanVcth        == Scan("ScanVcth", SetValue \/ SkipMeasured \/ ReadNEvents \/ FirstHits \/ Judge
                                    \/ LoopEnds)
ScanThresholds  == Scan("ScanThresholds", SetValue \/ TakeData \/ NextValue \/ LoopEnds)
ScanLatency     == Scan("ScanLatency", SetValue \/ TakeData \/ NextValue \/ LoopEnds)
ScanStubLatency == Scan("ScanStubLatency", SetValue \/ TakeData \/ NextValue \/ LoopEnds)
ScanLatency2D   == Scan("ScanLatency2D", SetValue \/ NextLatency \/ TakeData \/ NextValue
                                         \/ LoopEnds)
ScanSignal      == Scan("ScanSignal", OpenSignal \/ SetValue \/ TakeData \/ NextValue
                                      \/ TookLong \/ LoopEnds)
ScanSignalFit   == Scan("ScanSignalFit", SetValue \/ TakeData \/ ReadFails \/ NextValue
                                         \/ LoopEnds)
ScanStep == \/ ScanThreshold \/ ScanVcth \/ ScanThresholds \/ ScanLatency \/ ScanStubLatency
            \/ ScanLatency2D \/ ScanSignal \/ ScanSignalFit
ScanNext == Trigger \/ ScanStep
ScanDone == scan \in {"end", "failed"}
-----------------------------------------------------------------------------
(* The values the coarse search can stop at; noise that begins beyond the  *)
(* last but one may be missed when cDoubleVcth happens to be the last.     *)
Found == noise <= Coarse * (cMaxVcth \div Coarse - 1)
(* HybridTester goes back without looking whether it leaves the range.     *)
RoomToGoBack == tool = "ScanVcth" \/ noise > Coarse
(* The threshold at which the search sees all channels fire for the last   *)
(* time it needs.                                                          *)
LastNeeded == Min({cMaxVcth, plateau + AllOnes - 1})

(* The S-curve of a search is whole: when the search has room to go back   *)
(* and the noise does not begin at the very end, the hits of every         *)
(* threshold from the first hits to the plateau are in the histogram, and  *)
(* none of them twice, whatever cDoubleVcth holds at the start.            *)
CurveComplete ==
    (scan = "end" /\ tool \in Searches /\ Found /\ RoomToGoBack) =>
        \A v \in 0 .. cMaxVcth :
            /\ filled[v] <= 1
            /\ Depth(v) \in noise .. LastNeeded - 1 => filled[v] = 1

(* An event is counted at the setting it was taken at, by every scan but   *)
(* SignalScan's, which pauses the board and may count what was left.       *)
EventsAtSetting == tool # "ScanSignal" => \A s \in seen : s[1] = s[2]

(* A scan whose loops fit their counters comes to its end. *)
FitsCounter == CASE tool = "ScanStubLatency" -> from + range < Byte
                 [] tool = "ScanLatency2D" -> from + range <= Byte
                 [] OTHER -> TRUE
ScanEnds == FitsCounter ~> ScanDone
-----------------------------------------------------------------------------
ScanSpec == InitScan /\ [][ScanNext]_scanVars

(* The inductive invariants: of EventsAtSetting, what the board has stored *)
(* when it is read was taken at the setting it is counted at.              *)
ScanTypeOK ==
    /\ tool \in Searches \cup Linear /\ fHoleMode \in BOOLEAN
    /\ noise \in Nat /\ plateau \in Nat /\ from \in Nat /\ range \in Nat
    /\ value \in Int /\ cStubLatency \in Nat /\ step \in Int /\ cAllOnes \in Nat
    /\ chips \in Int \X Nat /\ fifo \in Seq(Int \X Nat) /\ running \in BOOLEAN

SettingHeld ==
    tool # "ScanSignal" =>
        /\ tool = "ScanVcth" => cStubLatency = 0
        /\ running => scan \in {"more", "read", "failed"}
        /\ scan \in {"set", "more", "read"} => chips = <<value, cStubLatency>>
        /\ scan \in {"more", "read"} => \A k \in DOMAIN fifo : fifo[k] = <<value, cStubLatency>>

EventsInv == ScanTypeOK /\ SettingHeld /\ EventsAtSetting

(* Of CurveComplete: how far the search is from its start, with the values *)
(* beyond the range that the counter has when it wraps round.              *)
Position == IF fHoleMode THEN (IF value <= cMaxVcth THEN cMaxVcth - value
                               ELSE cMaxVcth - value + Word)
            ELSE value
AtDepth(d) == IF fHoleMode THEN cMaxVcth - d ELSE d

(* The coarse search has met no hits so far, and left out one value at     *)
(* most, the last one.                                                     *)
CoarseOK ==
    /\ step = IF fHoleMode THEN -Coarse ELSE Coarse
    /\ cAllOnes = 0 /\ \A v \in 0 .. cMaxVcth : filled[v] = 0
    /\ Position % Coarse = 0
    /\ \/ Position < noise + Coarse
       \/ /\ Position < noise + 2 * Coarse
          /\ cDoubleVcth = AtDepth(Position - Coarse)

(* The fine one has the hits of the value it went back from, and of all    *)
(* those it has passed since.                                              *)
Passed == IF cAllOnes >= AllOnes THEN Position + 1 ELSE Position
FineOK ==
    /\ step = IF fHoleMode THEN -1 ELSE 1
    /\ cDoubleVcth \in 0 .. cMaxVcth /\ Depth(cDoubleVcth) >= noise
    /\ Position <= cMaxVcth + 1
    /\ cAllOnes > 0 => cAllOnes <= Passed - plateau
    /\ \A v \in 0 .. cMaxVcth :
          filled[v] = IF v = cDoubleVcth \/ Depth(v) \in noise .. Passed - 1 THEN 1 ELSE 0

CurveInv ==
    tool \in Searches /\ RoomToGoBack =>
        /\ noise \in Nat /\ plateau \in noise + 1 .. noise + Coarse
        /\ value \in 0 .. Word - 1 /\ fHoleMode \in BOOLEAN /\ cNonZero \in BOOLEAN
        /\ cAllOnes \in Nat /\ filled \in [0 .. cMaxVcth -> Nat]
        /\ IF cNonZero THEN FineOK ELSE CoarseOK
        /\ scan \in {"top", "set", "more", "read", "judge", "end"}
        /\ scan \in {"set", "more", "read", "judge"} => Goes /\ ~Measured
        /\ scan = "end" => ~Goes
=============================================================================
