--------------------------- MODULE PacketReadout ---------------------------
(***************************************************************************)
(* HWInterface/ICFc7FWInterface, ICGlibFWInterface and Cbc3Fc7FWInterface: *)
(* the boards with the Imperial College firmware.  For CBC2 chips it hands *)
(* over packets of nevents_per_pcdaq events; for CBC3 chips it writes the  *)
(* words of the events to a buffer that is read as it stands, and the      *)
(* software works the timing of the data lines out when it configures.     *)
(*                                                                         *)
(* The firmware is external.  Words are numbered from 0 over the whole     *)
(* life of the board, so that EventSize * n is the first word of event n;  *)
(* the buffer holds those from read up to written.  A packet that is full  *)
(* waits, and so does an event the CBC3 buffer has no room for.  A reset   *)
(* empties the buffer and begins again with a whole event.                 *)
(***************************************************************************)
EXTENDS Integers, FiniteSetsExt

CONSTANTS Boards,     (* a subset of {"ICFC7", "ICGLIB", "CBC3FC7"}        *)
          Fes,        (* the modules of the board, numbered from 0         *)
          MaxPacket,  (* events of a packet, 2000 in the code              *)
          NEvents,    (* the values of pNEvents                            *)
          UserPacket, (* nevents_per_pcdaq of the description file         *)
          UserCycle,  (* Ncycle of the description file, 0 for no end      *)
          Words,      (* 32-bit words of an event of a CBC3 board          *)
          Depth,      (* words the CBC3 buffer holds                       *)
          MaxPolls,   (* polls of the timing tune, 101 in the code         *)
          MaxCalls    (* bound: calls                                      *)

ASSUME PacketAssumption ==
    /\ Boards \subseteq {"ICFC7", "ICGLIB", "CBC3FC7"}
    /\ Fes = 0 .. Cardinality(Fes) - 1 /\ Fes # {}
    /\ {MaxPacket, UserPacket, Words, Depth, MaxPolls} \subseteq Nat \ {0}
    /\ NEvents \subseteq Nat \ {0} /\ UserCycle \in Nat /\ MaxCalls \in Nat
    /\ \A n \in NEvents : Words * n <= Depth

VARIABLES
    board, ext, gen, (* the board; external triggers and the generator are *)
                     (* enabled on a CBC3 board; the same throughout       *)
    running,         (* triggers are accepted                              *)
    read, written,   (* the words in the buffer                            *)
    nevents,         (* nevents_per_pcdaq                                  *)
    Ncycle, left,    (* triggers of the generator: register, still to send *)
    tunes,           (* the modules whose data lines can be tuned          *)
    stub,            (* the chips' register 0x12, by module                *)
    pc, call, calls,
    fNEventsperAcquistion, cycles, (* packets left to read                 *)
    cNWords, cDctt_fsm, cCounter, cFe,
    pData,           (* the words the call has read: from .. to - 1        *)
    result,          (* history: the number of events it returned          *)
    since            (* history: the first event of after the call began   *)

setup  == <<board, ext, gen, tunes>>
daq    == <<running, read, written, left>>
config == <<nevents, Ncycle>>
tune   == <<stub, cDctt_fsm, cCounter, cFe>>
locals == <<fNEventsperAcquistion, cycles, cNWords, pData, result>>
packetVars == <<setup, daq, config, tune, pc, call, calls, locals, since>>

Ic        == board \in {"ICFC7", "ICGLIB"}
EventSize == IF Ic THEN 1 ELSE Words
NoCall    == [op |-> "none", n |-> 0, pWait |-> TRUE]
NoData    == [from |-> 0, to |-> 0]
NoEnd     == -1

(* The first word of the next whole event: what a reset leaves behind. *)
Boundary == EventSize * ((written + EventSize - 1) \div EventSize)
Empty    == read' = Boundary /\ written' = Boundary
Ready    == written - read = nevents
Complete == Max({0, EventSize * (written \div EventSize) - read})

InitPacket ==
    /\ board \in Boards /\ ext \in BOOLEAN /\ gen \in BOOLEAN /\ tunes \in SUBSET Fes
    /\ Ic => ~ext /\ ~gen /\ tunes = {}
    /\ running = FALSE /\ read = 0 /\ written = 0 /\ left = 0
    /\ nevents = UserPacket /\ Ncycle = UserCycle
    /\ stub = [f \in Fes |-> "user"]
    /\ cDctt_fsm = 0 /\ cCounter = 0 /\ cFe = 0
    /\ pc = "off" /\ call = NoCall /\ calls = 0
    /\ fNEventsperAcquistion = 0 /\ cycles = 0 /\ cNWords = 0
    /\ pData = NoData /\ result = 0 /\ since = 0
-----------------------------------------------------------------------------
(* The firmware (external). *)

(* An event begins: of a packet, or in the buffer if it has room for it.   *)
(* The generator sends its triggers while the run is paused, too.          *)
Sent == left' = IF left > 0 THEN left - 1 ELSE left

Trigger ==
    /\ running
    /\ IF Ic THEN ~Ready ELSE written % Words = 0 /\ written - read + Words <= Depth
    /\ \/ Ic /\ UNCHANGED left
       \/ ~Ic /\ ext /\ UNCHANGED left
       \/ ~Ic /\ gen /\ left # 0 /\ Sent
    /\ written' = written + 1
    /\ UNCHANGED <<setup, running, read, config, tune, pc, call, calls, locals, since>>

LostTrigger ==
    /\ ~Ic /\ ~running /\ gen /\ left > 0
    /\ Sent
    /\ UNCHANGED <<setup, running, read, written, config, tune, pc, call, calls, locals, since>>

BuildEvent ==
    /\ ~Ic /\ written % Words # 0
    /\ written' = written + 1
    /\ UNCHANGED <<setup, running, read, left, config, tune, pc, call, calls, locals, since>>

Firmware == Trigger \/ LostTrigger \/ BuildEvent
-----------------------------------------------------------------------------
(* Configuration. *)

(* The registers of the description file go to the board; its state        *)
(* machines are reset.                                                     *)
IcConfigureBoard ==
    /\ pc = "off" /\ Ic
    /\ nevents' = UserPacket
    /\ running' = FALSE /\ Empty
    /\ pc' = "idle"
    /\ UNCHANGED <<setup, left, Ncycle, tune, call, calls, locals, since>>
IcFc7ConfigureBoard  == board = "ICFC7" /\ IcConfigureBoard
IcGlibConfigureBoard == board = "ICGLIB" /\ IcConfigureBoard

(* A CBC3 board goes on to DataClockTimingTune(): the chips send a known   *)
(* pattern, everything stops, and the state machines of the modules start. *)
Cbc3ConfigureBoard ==
    /\ pc = "off" /\ ~Ic
    /\ Ncycle' = UserCycle
    /\ stub' = [f \in Fes |-> "tune"]
    /\ running' = FALSE /\ left' = 0 /\ Empty
    /\ pc' = "dctt"
    /\ UNCHANGED <<setup, nevents, cDctt_fsm, cCounter, cFe, call, calls, locals, since>>

(* The modules are polled one after the other, each until the state is 9,  *)
(* by one counter and one state for all; too many polls end the program.   *)
(* Then the chips get their register back.                                 *)
DataClockTimingTune ==
    /\ pc = "dctt"
    /\ IF cDctt_fsm = 9
       THEN /\ IF cFe + 1 \in Fes THEN cFe' = cFe + 1 /\ UNCHANGED <<pc, stub>>
               ELSE pc' = "idle" /\ stub' = [f \in Fes |-> "user"] /\ UNCHANGED cFe
            /\ UNCHANGED <<cDctt_fsm, cCounter>>
       ELSE /\ cDctt_fsm' \in IF cFe \in tunes THEN {0, 9} ELSE {0}
            /\ cCounter' = cCounter + 1
            /\ pc' = IF cCounter' > MaxPolls THEN "exited" ELSE "dctt"
            /\ UNCHANGED <<cFe, stub>>
    /\ UNCHANGED <<setup, daq, config, call, calls, locals, since>>
-----------------------------------------------------------------------------
(* Runs. *)
Called(op, n, wait) ==
    /\ pc = "idle" /\ calls < MaxCalls
    /\ calls' = calls + 1 /\ call' = [op |-> op, n |-> n, pWait |-> wait]

Control(op) ==
    /\ Called(op, 0, TRUE)
    /\ UNCHANGED <<setup, config, tune, pc, locals, since>>

IcStart  == Control("Start") /\ running' = TRUE /\ Empty /\ UNCHANGED left
IcStop   == Control("Stop") /\ running' = FALSE /\ UNCHANGED <<read, written, left>>
IcPause  == Control("Pause") /\ running' = FALSE /\ UNCHANGED <<read, written, left>>
IcResume == Control("Resume") /\ running' = TRUE /\ UNCHANGED <<read, written, left>>
IcFc7Start  == board = "ICFC7" /\ IcStart
IcGlibStart == board = "ICGLIB" /\ IcStart
IcFc7Stop   == board = "ICFC7" /\ IcStop
IcGlibStop  == board = "ICGLIB" /\ IcStop

(* Start(): all stops, the DAQ is reset, the generator loads its cycles.   *)
Cbc3Reset == running' = TRUE /\ left' = (IF Ncycle = 0 THEN NoEnd ELSE Ncycle) /\ Empty

Cbc3Start  == ~Ic /\ Control("Start") /\ Cbc3Reset
Cbc3Stop   == ~Ic /\ Control("Stop") /\ running' = FALSE /\ left' = 0 /\ UNCHANGED <<read, written>>
Cbc3Pause  == ~Ic /\ Control("Pause") /\ running' = FALSE /\ UNCHANGED <<read, written, left>>
Cbc3Resume == ~Ic /\ Control("Resume") /\ running' = TRUE /\ UNCHANGED <<read, written, left>>

RunControl == \/ IcFc7Start \/ IcGlibStart \/ IcFc7Stop \/ IcGlibStop
              \/ Ic /\ (IcPause \/ IcResume)
              \/ Cbc3Start \/ Cbc3Stop \/ Cbc3Pause \/ Cbc3Resume
-----------------------------------------------------------------------------
(* ReadData() *)

(* Calls that wait are made while triggers come, or the data is there. *)
Comes == IF Ic THEN running \/ Ready
               ELSE written > read \/ (running /\ (ext \/ (gen /\ left = NoEnd)))

CallReadData ==
    /\ \E wait \in BOOLEAN : Called("ReadData", 0, wait) /\ (wait => Comes)
    /\ since' = written
    /\ pData' = NoData /\ result' = 0
    /\ pc' = IF Ic THEN "packet" ELSE "words"
    /\ fNEventsperAcquistion' = IF Ic THEN nevents ELSE fNEventsperAcquistion
    /\ UNCHANGED <<setup, daq, config, tune, cycles, cNWords>>

Take(n) == pData' = [from |-> read, to |-> read + n] /\ read' = read + n

(* IC boards: the status is read before pWait is looked at, and without it *)
(* the call returns 0 whatever the status is.                              *)
IcReadData ==
    /\ pc = "packet"
    /\ IF ~call.pWait THEN pc' = "idle" /\ UNCHANGED <<read, pData, result>>
       ELSE /\ Ready
            /\ Take(fNEventsperAcquistion)
            /\ result' = fNEventsperAcquistion
            /\ pc' = "idle"
    /\ UNCHANGED <<setup, running, written, left, config, tune, call, calls,
                   fNEventsperAcquistion, cycles, cNWords, since>>
IcFc7ReadData  == board = "ICFC7" /\ IcReadData
IcGlibReadData == board = "ICGLIB" /\ IcReadData

(* CBC3 boards: the words of whole events if there are any, all words      *)
(* otherwise, as many as the status says now; the number of events is 0    *)
(* when the words do not make whole ones.                                  *)
Cbc3Poll ==
    /\ pc \in {"words", "words again"}
    /\ cNWords' = IF pc = "words" THEN Complete ELSE written - read
    /\ pc' = IF pc = "words again" /\ ~call.pWait THEN "idle"
             ELSE IF cNWords' = 0 THEN "words again" ELSE "take"
    /\ UNCHANGED <<setup, daq, config, tune, call, calls, fNEventsperAcquistion,
                   cycles, pData, result, since>>

Cbc3ReadData ==
    /\ pc = "take"
    /\ Take(cNWords)
    /\ result' = IF cNWords % Words = 0 THEN cNWords \div Words ELSE 0
    /\ pc' = "idle"
    /\ UNCHANGED <<setup, running, written, left, config, tune, call, calls,
                   fNEventsperAcquistion, cycles, cNWords, since>>
-----------------------------------------------------------------------------
(* ReadNEvents() *)

(* More than MaxPacket events are read in packets of MaxPacket, or else of *)
(* the remainder, as many as are needed to have them all.                  *)
Packets(n) ==
    LET size == IF n <= MaxPacket THEN n
                ELSE IF n % MaxPacket = 0 THEN MaxPacket ELSE n % MaxPacket IN
    [size |-> size, count |-> (n + size - 1) \div size]

CallReadNEvents == \E n \in NEvents : Called("ReadNEvents", n, TRUE)

(* Faulty variant: the state machines are not reset. *)
IcBegin_NoReset ==
    /\ Ic /\ CallReadNEvents
    /\ LET p == Packets(call'.n) IN
       /\ nevents' = p.size /\ fNEventsperAcquistion' = p.size
       /\ cycles' = p.count
    /\ running' = FALSE /\ UNCHANGED <<read, written>>
    /\ since' = Boundary
    /\ pData' = NoData /\ result' = 0
    /\ pc' = "start"
    /\ UNCHANGED <<setup, left, Ncycle, tune, cNWords>>

(* IC boards: the packet's size is set and the state machines are reset.   *)
IcBegin ==
    /\ Ic /\ CallReadNEvents
    /\ LET p == Packets(call'.n) IN
       /\ nevents' = p.size /\ fNEventsperAcquistion' = p.size
       /\ cycles' = p.count
    /\ running' = FALSE /\ Empty
    /\ since' = Boundary
    /\ pData' = NoData /\ result' = 0
    /\ pc' = "start"
    /\ UNCHANGED <<setup, left, Ncycle, tune, cNWords>>

IcStartCycle ==
    /\ pc = "start"
    /\ running' = TRUE
    /\ pc' = "cycle"
    /\ UNCHANGED <<setup, read, written, left, config, tune, call, calls, locals, since>>

(* The packet is complete: triggers stop, it is read and appended.         *)
IcReadNEvents ==
    /\ pc = "cycle" /\ Ready
    /\ running' = FALSE
    /\ pData' = [from |-> IF pData = NoData THEN read ELSE pData.from,
                  to   |-> read + fNEventsperAcquistion]
    /\ read' = read + fNEventsperAcquistion
    /\ cycles' = cycles - 1
    /\ pc' = IF cycles' = 0 THEN "idle" ELSE "start"
    /\ UNCHANGED <<setup, written, left, config, tune, call, calls,
                   fNEventsperAcquistion, cNWords, result, since>>
IcFc7ReadNEvents  == board = "ICFC7" /\ IcReadNEvents
IcGlibReadNEvents == board = "ICGLIB" /\ IcReadNEvents

(* CBC3 boards: the generator, if enabled, is to send as many triggers.    *)
Cbc3Begin ==
    /\ ~Ic /\ (ext \/ gen) /\ CallReadNEvents
    /\ Ncycle' = IF gen THEN call'.n ELSE Ncycle
    /\ pc' = "restart"
    /\ pData' = NoData /\ result' = 0
    /\ UNCHANGED <<setup, daq, nevents, tune, fNEventsperAcquistion, cycles, cNWords, since>>

Cbc3Restart ==
    /\ pc = "restart"
    /\ Cbc3Reset
    /\ since' = Boundary
    /\ pc' = "events"
    /\ UNCHANGED <<setup, config, tune, call, calls, locals>>

(* Faulty variant: one word too many is waited for. *)
Cbc3Enough_More ==
    /\ pc = "events"
    /\ cNWords' = Complete
    /\ cNWords' > Words * call.n
    /\ pc' = "stop"
    /\ UNCHANGED <<setup, daq, config, tune, call, calls, fNEventsperAcquistion,
                   cycles, pData, result, since>>

(* The loop ends when there are enough words; then all of them are read,   *)
(* or, with external triggers only, those asked for.                       *)
Cbc3Enough ==
    /\ pc = "events"
    /\ cNWords' = Complete
    /\ cNWords' >= Words * call.n
    /\ pc' = "stop"
    /\ UNCHANGED <<setup, daq, config, tune, call, calls, fNEventsperAcquistion,
                   cycles, pData, result, since>>

Cbc3ReadNEvents ==
    /\ pc = "stop"
    /\ running' = FALSE /\ left' = 0
    /\ Take(IF gen THEN cNWords ELSE Words * call.n)
    /\ pc' = "idle"
    /\ UNCHANGED <<setup, written, config, tune, call, calls,
                   fNEventsperAcquistion, cycles, cNWords, result, since>>
-----------------------------------------------------------------------------
Configure == \/ IcFc7ConfigureBoard \/ IcGlibConfigureBoard \/ Cbc3ConfigureBoard
             \/ DataClockTimingTune
Reading   == \/ IcFc7ReadData \/ IcGlibReadData \/ Cbc3Poll \/ Cbc3ReadData
             \/ IcStartCycle \/ IcFc7ReadNEvents \/ IcGlibReadNEvents
             \/ Cbc3Restart \/ Cbc3Enough \/ Cbc3ReadNEvents
Calls     == RunControl \/ CallReadData \/ IcBegin \/ Cbc3Begin
PacketNext == Firmware \/ Configure \/ Calls \/ Reading

-----------------------------------------------------------------------------
Size == pData.to - pData.from
Whole == pData.from % EventSize = 0 /\ pData.to % EventSize = 0

(* ReadNEvents() returns events triggered after the call began, whole ones *)
(* and from the first on, however the board was left by earlier calls; as  *)
(* many as asked for, but for the last packet of an IC board and for the   *)
(* external triggers among those of a CBC3 board's generator.              *)
NEventsRight ==
    call.op = "ReadNEvents" /\ pc = "idle" =>
        /\ Whole /\ pData.from = since
        /\ LET events == Size \div EventSize IN
           /\ events >= call.n
           /\ Ic => events < call.n + fNEventsperAcquistion
           /\ Ic /\ (call.n <= MaxPacket \/ call.n % MaxPacket = 0) => events = call.n
           /\ ~Ic /\ ~(ext /\ gen) => events = call.n

(* Every call returns. *)
CallReturns == pc \notin {"off", "idle", "exited"} ~> pc \in {"idle", "exited"}
-----------------------------------------------------------------------------
(* The inductive invariant of NEventsRight. *)
NEventsSteps == {"start", "cycle", "restart", "events", "stop"}

PacketTypeOK ==
    /\ board \in Boards /\ ext \in BOOLEAN /\ gen \in BOOLEAN /\ (Ic => ~ext /\ ~gen)
    /\ running \in BOOLEAN /\ read \in Nat /\ written \in Nat /\ left \in Nat \cup {NoEnd}
    /\ nevents \in Nat \ {0} /\ Ncycle \in Nat
    /\ fNEventsperAcquistion \in Nat /\ cycles \in Nat /\ cNWords \in Nat
    /\ pData \in [from : Nat, to : Nat] /\ result \in Nat /\ since \in Nat

(* ReadNEvents() is the call under way in its own steps, or the last one.  *)
CallOK ==
    /\ pc \in NEventsSteps => call.op = "ReadNEvents"
    /\ call.op = "ReadNEvents" => call.n \in NEvents /\ pc \in NEventsSteps \cup {"idle"}
    /\ pc \in {"packet", "start", "cycle"} => Ic
    /\ pc \in {"words", "words again", "take", "restart", "events", "stop"} => ~Ic

(* No more is taken from the buffer than there is. *)
BufferOK ==
    /\ pData.to <= read /\ read <= written
    /\ Ic => written - read <= nevents
    /\ pc \in {"packet", "start", "cycle"} => fNEventsperAcquistion = nevents
    /\ pc \in {"take", "stop"} => cNWords <= written - read

(* The packets of an IC board follow one another. *)
PacketsOK ==
    pc \in {"start", "cycle"} =>
        /\ fNEventsperAcquistion = Packets(call.n).size
        /\ cycles \in 1 .. Packets(call.n).count
        /\ IF pData = NoData THEN since = read ELSE since = pData.from /\ read = pData.to
        /\ read - since = fNEventsperAcquistion * (Packets(call.n).count - cycles)

(* A CBC3 board's buffer begins with the first event, and a generator that *)
(* is alone has triggered what the buffer holds.                           *)
EventsOK ==
    /\ pc = "restart" /\ gen => Ncycle = call.n
    /\ pc \in {"restart", "events", "stop"} => pData = NoData
    /\ pc \in {"events", "stop"} =>
          /\ since = read /\ read % Words = 0 /\ running
          /\ gen /\ ~ext => left \in 0 .. call.n /\ Boundary = read + Words * (call.n - left)
    /\ pc = "stop" =>
          /\ cNWords % Words = 0 /\ Words * call.n <= cNWords
          /\ gen /\ ~ext => cNWords = Words * call.n

PacketInv == PacketTypeOK /\ CallOK /\ BufferOK /\ PacketsOK /\ EventsOK /\ NEventsRight
=============================================================================
