---------------------------- MODULE SramReadout ----------------------------
(***************************************************************************)
(* HWInterface/GlibFWInterface and CtaFWInterface: boards whose firmware   *)
(* fills two memories in turn with blocks of events while the software     *)
(* empties them, choosing the memory by the parity of its own counter of   *)
(* acquisitions, fNthAcq.  On the GLIB the first memory also carries the   *)
(* I2C commands to the chips and their replies; the CTA has FIFOs of its   *)
(* own for them.                                                           *)
(*                                                                         *)
(* The firmware is external.  A memory is filled when it is neither full   *)
(* nor being released, end_readout releases it and goes back to 0 before   *)
(* the next turn (the order in which ReadData() waits), and taking         *)
(* PC_config_ok away empties both and starts again with the first: what    *)
(* Start() counts on when it sets fNthAcq to 0.  A break of the triggers   *)
(* makes the CTA hand over a block that is not complete.  Callers never    *)
(* ask to break the triggers while reading (pBreakTrigger).                *)
(***************************************************************************)
EXTENDS Integers, Sequences

CONSTANTS Boards,    (* a subset of {"GLIB", "CTA"}                        *)
          Packet,    (* events per block in the board's settings           *)
          NEvents,   (* the values of pNEvents                             *)
          MaxAttempts, (* cMaxWriteAttempts                                *)
          MaxBlocks, (* bound: blocks filled in one run                    *)
          MaxCalls   (* bound: calls                                       *)

ASSUME SramAssumption ==
    /\ Boards \subseteq {"GLIB", "CTA"}
    /\ Packet \in Nat \ {0} /\ NEvents \subseteq Nat \ {0}
    /\ {MaxAttempts, MaxBlocks, MaxCalls} \subseteq Nat

VARIABLES
    board,       (* the board, the same throughout                         *)
    mem,         (* what the two memories hold                             *)
    full,        (* flags.SRAM1_full, flags.SRAM2_full                     *)
    endReadout,  (* pc_commands.SRAM1_end_readout, SRAM2_end_readout       *)
    turn,        (* the memory the firmware fills next                     *)
    filled,      (* blocks filled since the run began                      *)
    run,         (* runs begun, to tell the blocks of each                 *)
    configOk,    (* pc_commands.PC_config_ok                               *)
    startValid,  (* status_flags.CMD_START_VALID                           *)
    breakTrigger, (* break_trigger: "off", "on", "cut" once a block was cut *)
    packet,      (* CBC_DATA_PACKET_NUMBER, plus one                       *)
    rq, ack,     (* cbc_i2c_cmd_rq and cbc_i2c_cmd_ack                     *)
    fifo,        (* the CTA's I2C FIFOs                                    *)
    pc,          (* control point of the software                          *)
    call,        (* the call under way, or the last one                    *)
    calls,       (* calls made                                             *)
    attempts,    (* pWriteAttempts                                         *)
    fNthAcq, fNpackets, fJustPaused,
    pData,       (* the caller's vector: what was read from the memory     *)
    todo,        (* I2C transactions the call has left                     *)
    taken,       (* history: blocks ReadData() has returned in this run    *)
    result,      (* history: what the last call gave to its caller         *)
    spoilt       (* history: a call of this run has disturbed its blocks   *)

registers == <<configOk, startValid, breakTrigger, packet>>
memories  == <<mem, full, endReadout, turn, filled, run>>
i2c       == <<rq, ack, fifo>>
counters  == <<fNthAcq, fNpackets, fJustPaused>>
calling   == <<call, calls, attempts>>
history   == <<taken, result, spoilt>>
vars == <<board, memories, registers, i2c, pc, calling, counters, pData, todo, history>>

Sram == {1, 2}
Block(n)  == [kind |-> "block", run |-> run, nr |-> filled + 1, n |-> n]
Command   == [kind |-> "command", run |-> 0, nr |-> calls,
             n |-> 2 * attempts + Len(todo)]
Answer(w) == [w EXCEPT !.kind = "reply"]
Nothing   == [kind |-> "nothing", run |-> 0, nr |-> 0, n |-> 0]
NoCall    == [op |-> "Stop", n |-> 0, pWait |-> TRUE]
NoResult  == [count |-> 0, data |-> Nothing]
Other(m)  == 3 - m

Init ==
    /\ board \in Boards
    /\ mem = [m \in Sram |-> Nothing] /\ full = [m \in Sram |-> FALSE]
    /\ endReadout = [m \in Sram |-> FALSE] /\ turn = 1 /\ filled = 0 /\ run = 0
    /\ configOk = FALSE /\ startValid = FALSE /\ breakTrigger = "off"
    /\ packet = Packet
    /\ rq = FALSE /\ ack = FALSE /\ fifo = Nothing
    /\ pc = "idle" /\ call = NoCall /\ calls = 0 /\ attempts = 0
    /\ fNthAcq = 0 /\ fNpackets = 0 /\ fJustPaused = FALSE
    /\ pData = Nothing /\ todo = <<>>
    /\ taken = 0 /\ result = NoResult /\ spoilt = FALSE
-----------------------------------------------------------------------------
(* The firmware (external). *)

StartAcknowledge ==
    /\ configOk /\ ~startValid
    /\ startValid' = TRUE
    /\ UNCHANGED <<board, memories, configOk, breakTrigger, packet, i2c, pc,
                   calling, counters, pData, todo, history>>

(* A memory gets n events: all of a packet, or fewer when triggers break.  *)
Fill(n) ==
    /\ startValid /\ ~full[turn] /\ ~endReadout[turn]
    /\ filled < MaxBlocks
    /\ mem' = [mem EXCEPT ![turn] = Block(n)]
    /\ full' = [full EXCEPT ![turn] = TRUE]
    /\ turn' = Other(turn)
    /\ filled' = filled + 1
    /\ UNCHANGED <<board, endReadout, run, configOk, startValid, packet, i2c,
                   pc, calling, counters, pData, todo, history>>

FillPacket  == breakTrigger = "off" /\ Fill(packet) /\ UNCHANGED breakTrigger
FillPartial == /\ breakTrigger = "on" /\ board = "CTA"
               /\ \E n \in 1 .. packet - 1 : Fill(n)
               /\ breakTrigger' = "cut"

Release(m) ==
    /\ full[m] /\ endReadout[m]
    /\ full' = [full EXCEPT ![m] = FALSE]
    /\ UNCHANGED <<board, mem, endReadout, turn, filled, run, registers, i2c,
                   pc, calling, counters, pData, todo, history>>

(* The I2C master executes what it finds in its memory, and takes the      *)
(* acknowledge back when the request goes away.                            *)
I2cExecute ==
    /\ rq /\ ~ack
    /\ ack' = TRUE
    /\ IF board = "GLIB"
       THEN /\ mem' = IF mem[1].kind = "command"
                      THEN [mem EXCEPT ![1] = Answer(@)] ELSE mem
            /\ UNCHANGED fifo
       ELSE fifo' = Answer(fifo) /\ UNCHANGED mem
    /\ UNCHANGED <<board, full, endReadout, turn, filled, run, registers, rq,
                   pc, calling, counters, pData, todo, history>>

I2cRelease ==
    /\ ~rq /\ ack
    /\ ack' = FALSE
    /\ UNCHANGED <<board, memories, registers, rq, fifo, pc, calling,
                   counters, pData, todo, history>>

Firmware == StartAcknowledge \/ FillPacket \/ FillPartial \/ I2cExecute
                \/ I2cRelease \/ \E m \in Sram : Release(m)

(* PC_config_ok is written: 1 begins a run, 0 ends it and empties both.    *)
ConfigOn ==
    /\ configOk' = TRUE
    /\ UNCHANGED <<startValid, mem, full, turn>>
    /\ IF configOk THEN UNCHANGED <<filled, run, taken>>
                   ELSE run' = run + 1 /\ filled' = 0 /\ taken' = 0
ConfigOff ==
    /\ configOk' = FALSE /\ startValid' = FALSE
    /\ full' = [m \in Sram |-> FALSE] /\ turn' = 1
    /\ UNCHANGED <<mem, filled, run, taken>>
-----------------------------------------------------------------------------
(* Run control *)

Enter(op, n, pWait) ==
    /\ pc = "idle" /\ calls < MaxCalls
    /\ call' = [op |-> op, n |-> n, pWait |-> pWait]
    /\ calls' = calls + 1 /\ attempts' = 0
    /\ pData' = Nothing
    /\ result' = NoResult

(* ConfigureBoard() of either board ends a run and clears end_readout.     *)
Configure ==
    /\ Enter("Configure", 0, TRUE)
    /\ ConfigOff
    /\ endReadout' = [m \in Sram |-> FALSE]
    /\ UNCHANGED <<board, breakTrigger, packet, i2c, pc, counters, todo, spoilt>>
GlibConfigureBoard == board = "GLIB" /\ Configure
CtaConfigureBoard  == board = "CTA" /\ Configure

BeginRun ==
    /\ ~configOk
    /\ Enter("Start", 0, TRUE)
    /\ breakTrigger' = "off"
    /\ ConfigOn
    /\ fNthAcq' = 0 /\ fNpackets' = packet
    /\ spoilt' = FALSE
    /\ UNCHANGED <<board, endReadout, packet, i2c, fJustPaused, todo>>

(* Only the GLIB waits for the acknowledge in Start(). *)
GlibStart == board = "GLIB" /\ BeginRun /\ pc' = "acknowledge"
CtaStart  == board = "CTA" /\ BeginRun /\ pc' = "idle"

(* The memory chosen by SelectDaqSRAM(), from the parity of fNthAcq. *)
SelectDaqSRAM == (fNthAcq % 2) + 1

EndRun(break, bits) ==
    /\ Enter("Stop", 0, TRUE)
    /\ breakTrigger' = break
    /\ ConfigOff
    /\ endReadout' = bits
    /\ UNCHANGED <<board, packet, i2c, pc, counters, todo, spoilt>>

(* Stop(): the GLIB breaks the triggers and clears one end_readout bit, the *)
(* CTA clears both.                                                        *)
GlibStop == /\ board = "GLIB"
            /\ EndRun("on", [endReadout EXCEPT ![SelectDaqSRAM] = FALSE])
CtaStop  == /\ board = "CTA"
            /\ EndRun("off", [m \in Sram |-> FALSE])

Break(value) ==
    /\ configOk
    /\ breakTrigger' = value
    /\ UNCHANGED <<board, memories, configOk, startValid, packet, i2c, pc,
                   fNthAcq, fNpackets, todo, taken>>

GlibPause ==
    /\ board = "GLIB"
    /\ Enter("Pause", 0, TRUE) /\ Break("on")
    /\ UNCHANGED <<fJustPaused, spoilt>>

(* A block of the CTA that is complete and unread now will be taken for    *)
(* the one the break cuts short.                                           *)
CtaPause ==
    /\ board = "CTA"
    /\ Enter("Pause", 0, TRUE) /\ Break("on")
    /\ fJustPaused' = TRUE
    /\ spoilt' = (spoilt \/ fJustPaused \/ \E m \in Sram : full[m])

GlibResume ==
    /\ board = "GLIB"
    /\ Enter("Resume", 0, TRUE) /\ Break("off")
    /\ UNCHANGED <<fJustPaused, spoilt>>

CtaResume ==
    /\ board = "CTA"
    /\ Enter("Resume", 0, TRUE) /\ Break("off")
    /\ spoilt' = (spoilt \/ fJustPaused)
    /\ UNCHANGED fJustPaused
-----------------------------------------------------------------------------
(* ReadData() and ReadNEvents() *)

CallReadData(pWait) ==
    /\ configOk
    /\ Enter("ReadData", 0, pWait)
    /\ pc' = "full"
    /\ UNCHANGED <<board, memories, registers, i2c, counters, todo, taken, spoilt>>

(* Faulty variant: the number of events is not written. *)
CallReadNEvents_NoPacket(n) ==
    /\ Enter("ReadNEvents", n, TRUE)
    /\ fNpackets' = n
    /\ breakTrigger' = "off"
    /\ ConfigOn
    /\ spoilt' = configOk
    /\ pc' = "acknowledge"
    /\ UNCHANGED <<board, endReadout, packet, i2c, fNthAcq, fJustPaused, todo>>

(* Called in a run, ReadNEvents() changes the packet under the blocks that *)
(* are there already.                                                      *)
CallReadNEvents(n) ==
    /\ Enter("ReadNEvents", n, TRUE)
    /\ fNpackets' = n /\ packet' = n
    /\ breakTrigger' = "off"
    /\ ConfigOn
    /\ spoilt' = configOk
    /\ pc' = "acknowledge"
    /\ UNCHANGED <<board, endReadout, i2c, fNthAcq, fJustPaused, todo>>

(* Wait for CMD_START_VALID. *)
Acknowledged ==
    /\ pc = "acknowledge" /\ startValid
    /\ pc' = IF call.op = "Start" THEN "idle" ELSE "full"
    /\ UNCHANGED <<board, memories, registers, i2c, calling, counters, pData,
                   todo, history>>

(* ReadData() comes back without data when it is not to wait. *)
NotFull ==
    /\ pc = "full" /\ call.op = "ReadData" /\ ~call.pWait
    /\ ~full[SelectDaqSRAM]
    /\ pc' = "idle"
    /\ UNCHANGED <<board, memories, registers, i2c, calling, counters, pData,
                   todo, history>>

BlockFull(m) == pc = "full" /\ call.op = "ReadData" /\ full[m]

(* Faulty variant: end_readout is not raised. *)
Take_NoReadout(m, count) ==
    /\ pData' = mem[m]
    /\ result' = [count |-> count, data |-> mem[m]]
    /\ pc' = "empty"
    /\ UNCHANGED <<board, memories, registers, i2c, calling,
                   fNpackets, todo, taken, spoilt>>

(* ReadData(): the block is read and end_readout raised.                   *)
Take(m, count) ==
    /\ pData' = mem[m]
    /\ result' = [count |-> count, data |-> mem[m]]
    /\ endReadout' = [endReadout EXCEPT ![m] = TRUE]
    /\ pc' = "empty"
    /\ UNCHANGED <<board, mem, full, turn, filled, run, registers, i2c, calling,
                   fNpackets, todo, taken, spoilt>>

(* Faulty variant: the acquisition is not counted. *)
GlibReadData_NoCount ==
    /\ board = "GLIB" /\ BlockFull(SelectDaqSRAM)
    /\ Take(SelectDaqSRAM, fNpackets)
    /\ UNCHANGED <<fNthAcq, fJustPaused>>

GlibReadData ==
    /\ board = "GLIB" /\ BlockFull(SelectDaqSRAM)
    /\ Take(SelectDaqSRAM, fNpackets)
    /\ fNthAcq' = fNthAcq + 1
    /\ UNCHANGED fJustPaused

(* After a pause the CTA subtracts what event_counter says is missing. *)
CtaReadData ==
    LET missing == IF fJustPaused THEN packet - mem[SelectDaqSRAM].n ELSE 0 IN
    /\ board = "CTA" /\ BlockFull(SelectDaqSRAM)
    /\ Take(SelectDaqSRAM, fNpackets - missing)
    /\ fNthAcq' = fNthAcq + 1
    /\ fJustPaused' = FALSE

(* The memory that was just read is no longer full: end_readout goes back. *)
Emptied ==
    LET m == ((fNthAcq - 1) % 2) + 1 IN
    /\ pc = "empty" /\ ~full[m]
    /\ endReadout' = [endReadout EXCEPT ![m] = FALSE]
    /\ taken' = taken + 1
    /\ pc' = "idle"
    /\ UNCHANGED <<board, mem, full, turn, filled, run, registers, i2c, calling,
                   counters, pData, todo, result, spoilt>>

(* ReadNEvents(): the block is read without a pulse of end_readout.        *)
EventsFull(m, break) ==
    /\ pc = "full" /\ call.op = "ReadNEvents" /\ full[m]
    /\ pData' = mem[m]
    /\ result' = [count |-> fNpackets, data |-> mem[m]]
    /\ fNthAcq' = fNthAcq + 1
    /\ breakTrigger' = break
    /\ pc' = "idle"
    /\ UNCHANGED <<board, endReadout, packet, i2c, calling, fNpackets,
                   fJustPaused, todo, spoilt>>

GlibReadNEvents == board = "GLIB" /\ EventsFull(SelectDaqSRAM, "on") /\ ConfigOff
CtaReadNEvents  == board = "CTA" /\ EventsFull(SelectDaqSRAM, "off") /\ ConfigOff
-----------------------------------------------------------------------------
(* I2C: WriteCbcBlockReg() with and without readback,                      *)
(* BCWriteCbcBlockReg(), ReadCbcBlockReg().                                *)

(* The transactions of a call. *)
Transactions(op) == CASE op = "Verify" -> <<"write", "read">>
                      [] op = "Write"  -> <<"write">>
                      [] op = "Read"   -> <<"read">>

CallI2c(op) ==
    /\ Enter(op, 0, TRUE)
    /\ todo' = Transactions(op)
    /\ spoilt' = (spoilt \/ (board = "GLIB" /\ configOk))
    /\ pc' = "send"
    /\ UNCHANGED <<board, memories, registers, i2c, counters, taken>>

Request ==
    /\ pc = "send"
    /\ rq' = TRUE
    /\ pc' = "ack"
    /\ UNCHANGED <<board, full, endReadout, turn, filled, run, registers, ack,
                   calling, counters, pData, todo, history>>

(* WriteI2C(): the words go to the first memory, or to the CTA's FIFO. *)
GlibWriteI2C ==
    board = "GLIB" /\ Request /\ mem' = [mem EXCEPT ![1] = Command] /\ UNCHANGED fifo
CtaWriteI2C ==
    board = "CTA" /\ Request /\ fifo' = Command /\ UNCHANGED mem

(* I2cCmdAckWait() for the acknowledge of the request. *)
I2cAcked ==
    /\ pc = "ack" /\ ack
    /\ rq' = FALSE
    /\ pc' = "release"
    /\ UNCHANGED <<board, memories, registers, ack, fifo, calling, counters,
                   pData, todo, history>>

(* I2cCmdAckWait() for its end, then the next transaction, or the replies  *)
(* of a read.                                                              *)
I2cReleased ==
    /\ pc = "release" /\ ~ack
    /\ todo' = Tail(todo)
    /\ pc' = IF Len(todo) > 1 THEN "send"
             ELSE IF Head(todo) = "read" THEN "replies" ELSE "idle"
    /\ UNCHANGED <<board, memories, registers, i2c, calling, counters, pData,
                   history>>

(* The exceptions of WriteI2C(), which end the program. *)
TimeOut ==
    /\ pc' = "exited"
    /\ UNCHANGED <<board, memories, registers, i2c, calling, counters, pData,
                   todo, history>>

(* The GLIB polls up to 70 times for the value it wants. *)
GlibI2cCmdAckWait ==
    /\ board = "GLIB"
    /\ (pc = "ack" /\ ~ack) \/ (pc = "release" /\ ack)
    /\ TimeOut

(* The CTA refuses an acknowledge with an error, and looks only once       *)
(* whether the acknowledge has gone.                                       *)
CtaI2cCmdAckWait ==
    /\ board = "CTA"
    /\ pc = "ack" \/ (pc = "release" /\ ack)
    /\ TimeOut

Replies(words) ==
    /\ pc = "replies"
    /\ pData' = words
    /\ result' = [count |-> 1, data |-> words]
    /\ rq' = FALSE
    /\ pc' = IF call.op = "Verify" THEN "compare" ELSE "idle"
    /\ UNCHANGED <<board, memories, registers, ack, fifo, calling, counters,
                   todo, taken, spoilt>>

GlibReadI2C == board = "GLIB" /\ Replies(mem[1])
CtaReadI2C  == board = "CTA" /\ Replies(fifo)

(* The replies are compared with what was written: they agree or no        *)
(* attempt is left, the registers that differ are written again, or there  *)
(* are too many of them and an exception ends the program.                 *)
Compare ==
    /\ pc = "compare"
    /\ \/ /\ pc' = "idle"
          /\ attempts' \in {attempts} \cup (IF attempts = MaxAttempts THEN {0} ELSE {})
          /\ UNCHANGED todo
       \/ /\ attempts < MaxAttempts
          /\ attempts' = attempts + 1
          /\ todo' = Transactions(call.op)
          /\ pc' = "send"
       \/ /\ attempts < MaxAttempts
          /\ pc' = "exited"
          /\ UNCHANGED <<attempts, todo>>
    /\ UNCHANGED <<board, memories, registers, i2c, call, calls, counters,
                   pData, history>>
GlibWriteCbcBlockReg == board = "GLIB" /\ Compare
CtaWriteCbcBlockReg  == board = "CTA" /\ Compare
-----------------------------------------------------------------------------
RunControl == \/ GlibConfigureBoard \/ GlibStart \/ GlibStop \/ GlibPause \/ GlibResume
              \/ CtaConfigureBoard \/ CtaStart \/ CtaStop \/ CtaPause \/ CtaResume
ReadCalls  == \/ \E pWait \in BOOLEAN : CallReadData(pWait)
              \/ \E n \in NEvents : CallReadNEvents(n)
I2cCalls   == \E op \in {"Write", "Verify", "Read"} : CallI2c(op)
ReadStep   == \/ Acknowledged \/ NotFull \/ Emptied
              \/ GlibReadData \/ CtaReadData \/ GlibReadNEvents \/ CtaReadNEvents
I2cStep    == \/ GlibWriteI2C \/ CtaWriteI2C \/ I2cAcked \/ I2cReleased
              \/ GlibI2cCmdAckWait \/ CtaI2cCmdAckWait \/ GlibReadI2C \/ CtaReadI2C
              \/ GlibWriteCbcBlockReg \/ CtaWriteCbcBlockReg

Next == Firmware \/ RunControl \/ ReadCalls \/ I2cCalls \/ ReadStep \/ I2cStep

Spec == Init /\ [][Next]_vars

(* A call under way goes on, and the firmware answers. *)
FairSpec == Spec /\ WF_vars(ReadStep) /\ WF_vars(I2cStep)
                 /\ WF_vars(StartAcknowledge) /\ WF_vars(FillPacket)
                 /\ \A m \in Sram : WF_vars(Release(m))
-----------------------------------------------------------------------------
(* Between Start() and Stop(), ReadData() returns the blocks of the run in *)
(* the order in which they were filled, none twice and none left out, and  *)
(* with each the number of its events: the parity of fNthAcq and the       *)
(* firmware's turn never part, through pauses, calls that do not wait and  *)
(* runs that end with blocks unread.                                       *)
BlocksInTurn ==
    call.op = "ReadData" /\ pc \in {"empty", "idle"} /\ result.count # 0 /\ ~spoilt =>
        LET nr == IF pc = "idle" THEN taken ELSE taken + 1 IN
        result = [count |-> result.data.n,
                  data |-> [kind |-> "block", run |-> run, nr |-> nr,
                            n |-> result.data.n]]

(* ReadNEvents() outside a run returns a block filled after it was called, *)
(* with the events it was asked for, whatever was left in the memories by  *)
(* reads before it and whatever the parity.                                *)
EventsAreFresh ==
    call.op = "ReadNEvents" /\ pc = "idle" /\ ~spoilt =>
        /\ result.count = call.n
        /\ result.data.kind = "block" /\ result.data.run = run
        /\ result.data.n = call.n

(* Every call comes back: no wait for a memory the firmware does not fill, *)
(* except of a ReadData() that is to wait while triggers are broken.       *)
CallReturns ==
    pc \notin {"idle", "exited"} /\ ~(breakTrigger # "off" /\ call.op = "ReadData")
        ~> pc \in {"idle", "exited"}
-----------------------------------------------------------------------------
(* The inductive invariant.                                                *)
I2cPoints == {"send", "ack", "release", "replies", "compare"}
TypeOK ==
    /\ board \in {"GLIB", "CTA"} /\ DOMAIN mem = Sram /\ full \in [Sram -> BOOLEAN]
    /\ turn \in Sram /\ filled \in Nat /\ run \in Nat /\ taken \in Nat
    /\ fNthAcq \in Nat /\ packet \in Nat /\ fNpackets \in Nat
    /\ configOk \in BOOLEAN /\ startValid \in BOOLEAN /\ fJustPaused \in BOOLEAN
    /\ spoilt \in BOOLEAN /\ breakTrigger \in {"off", "on", "cut"}
    /\ pc \in {"idle", "acknowledge", "full", "empty", "exited"} \cup I2cPoints

(* Where a call can be, and what it has given so far. *)
CallOK ==
    /\ pc = "acknowledge" => call.op \in {"Start", "ReadNEvents"}
    /\ pc = "full"        => call.op \in {"ReadData", "ReadNEvents"}
    /\ pc = "empty"       => call.op = "ReadData" /\ fNthAcq > 0
    /\ pc \in I2cPoints   => call.op \in {"Write", "Verify", "Read"}
    /\ pc = "full" /\ call.op = "ReadData" => result.count = 0

(* The memories are empty outside a run; reads are inside one, and I2C on  *)
(* the GLIB spoils it.                                                     *)
RunOK ==
    /\ ~configOk => ~startValid /\ turn = 1 /\ \A m \in Sram : ~full[m]
    /\ configOk => fNpackets = packet
    /\ pc \in {"acknowledge", "full", "empty"} => configOk
    /\ call.op = "ReadNEvents" /\ pc = "idle" => ~configOk
    /\ board = "GLIB" /\ configOk /\ pc \in I2cPoints => spoilt

(* Only the memory just read is being released. *)
ReleaseOK == /\ endReadout \in [Sram -> BOOLEAN]
             /\ \A m \in Sram : endReadout[m] <=> pc = "empty" /\ m = Other(SelectDaqSRAM)

(* What fNthAcq, the firmware's turn and the memories have to do with each *)
(* other in a run: the memories hold the next blocks, at most two, of      *)
(* which only the next one may be incomplete, after a pause.               *)
InRun == configOk /\ ~spoilt /\ call.op # "ReadNEvents"
Ahead == filled - fNthAcq
Unread(m) == full[m] /\ ~(pc = "empty" /\ m = Other(SelectDaqSRAM))
Holds(m, nr) == mem[m] = [kind |-> "block", run |-> run, nr |-> nr, n |-> mem[m].n]
StreamOK == InRun =>
    /\ turn = (filled % 2) + 1
    /\ fNthAcq = IF pc = "empty" THEN taken + 1 ELSE taken
    /\ Ahead \in 0 .. 2
    /\ Unread(SelectDaqSRAM) <=> Ahead > 0
    /\ Unread(Other(SelectDaqSRAM)) <=> Ahead = 2
    /\ Unread(SelectDaqSRAM) => Holds(SelectDaqSRAM, fNthAcq + 1)
    /\ Unread(Other(SelectDaqSRAM)) => Holds(Other(SelectDaqSRAM), fNthAcq + 2)
    /\ \A m \in Sram : Unread(m) => mem[m].n \in Nat /\ (mem[m].n # packet =>
          m = SelectDaqSRAM /\ board = "CTA" /\ breakTrigger = "cut" /\ fJustPaused)
    /\ board = "CTA" /\ breakTrigger = "on" => fJustPaused /\ \A m \in Sram : ~full[m]

(* A run that ReadNEvents() began fills whole blocks of what was asked for.*)
EventsOK == call.op = "ReadNEvents" /\ pc # "idle" /\ ~spoilt =>
    /\ breakTrigger = "off" /\ packet = call.n
    /\ \A m \in Sram : full[m] =>
          mem[m].kind = "block" /\ mem[m].run = run /\ mem[m].n = packet

IInv == /\ TypeOK /\ CallOK /\ RunOK /\ ReleaseOK /\ StreamOK /\ EventsOK
        /\ BlocksInTurn /\ EventsAreFresh
=============================================================================
