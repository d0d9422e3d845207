------------------------- MODULE SramReadout_proofs -------------------------
(***************************************************************************)
(* Theorems about SramReadout, for every packet, every number of events,   *)
(* every number of attempts and every bound.                               *)
(***************************************************************************)
EXTENDS SramReadout, TLAPS

(* The memories are chosen in turn. *)
LEMMA Parity ==
    ASSUME NEW n \in Nat
    PROVE  /\ (n % 2) + 1 \in Sram
           /\ ((n + 1) % 2) + 1 = Other((n % 2) + 1)
           /\ n > 0 => ((n - 1) % 2) + 1 = Other((n % 2) + 1)
           /\ ((n + 2) % 2) + 1 = (n % 2) + 1
BY DEF Sram, Other

(* The other memory is the other one. *)
LEMMA TwoMemories ==
    ASSUME NEW m \in Sram
    PROVE  /\ Other(m) \in Sram /\ Other(m) # m /\ Other(Other(m)) = m
           /\ \A k \in Sram : k = m \/ k = Other(m)
BY DEF Sram, Other

(* The first state.                                                        *)
LEMMA Initially == Init => IInv
<1> SUFFICES ASSUME Init PROVE IInv
  OBVIOUS
<1> USE SramAssumption DEF SramAssumption, Init, NoCall, NoResult
<1>1. TypeOK
  BY DEF TypeOK, I2cPoints, Sram
<1>3. CallOK
  BY DEF CallOK, I2cPoints
<1>4. RunOK
  BY DEF RunOK, I2cPoints
<1>5. ReleaseOK
  BY DEF ReleaseOK
<1>2. StreamOK /\ EventsOK /\ BlocksInTurn /\ EventsAreFresh
  BY DEF StreamOK, InRun, EventsOK, BlocksInTurn, EventsAreFresh
<1> QED
  BY <1>1, <1>2, <1>3, <1>4, <1>5 DEF IInv

(* The blocks of a run stay in turn in a step that leaves them alone, when *)
(* nobody waits for a memory to be emptied.                                *)
LEMMA BreakKept ==
    ASSUME TypeOK, StreamOK, pc # "empty", pc' # "empty", InRun' => InRun,
           UNCHANGED <<board, mem, full, turn, filled, run, fNthAcq, taken, packet>>,
           InRun' => \A m \in Sram : full[m] /\ mem[m].n # packet =>
                        m = SelectDaqSRAM /\ board = "CTA" /\ breakTrigger' = "cut" /\ fJustPaused',
           InRun' /\ board = "CTA" /\ breakTrigger' = "on" =>
                        fJustPaused' /\ \A m \in Sram : ~full[m]
    PROVE  StreamOK'
<1>1. SelectDaqSRAM' = SelectDaqSRAM /\ Ahead' = Ahead
  BY DEF SelectDaqSRAM, Ahead
<1>2. /\ SelectDaqSRAM \in Sram /\ Other(SelectDaqSRAM) \in Sram
      /\ \A m \in Sram : Unread(m) = full[m] /\ Unread(m)' = full[m]
  BY Parity, TwoMemories DEF TypeOK, SelectDaqSRAM, Unread
<1>3. \A m \in Sram, nr \in Nat : Holds(m, nr)' = Holds(m, nr)
  BY DEF Holds
<1> QED
  BY <1>1, <1>2, <1>3 DEF TypeOK, StreamOK

(* The same when the triggers are left alone, too. *)
LEMMA StreamKept ==
    ASSUME TypeOK, StreamOK, pc # "empty", pc' # "empty", InRun' => InRun,
           UNCHANGED <<board, mem, full, turn, filled, run, fNthAcq, taken, packet>>,
           UNCHANGED <<breakTrigger, fJustPaused>>
    PROVE  StreamOK'
<1>1. \A m \in Sram : Unread(m) <=> full[m]
  BY DEF Unread, TypeOK
<1>2. InRun' => \A m \in Sram : full[m] /\ mem[m].n # packet =>
                    m = SelectDaqSRAM /\ board = "CTA" /\ breakTrigger' = "cut" /\ fJustPaused'
  BY <1>1 DEF StreamOK
<1>3. InRun' /\ board = "CTA" /\ breakTrigger' = "on" =>
                    fJustPaused' /\ \A m \in Sram : ~full[m]
  BY DEF StreamOK
<1> QED
  BY <1>2, <1>3, BreakKept

-----------------------------------------------------------------------------
(* The steps of the firmware and of the calls. *)

(* The firmware acknowledges the start.                                    *)
LEMMA StartAcknowledgeStep ==
    ASSUME IInv, StartAcknowledge
    PROVE  IInv'
<1> USE DEF IInv, StartAcknowledge, memories, registers, i2c, counters, calling, history
<1>1. TypeOK'
  BY DEF TypeOK, I2cPoints
<1>2. CallOK'
  BY DEF CallOK, I2cPoints
<1>3. RunOK'
  BY DEF RunOK, I2cPoints
<1>4. ReleaseOK'
  BY DEF ReleaseOK, SelectDaqSRAM
<1>5. StreamOK'
  BY DEF StreamOK, InRun, Ahead, Unread, Holds, SelectDaqSRAM
<1>6. EventsOK'
  BY DEF EventsOK
<1>7. BlocksInTurn'
  BY DEF BlocksInTurn
<1>8. EventsAreFresh'
  BY DEF EventsAreFresh
<1> QED
  BY <1>1, <1>2, <1>3, <1>4, <1>5, <1>6, <1>7, <1>8

(* The firmware fills the memory whose turn it is.  With no block ahead    *)
(* that is the one read next, with one it is the other, and with two it is *)
(* full.                                                                   *)
LEMMA FillStep ==
    ASSUME NEW n \in Nat, IInv, Fill(n),
           \/ breakTrigger = "off" /\ n = packet /\ breakTrigger' = "off"
           \/ breakTrigger = "on" /\ board = "CTA" /\ breakTrigger' = "cut"
    PROVE  IInv'
<1> USE DEF IInv, Fill, Block, memories, registers, i2c, counters, calling, history
<1>1. TypeOK'
  BY DEF TypeOK, I2cPoints, Sram, Other
<1>2. CallOK'
  BY DEF CallOK, I2cPoints
<1>3. RunOK'
  BY DEF RunOK, I2cPoints
<1>4. ReleaseOK'
  BY DEF ReleaseOK, SelectDaqSRAM
<1>5. StreamOK'
  <2> SUFFICES ASSUME InRun PROVE StreamOK'
    BY DEF StreamOK, InRun
  <2> DEFINE next == SelectDaqSRAM
             last == Other(SelectDaqSRAM)
  <2>1. /\ next \in Sram /\ last \in Sram /\ next # last /\ \A m \in Sram : m = next \/ m = last
        /\ next' = next /\ last' = last
    BY Parity, TwoMemories DEF TypeOK, SelectDaqSRAM
  <2>2. Ahead' = Ahead + 1 /\ Ahead \in Int /\ filled = fNthAcq + Ahead
    BY DEF Ahead, TypeOK
  <2>3. turn' = (filled' % 2) + 1
    BY Parity DEF TypeOK, StreamOK
  <2>4. \A m \in Sram : m # turn => mem'[m] = mem[m] /\ (Unread(m)' <=> Unread(m))
    BY <2>1 DEF Unread, TypeOK
  <2>5. full'[turn] /\ mem'[turn] = [kind |-> "block", run |-> run, nr |-> filled + 1, n |-> n]
    BY DEF TypeOK
  <2>6. /\ breakTrigger' # "on"
        /\ n # packet => board = "CTA" /\ breakTrigger' = "cut" /\ fJustPaused' /\ ~full[next]
    BY <2>1 DEF StreamOK
  <2>7. CASE Ahead = 0
    <3>1. turn = next
      BY <2>2, <2>7 DEF StreamOK, SelectDaqSRAM, TypeOK
    <3>5. Unread(next)'
      BY <2>1, <2>5, <3>1 DEF Unread
    <3>2. Holds(next, fNthAcq + 1)'
      BY <2>1, <2>2, <2>5, <2>7, <3>1 DEF Holds, TypeOK
    <3>3. ~Unread(last)'
      BY <2>1, <2>4, <2>7, <3>1 DEF StreamOK
    <3>4. \A m \in Sram : Unread(m)' => mem'[m].n \in Nat /\ (mem'[m].n # packet' =>
             m = next /\ board' = "CTA" /\ breakTrigger' = "cut" /\ fJustPaused')
      BY <2>1, <2>5, <2>6, <3>1, <3>3
    <3> QED
      BY <2>1, <2>2, <2>3, <2>6, <2>7, <3>5, <3>2, <3>3, <3>4 DEF StreamOK
  <2>8. CASE Ahead = 1
    <3>1. turn = last
      BY <2>1, <2>2, <2>8, Parity DEF StreamOK, SelectDaqSRAM, TypeOK
    <3>2. pc # "empty" /\ Unread(last)'
      BY <2>1, <2>5, <3>1 DEF ReleaseOK, Unread
    <3>3. Holds(last, fNthAcq + 2)'
      BY <2>1, <2>2, <2>5, <2>8, <3>1 DEF Holds, TypeOK
    <3>4. Unread(next) /\ Unread(next)' /\ mem'[next] = mem[next]
      BY <2>1, <2>4, <2>8, <3>1 DEF StreamOK
    <3>5. Holds(next, fNthAcq + 1)'
      BY <2>1, <3>4 DEF Holds, StreamOK
    <3>6. n = packet
      BY <2>6, <3>2, <3>4, <2>1 DEF Unread
    <3>7. mem[next].n \in Nat /\ (mem[next].n # packet => board = "CTA" /\ breakTrigger = "cut" /\ fJustPaused)
      BY <2>1, <3>4 DEF StreamOK
    <3>8. breakTrigger = "cut" => FALSE
      OBVIOUS
    <3>9. \A m \in Sram : Unread(m)' => mem'[m].n \in Nat /\ mem'[m].n = packet'
      BY <2>1, <2>5, <3>1, <3>4, <3>6, <3>7, <3>8
    <3> QED
      BY <2>1, <2>2, <2>3, <2>6, <2>8, <3>2, <3>3, <3>4, <3>5, <3>9 DEF StreamOK
  <2>9. CASE Ahead = 2
    <3>1. turn = next
      BY <2>1, <2>2, <2>9, Parity DEF StreamOK, SelectDaqSRAM, TypeOK
    <3> QED
      BY <2>1, <2>9, <3>1 DEF StreamOK, Unread
  <2> QED
    BY <2>7, <2>8, <2>9 DEF StreamOK
<1>6. EventsOK'
  BY DEF TypeOK, EventsOK
<1>7. BlocksInTurn'
  BY DEF BlocksInTurn
<1>8. EventsAreFresh'
  BY DEF EventsAreFresh
<1> QED
  BY <1>1, <1>2, <1>3, <1>4, <1>5, <1>6, <1>7, <1>8

(* Only the memory that was just read is released.                         *)
LEMMA ReleaseStep ==
    ASSUME NEW m \in Sram, IInv, Release(m)
    PROVE  IInv'
<1> USE DEF IInv, Release, memories, registers, i2c, counters, calling, history
<1>1. TypeOK'
  BY DEF TypeOK, I2cPoints
<1>2. CallOK'
  BY DEF CallOK, I2cPoints
<1>3. RunOK'
  BY DEF RunOK, I2cPoints
<1>4. ReleaseOK'
  BY DEF ReleaseOK, SelectDaqSRAM
<1>5. StreamOK'
  BY Parity, TwoMemories DEF TypeOK, I2cPoints, CallOK, RunOK, ReleaseOK, SelectDaqSRAM, StreamOK,
       InRun, Ahead, Unread, Holds
<1>6. EventsOK'
  BY DEF EventsOK
<1>7. BlocksInTurn'
  BY DEF BlocksInTurn
<1>8. EventsAreFresh'
  BY DEF EventsAreFresh
<1> QED
  BY <1>1, <1>2, <1>3, <1>4, <1>5, <1>6, <1>7, <1>8

(* The I2C master answers a command; blocks stay as they are.              *)
LEMMA I2cExecuteStep ==
    ASSUME IInv, I2cExecute
    PROVE  IInv'
<1> USE DEF IInv, I2cExecute, Answer, memories, registers, i2c, counters, calling, history
<1>1. TypeOK'
  BY DEF TypeOK, I2cPoints
<1>2. CallOK'
  BY DEF CallOK, I2cPoints
<1>3. RunOK'
  BY DEF RunOK, I2cPoints
<1>4. ReleaseOK'
  BY DEF ReleaseOK, SelectDaqSRAM
<1>5. StreamOK'
  <2>6. \A m \in Sram : m = SelectDaqSRAM \/ m = Other(SelectDaqSRAM)
    BY Parity, TwoMemories DEF TypeOK, SelectDaqSRAM
  <2>7. InRun => \A m \in Sram : Unread(m) => mem[m].kind = "block"
    BY <2>6 DEF StreamOK, Holds
  <2>1. InRun => \A m \in Sram : Unread(m) => mem'[m] = mem[m]
    BY <2>7 DEF TypeOK
  <2>2. InRun' = InRun /\ SelectDaqSRAM' = SelectDaqSRAM /\ Ahead' = Ahead
    BY DEF InRun, SelectDaqSRAM, Ahead
  <2>3. \A m \in Sram : Unread(m)' <=> Unread(m)
    BY <2>2 DEF Unread
  <2>4. \A m \in Sram, nr \in Nat : InRun /\ Unread(m) /\ Holds(m, nr) => Holds(m, nr)'
    BY <2>1 DEF Holds
  <2>5. SelectDaqSRAM \in Sram /\ Other(SelectDaqSRAM) \in Sram
    BY Parity, TwoMemories DEF SelectDaqSRAM, TypeOK
  <2> QED
    BY <2>1, <2>2, <2>3, <2>4, <2>5 DEF StreamOK, TypeOK
<1>6. EventsOK'
  <2>1. \A m \in Sram : mem[m].kind = "block" => mem'[m] = mem[m]
    BY DEF TypeOK
  <2> QED
    BY <2>1 DEF EventsOK
<1>7. BlocksInTurn'
  BY DEF BlocksInTurn
<1>8. EventsAreFresh'
  BY DEF EventsAreFresh
<1> QED
  BY <1>1, <1>2, <1>3, <1>4, <1>5, <1>6, <1>7, <1>8

(* The I2C master takes its acknowledge back.                              *)
LEMMA I2cReleaseStep ==
    ASSUME IInv, I2cRelease
    PROVE  IInv'
<1> USE DEF IInv, I2cRelease, memories, registers, i2c, counters, calling, history
<1>1. TypeOK'
  BY DEF TypeOK, I2cPoints
<1>2. CallOK'
  BY DEF CallOK, I2cPoints
<1>3. RunOK'
  BY DEF RunOK, I2cPoints
<1>4. ReleaseOK'
  BY DEF ReleaseOK, SelectDaqSRAM
<1>5. StreamOK'
  BY DEF StreamOK, InRun, Ahead, Unread, Holds, SelectDaqSRAM
<1>6. EventsOK'
  BY DEF EventsOK
<1>7. BlocksInTurn'
  BY DEF BlocksInTurn
<1>8. EventsAreFresh'
  BY DEF EventsAreFresh
<1> QED
  BY <1>1, <1>2, <1>3, <1>4, <1>5, <1>6, <1>7, <1>8

(* ConfigureBoard() ends the run.                                          *)
LEMMA ConfigureStep ==
    ASSUME IInv, GlibConfigureBoard \/ CtaConfigureBoard
    PROVE  IInv'
<1> USE DEF IInv, GlibConfigureBoard, CtaConfigureBoard, Configure, Enter, ConfigOff, NoResult,
     memories, registers, i2c, counters, calling, history
<1>1. TypeOK'
  BY DEF TypeOK, I2cPoints, Sram, Other
<1>2. CallOK'
  BY DEF CallOK, I2cPoints
<1>3. RunOK'
  BY DEF RunOK, I2cPoints
<1>4. ReleaseOK'
  <2>1. endReadout' \in [Sram -> BOOLEAN] /\ \A m \in Sram : ~endReadout'[m]
    BY DEF ReleaseOK, CallOK
  <2>2. QED
    BY <2>1 DEF ReleaseOK
<1>5. StreamOK'
  BY DEF StreamOK, InRun, Ahead, Unread, Holds, SelectDaqSRAM
<1>6. EventsOK'
  BY DEF EventsOK
<1>7. BlocksInTurn'
  BY DEF BlocksInTurn
<1>8. EventsAreFresh'
  BY DEF EventsAreFresh
<1> QED
  BY <1>1, <1>2, <1>3, <1>4, <1>5, <1>6, <1>7, <1>8

(* Start() begins a run with fNthAcq, the turn and the memories in step.   *)
LEMMA StartStep ==
    ASSUME IInv, GlibStart \/ CtaStart
    PROVE  IInv'
<1> USE DEF IInv, GlibStart, CtaStart, BeginRun, Enter, ConfigOn, NoResult, memories, registers,
     i2c, counters, calling, history
<1>1. TypeOK'
  <2>1. run' \in Nat /\ filled' = 0 /\ taken' = 0 /\ configOk' = TRUE /\ UNCHANGED <<full, mem, turn, startValid>>
    BY DEF TypeOK
  <2>2. /\ board' \in {"GLIB", "CTA"} /\ DOMAIN mem' = Sram /\ full' \in [Sram -> BOOLEAN]
        /\ turn' \in Sram /\ startValid' \in BOOLEAN
    BY <2>1 DEF TypeOK
  <2>3. pc' \in {"idle", "acknowledge"} /\ packet' \in Nat /\ fNpackets' \in Nat /\ fNthAcq' \in Nat /\ fJustPaused' \in BOOLEAN
    BY DEF TypeOK
  <2> QED
    BY <2>1, <2>2, <2>3 DEF TypeOK
<1>2. CallOK'
  BY DEF CallOK, I2cPoints
<1>3. RunOK'
  BY DEF RunOK, I2cPoints
<1>4. ReleaseOK'
  BY DEF ReleaseOK, SelectDaqSRAM
<1>5. StreamOK'
  BY Parity, TwoMemories DEF TypeOK, I2cPoints, CallOK, RunOK, ReleaseOK, SelectDaqSRAM, StreamOK,
       InRun, Ahead, Unread, Holds
<1>6. EventsOK'
  BY DEF EventsOK
<1>7. BlocksInTurn'
  BY DEF BlocksInTurn
<1>8. EventsAreFresh'
  BY DEF EventsAreFresh
<1> QED
  BY <1>1, <1>2, <1>3, <1>4, <1>5, <1>6, <1>7, <1>8

(* Stop() ends the run.                                                    *)
LEMMA StopStep ==
    ASSUME IInv, GlibStop \/ CtaStop
    PROVE  IInv'
<1> USE DEF IInv, GlibStop, CtaStop, EndRun, Enter, ConfigOff, NoResult, memories, registers, i2c,
     counters, calling, history
<1>1. TypeOK'
  BY DEF TypeOK, I2cPoints, Sram, Other
<1>2. CallOK'
  BY DEF CallOK, I2cPoints
<1>3. RunOK'
  BY DEF RunOK, I2cPoints
<1>4. ReleaseOK'
  <2>1. endReadout' \in [Sram -> BOOLEAN] /\ \A m \in Sram : ~endReadout'[m]
    BY DEF ReleaseOK, CallOK
  <2>2. QED
    BY <2>1 DEF ReleaseOK
<1>5. StreamOK'
  BY DEF StreamOK, InRun, Ahead, Unread, Holds, SelectDaqSRAM
<1>6. EventsOK'
  BY DEF EventsOK
<1>7. BlocksInTurn'
  BY DEF BlocksInTurn
<1>8. EventsAreFresh'
  BY DEF EventsAreFresh
<1> QED
  BY <1>1, <1>2, <1>3, <1>4, <1>5, <1>6, <1>7, <1>8

(* Pause() breaks the triggers; on the CTA a block that waits spoils the run. *)
LEMMA PauseStep ==
    ASSUME IInv, GlibPause \/ CtaPause
    PROVE  IInv'
<1> USE DEF IInv, GlibPause, CtaPause, Break, Enter, NoResult, memories, registers, i2c, counters,
     calling, history
<1>1. TypeOK'
  BY DEF TypeOK, I2cPoints
<1>2. CallOK'
  BY DEF CallOK, I2cPoints
<1>3. RunOK'
  BY DEF RunOK, I2cPoints
<1>4. ReleaseOK'
  BY DEF ReleaseOK, SelectDaqSRAM
<1>5. StreamOK'
  <2>1. InRun' => InRun
    BY DEF TypeOK, CallOK, RunOK, InRun, I2cPoints
  <2>2. ASSUME InRun' PROVE StreamOK'
    <3>1. pc = "idle" /\ pc' = "idle" /\ InRun
      BY <2>1, <2>2
    <3>2. \A m \in Sram : Unread(m) <=> full[m]
      BY <3>1 DEF Unread, TypeOK
    <3>3. \A m \in Sram : full[m] /\ mem[m].n # packet =>
             m = SelectDaqSRAM /\ board = "CTA" /\ breakTrigger = "cut" /\ fJustPaused
      BY <3>1, <3>2 DEF StreamOK
    <3>4. \A m \in Sram : full[m] /\ mem[m].n # packet =>
             m = SelectDaqSRAM /\ board = "CTA" /\ breakTrigger' = "cut" /\ fJustPaused'
      BY <3>3, <2>2 DEF InRun, TypeOK
    <3>5. board = "CTA" /\ breakTrigger' = "on" =>
             fJustPaused' /\ \A m \in Sram : ~full[m]
      BY <2>2 DEF InRun
    <3>6. QED
      BY <3>1, <3>4, <3>5, BreakKept
  <2>3. QED
    BY <2>2 DEF StreamOK
<1>6. EventsOK'
  BY DEF EventsOK
<1>7. BlocksInTurn'
  BY DEF BlocksInTurn
<1>8. EventsAreFresh'
  BY DEF EventsAreFresh
<1> QED
  BY <1>1, <1>2, <1>3, <1>4, <1>5, <1>6, <1>7, <1>8

(* Resume() lets the triggers through again.                               *)
LEMMA ResumeStep ==
    ASSUME IInv, GlibResume \/ CtaResume
    PROVE  IInv'
<1> USE DEF IInv, GlibResume, CtaResume, Break, Enter, NoResult, memories, registers, i2c,
     counters, calling, history
<1>1. TypeOK'
  BY DEF TypeOK, I2cPoints
<1>2. CallOK'
  BY DEF CallOK, I2cPoints
<1>3. RunOK'
  BY DEF RunOK, I2cPoints
<1>4. ReleaseOK'
  BY DEF ReleaseOK, SelectDaqSRAM
<1>5. StreamOK'
  <2>1. InRun' => InRun
    BY DEF TypeOK, CallOK, RunOK, InRun, I2cPoints
  <2>2. ASSUME InRun' PROVE StreamOK'
    <3>1. pc = "idle" /\ pc' = "idle" /\ InRun
      BY <2>1, <2>2
    <3>2. \A m \in Sram : Unread(m) <=> full[m]
      BY <3>1 DEF Unread, TypeOK
    <3>3. \A m \in Sram : full[m] /\ mem[m].n # packet =>
             m = SelectDaqSRAM /\ board = "CTA" /\ breakTrigger = "cut" /\ fJustPaused
      BY <3>1, <3>2 DEF StreamOK
    <3>4. \A m \in Sram : full[m] /\ mem[m].n # packet =>
             m = SelectDaqSRAM /\ board = "CTA" /\ breakTrigger' = "cut" /\ fJustPaused'
      BY <3>3, <2>2 DEF InRun, TypeOK
    <3>5. board = "CTA" /\ breakTrigger' = "on" =>
             fJustPaused' /\ \A m \in Sram : ~full[m]
      BY <2>2 DEF InRun
    <3>6. QED
      BY <3>1, <3>4, <3>5, BreakKept
  <2>3. QED
    BY <2>2 DEF StreamOK
<1>6. EventsOK'
  BY DEF EventsOK
<1>7. BlocksInTurn'
  BY DEF BlocksInTurn
<1>8. EventsAreFresh'
  BY DEF EventsAreFresh
<1> QED
  BY <1>1, <1>2, <1>3, <1>4, <1>5, <1>6, <1>7, <1>8

(* ReadData() is called.                                                   *)
LEMMA CallReadDataStep ==
    ASSUME NEW pWait \in BOOLEAN, IInv, CallReadData(pWait)
    PROVE  IInv'
<1> USE DEF IInv, CallReadData, Enter, NoResult, memories, registers, i2c, counters, calling,
     history
<1>1. TypeOK'
  BY DEF TypeOK, I2cPoints
<1>2. CallOK'
  BY DEF CallOK, I2cPoints
<1>3. RunOK'
  BY DEF RunOK, I2cPoints
<1>4. ReleaseOK'
  BY DEF ReleaseOK, SelectDaqSRAM
<1>5. StreamOK'
  BY DEF RunOK, StreamOK, InRun, Ahead, Unread, Holds, SelectDaqSRAM
<1>6. EventsOK'
  BY DEF EventsOK
<1>7. BlocksInTurn'
  BY DEF BlocksInTurn
<1>8. EventsAreFresh'
  BY DEF EventsAreFresh
<1> QED
  BY <1>1, <1>2, <1>3, <1>4, <1>5, <1>6, <1>7, <1>8

(* ReadNEvents() begins a run of its own, or spoils the one there is.      *)
LEMMA CallReadNEventsStep ==
    ASSUME NEW n \in NEvents, IInv, CallReadNEvents(n)
    PROVE  IInv'
<1> USE DEF IInv, CallReadNEvents, Enter, ConfigOn, NoResult, SramAssumption, memories, registers,
     i2c, counters, calling, history
<1>1. TypeOK'
  BY SramAssumption DEF TypeOK, I2cPoints, SramAssumption
<1>2. CallOK'
  BY DEF CallOK, I2cPoints
<1>3. RunOK'
  BY DEF RunOK, I2cPoints
<1>4. ReleaseOK'
  BY DEF ReleaseOK, SelectDaqSRAM
<1>5. StreamOK'
  BY DEF StreamOK, InRun, Ahead, Unread, Holds, SelectDaqSRAM
<1>6. EventsOK'
  BY DEF RunOK, EventsOK
<1>7. BlocksInTurn'
  BY DEF BlocksInTurn
<1>8. EventsAreFresh'
  BY DEF EventsAreFresh
<1> QED
  BY <1>1, <1>2, <1>3, <1>4, <1>5, <1>6, <1>7, <1>8

(* The start is seen, or ReadData() comes back without a block.            *)
LEMMA WaitStep ==
    ASSUME IInv, Acknowledged \/ NotFull
    PROVE  IInv'
<1> USE DEF IInv, Acknowledged, NotFull, memories, registers, i2c, counters, calling, history
<1>1. TypeOK'
  BY DEF TypeOK, I2cPoints
<1>2. CallOK'
  BY DEF CallOK, I2cPoints
<1>3. RunOK'
  BY DEF RunOK, I2cPoints
<1>4. ReleaseOK'
  BY DEF ReleaseOK, SelectDaqSRAM
<1>5. StreamOK'
  <2>1. InRun' => InRun
    BY DEF TypeOK, CallOK, RunOK, InRun, I2cPoints
  <2>2. QED
    BY <2>1, StreamKept
<1>6. EventsOK'
  BY DEF EventsOK
<1>7. BlocksInTurn'
  BY DEF CallOK, BlocksInTurn
<1>8. EventsAreFresh'
  BY DEF EventsAreFresh
<1> QED
  BY <1>1, <1>2, <1>3, <1>4, <1>5, <1>6, <1>7, <1>8

(* ReadData() reads the next block; the other memory becomes the next one. *)
LEMMA ReadDataStep ==
    ASSUME NEW count, IInv, BlockFull(SelectDaqSRAM), Take(SelectDaqSRAM, count),
           fNthAcq' = fNthAcq + 1, fJustPaused' \in BOOLEAN,
           \/ board = "GLIB" /\ count = fNpackets
           \/ board = "CTA" /\ count = fNpackets -
                  (IF fJustPaused THEN packet - mem[SelectDaqSRAM].n ELSE 0)
    PROVE  IInv'
<1> USE DEF IInv, BlockFull, Take, memories, registers, i2c, counters, calling, history
<1>1. TypeOK'
  BY DEF TypeOK
<1>2. CallOK'
  BY DEF TypeOK, CallOK, I2cPoints
<1>3. RunOK'
  BY DEF RunOK, I2cPoints
<1>4. ReleaseOK'
  <2>1. PICK next \in Sram, last \in Sram :
           /\ next = SelectDaqSRAM /\ last = Other(SelectDaqSRAM) /\ next # last
           /\ \A m \in Sram : m = next \/ m = last
           /\ SelectDaqSRAM' = last /\ Other(SelectDaqSRAM)' = next
    BY Parity, TwoMemories DEF TypeOK, SelectDaqSRAM
  <2>2. \A m \in Sram : ~endReadout[m]
    BY DEF ReleaseOK
  <2> QED
    BY <2>1, <2>2 DEF ReleaseOK
<1>5. StreamOK'
  <2> SUFFICES ASSUME InRun PROVE StreamOK'
    BY DEF StreamOK, InRun
  <2>1. PICK next \in Sram, last \in Sram :
           /\ next = SelectDaqSRAM /\ last = Other(SelectDaqSRAM) /\ next # last
           /\ \A m \in Sram : m = next \/ m = last
           /\ SelectDaqSRAM' = last /\ Other(SelectDaqSRAM)' = next
    BY Parity, TwoMemories DEF TypeOK, SelectDaqSRAM
  <2>2. Ahead' = Ahead - 1 /\ Ahead \in Int
    BY DEF Ahead, TypeOK
  <2>3. \A m \in Sram : (Unread(m) <=> full[m]) /\ (Unread(m)' <=> full[m] /\ m = last)
    BY <2>1 DEF Unread, TypeOK
  <2>8. Ahead \in 1 .. 2
    BY <2>1, <2>2, <2>3 DEF StreamOK
  <2>4. Ahead \in 1 .. 2 /\ (Unread(last)' <=> Ahead = 2) /\ ~Unread(next)'
    BY <2>1, <2>3, <2>8 DEF StreamOK
  <2>5. Unread(last)' => Holds(last, fNthAcq + 1)'
    BY <2>1, <2>3 DEF StreamOK, Holds, TypeOK
  <2>6. board = "CTA" /\ breakTrigger = "on" => FALSE
    BY <2>1 DEF StreamOK
  <2>7. \A m \in Sram : Unread(m)' => Unread(m) /\ m = last
    BY <2>3
  <2> QED
    BY <2>1, <2>2, <2>4, <2>5, <2>6, <2>7 DEF StreamOK, TypeOK
<1>6. EventsOK'
  BY DEF EventsOK
<1>7. BlocksInTurn'
  BY Parity, TwoMemories DEF TypeOK, I2cPoints, CallOK, RunOK, StreamOK, InRun, Ahead, Unread,
       Holds, SelectDaqSRAM, BlocksInTurn
<1>8. EventsAreFresh'
  BY DEF EventsAreFresh
<1> QED
  BY <1>1, <1>2, <1>3, <1>4, <1>5, <1>6, <1>7, <1>8

(* The memory that was read is empty: the block is taken.                  *)
LEMMA EmptiedStep ==
    ASSUME IInv, Emptied
    PROVE  IInv'
<1> USE DEF IInv, Emptied, memories, registers, i2c, counters, calling, history
<1>1. TypeOK'
  BY DEF TypeOK, I2cPoints
<1>2. CallOK'
  BY DEF CallOK, I2cPoints
<1>3. RunOK'
  BY DEF CallOK, RunOK, I2cPoints
<1>4. ReleaseOK'
  BY Parity, TwoMemories DEF TypeOK, I2cPoints, CallOK, RunOK, ReleaseOK, SelectDaqSRAM
<1>5. StreamOK'
  BY Parity, TwoMemories DEF TypeOK, I2cPoints, CallOK, RunOK, ReleaseOK, SelectDaqSRAM, StreamOK,
       InRun, Ahead, Unread, Holds
<1>6. EventsOK'
  BY DEF EventsOK
<1>7. BlocksInTurn'
  BY DEF BlocksInTurn
<1>8. EventsAreFresh'
  BY DEF CallOK, EventsAreFresh
<1> QED
  BY <1>1, <1>2, <1>3, <1>4, <1>5, <1>6, <1>7, <1>8

(* ReadNEvents() reads a block, and its run ends.                          *)
LEMMA ReadNEventsStep ==
    ASSUME IInv, GlibReadNEvents \/ CtaReadNEvents
    PROVE  IInv'
<1> USE DEF IInv, GlibReadNEvents, CtaReadNEvents, EventsFull, ConfigOff, memories, registers,
     i2c, counters, calling, history
<1>1. TypeOK'
  <2>1. full' \in [Sram -> BOOLEAN] /\ turn' \in Sram
    BY DEF Sram
  <2>2. /\ board' \in {"GLIB", "CTA"} /\ DOMAIN mem' = Sram /\ filled' \in Nat /\ run' \in Nat /\ taken' \in Nat
        /\ fJustPaused' \in BOOLEAN /\ spoilt' \in BOOLEAN
    BY DEF TypeOK
  <2>3. configOk' = FALSE /\ startValid' = FALSE /\ breakTrigger' \in {"off", "on"} /\ pc' = "idle"
    OBVIOUS
  <2>4. packet' \in Nat /\ fNpackets' \in Nat /\ fNthAcq' \in Nat
    BY DEF TypeOK
  <2> QED
    BY <2>1, <2>2, <2>3, <2>4 DEF TypeOK
<1>2. CallOK'
  BY DEF CallOK, I2cPoints
<1>3. RunOK'
  BY DEF RunOK, I2cPoints
<1>4. ReleaseOK'
  BY DEF ReleaseOK, SelectDaqSRAM
<1>5. StreamOK'
  BY DEF StreamOK, InRun, Ahead, Unread, Holds, SelectDaqSRAM
<1>6. EventsOK'
  BY DEF EventsOK
<1>7. BlocksInTurn'
  BY DEF BlocksInTurn
<1>8. EventsAreFresh'
  <2>1. SelectDaqSRAM \in Sram
    BY Parity DEF TypeOK, SelectDaqSRAM
  <2> QED
    BY <2>1 DEF TypeOK, RunOK, EventsOK, EventsAreFresh
<1> QED
  BY <1>1, <1>2, <1>3, <1>4, <1>5, <1>6, <1>7, <1>8

(* An I2C call; on the GLIB it spoils the run.                             *)
LEMMA CallI2cStep ==
    ASSUME NEW op \in {"Write", "Verify", "Read"}, IInv, CallI2c(op)
    PROVE  IInv'
<1> USE DEF IInv, CallI2c, Enter, NoResult, memories, registers, i2c, counters, calling, history
<1>1. TypeOK'
  BY DEF TypeOK, I2cPoints
<1>2. CallOK'
  BY DEF CallOK, I2cPoints
<1>3. RunOK'
  BY DEF RunOK, I2cPoints
<1>4. ReleaseOK'
  BY DEF ReleaseOK, SelectDaqSRAM
<1>5. StreamOK'
  BY DEF RunOK, StreamOK, InRun, Ahead, Unread, Holds, SelectDaqSRAM
<1>6. EventsOK'
  BY DEF EventsOK
<1>7. BlocksInTurn'
  BY DEF BlocksInTurn
<1>8. EventsAreFresh'
  BY DEF EventsAreFresh
<1> QED
  BY <1>1, <1>2, <1>3, <1>4, <1>5, <1>6, <1>7, <1>8

(* Words go to the I2C master, on the GLIB through the first memory.       *)
LEMMA WriteI2CStep ==
    ASSUME IInv, GlibWriteI2C \/ CtaWriteI2C
    PROVE  IInv'
<1> USE DEF IInv, GlibWriteI2C, CtaWriteI2C, Request, memories, registers, i2c, counters, calling,
     history
<1>1. TypeOK'
  BY DEF TypeOK, I2cPoints
<1>2. CallOK'
  BY DEF CallOK, I2cPoints
<1>3. RunOK'
  BY DEF RunOK, I2cPoints
<1>4. ReleaseOK'
  BY DEF ReleaseOK, SelectDaqSRAM
<1>5. StreamOK'
  <2>1. CASE board = "GLIB"
    BY <2>1 DEF RunOK, StreamOK, InRun, I2cPoints
  <2>2. CASE board = "CTA"
    BY <2>2, StreamKept DEF InRun
  <2>3. QED
    BY <2>1, <2>2 DEF TypeOK
<1>6. EventsOK'
  BY DEF TypeOK, CallOK, RunOK, EventsOK
<1>7. BlocksInTurn'
  BY DEF BlocksInTurn
<1>8. EventsAreFresh'
  BY DEF EventsAreFresh
<1> QED
  BY <1>1, <1>2, <1>3, <1>4, <1>5, <1>6, <1>7, <1>8

(* The waits of the I2C calls, and their ends.                             *)
LEMMA I2cWaitStep ==
    ASSUME IInv, I2cAcked \/ I2cReleased \/ GlibI2cCmdAckWait \/ CtaI2cCmdAckWait
    PROVE  IInv'
<1> USE DEF IInv, I2cAcked, I2cReleased, GlibI2cCmdAckWait, CtaI2cCmdAckWait, TimeOut, memories,
     registers, i2c, counters, calling, history
<1>1. TypeOK'
  BY DEF TypeOK, I2cPoints
<1>2. CallOK'
  BY DEF CallOK, I2cPoints
<1>3. RunOK'
  BY DEF CallOK, RunOK, I2cPoints
<1>4. ReleaseOK'
  BY DEF ReleaseOK, SelectDaqSRAM
<1>5. StreamOK'
  <2>1. InRun' => InRun
    BY DEF TypeOK, CallOK, RunOK, InRun, I2cPoints
  <2>2. QED
    BY <2>1, StreamKept
<1>6. EventsOK'
  BY DEF EventsOK
<1>7. BlocksInTurn'
  BY DEF TypeOK, CallOK, RunOK, BlocksInTurn
<1>8. EventsAreFresh'
  BY DEF TypeOK, CallOK, RunOK, EventsAreFresh
<1> QED
  BY <1>1, <1>2, <1>3, <1>4, <1>5, <1>6, <1>7, <1>8

(* The replies are read.                                                   *)
LEMMA ReadI2CStep ==
    ASSUME IInv, GlibReadI2C \/ CtaReadI2C
    PROVE  IInv'
<1> USE DEF IInv, GlibReadI2C, CtaReadI2C, Replies, memories, registers, i2c, counters, calling,
     history
<1>1. TypeOK'
  BY DEF TypeOK, I2cPoints
<1>2. CallOK'
  BY DEF CallOK, I2cPoints
<1>3. RunOK'
  BY DEF CallOK, RunOK, I2cPoints
<1>4. ReleaseOK'
  BY DEF ReleaseOK, SelectDaqSRAM
<1>5. StreamOK'
  <2>1. InRun' => InRun
    BY DEF TypeOK, CallOK, RunOK, InRun, I2cPoints
  <2>2. QED
    BY <2>1, StreamKept
<1>6. EventsOK'
  BY DEF EventsOK
<1>7. BlocksInTurn'
  BY DEF TypeOK, CallOK, RunOK, BlocksInTurn
<1>8. EventsAreFresh'
  BY DEF TypeOK, CallOK, RunOK, EventsAreFresh
<1> QED
  BY <1>1, <1>2, <1>3, <1>4, <1>5, <1>6, <1>7, <1>8

(* The replies are compared, and the call retries or ends.                 *)
LEMMA CompareStep ==
    ASSUME IInv, GlibWriteCbcBlockReg \/ CtaWriteCbcBlockReg
    PROVE  IInv'
<1> USE DEF IInv, GlibWriteCbcBlockReg, CtaWriteCbcBlockReg, Compare, memories, registers, i2c,
     counters, calling, history
<1>1. TypeOK'
  BY DEF TypeOK, I2cPoints
<1>2. CallOK'
  BY DEF CallOK, I2cPoints
<1>3. RunOK'
  BY DEF CallOK, RunOK, I2cPoints
<1>4. ReleaseOK'
  BY DEF ReleaseOK, SelectDaqSRAM
<1>5. StreamOK'
  <2>1. InRun' => InRun
    BY DEF TypeOK, CallOK, RunOK, InRun, I2cPoints
  <2>2. QED
    BY <2>1, StreamKept
<1>6. EventsOK'
  BY DEF EventsOK
<1>7. BlocksInTurn'
  BY DEF TypeOK, CallOK, RunOK, BlocksInTurn
<1>8. EventsAreFresh'
  BY DEF TypeOK, CallOK, RunOK, EventsAreFresh
<1> QED
  BY <1>1, <1>2, <1>3, <1>4, <1>5, <1>6, <1>7, <1>8

-----------------------------------------------------------------------------
(* The invariant is inductive: whatever the firmware and the calls do, in  *)
(* whatever order, the software's counter, the firmware's turn and the     *)
(* memories stay in step.                                                  *)
THEOREM Invariance == Spec => []IInv
<1>1. ASSUME IInv, [Next]_vars PROVE IInv'
  <2>1. CASE Firmware
    <3>1. CASE FillPacket
      BY <1>1, <3>1, FillStep DEF FillPacket, IInv, TypeOK
    <3>2. CASE FillPartial
      <4>1. PICK n \in 1 .. packet - 1 : Fill(n)
        BY <3>2 DEF FillPartial
      <4>2. n \in Nat
        BY <1>1 DEF IInv, TypeOK
      <4>3. QED
        BY <1>1, <3>2, <4>1, <4>2, FillStep DEF FillPartial
    <3>3. QED
      BY <1>1, <2>1, <3>1, <3>2, StartAcknowledgeStep, I2cExecuteStep, I2cReleaseStep,
         ReleaseStep DEF Firmware
  <2>2. CASE RunControl
    BY <1>1, <2>2, ConfigureStep, StartStep, StopStep, PauseStep, ResumeStep DEF RunControl
  <2>3. CASE ReadCalls
    BY <1>1, <2>3, CallReadDataStep, CallReadNEventsStep DEF ReadCalls
  <2>4. CASE I2cCalls
    BY <1>1, <2>4, CallI2cStep DEF I2cCalls
  <2>5. CASE ReadStep
    <3>1. CASE GlibReadData
      BY <1>1, <3>1, ReadDataStep DEF GlibReadData, IInv, TypeOK
    <3>2. CASE CtaReadData
      BY <1>1, <3>2, ReadDataStep DEF CtaReadData
    <3>3. QED
      BY <1>1, <2>5, <3>1, <3>2, WaitStep, EmptiedStep, ReadNEventsStep DEF ReadStep
  <2>6. CASE I2cStep
    BY <1>1, <2>6, WriteI2CStep, I2cWaitStep, ReadI2CStep, CompareStep DEF I2cStep
  <2>7. CASE UNCHANGED vars
    BY <1>1, <2>7 DEF vars, memories, registers, i2c, calling, counters, history, IInv, TypeOK,
       CallOK, RunOK, ReleaseOK, StreamOK, InRun, Ahead, Unread, Holds, SelectDaqSRAM, EventsOK,
       BlocksInTurn, EventsAreFresh
  <2>8. QED
    BY <1>1, <2>1, <2>2, <2>3, <2>4, <2>5, <2>6, <2>7 DEF Next
<1>2. QED
  BY Initially, <1>1, PTL DEF Spec

(* The counters of blocks and events never become negative, and every      *)
(* variable keeps its type.                                                *)
THEOREM TypeCorrect == Spec => []TypeOK
<1>1. IInv => TypeOK
  BY DEF IInv
<1>2. QED
  BY <1>1, Invariance, PTL

(* Over any number of calls and runs ReadData() returns the blocks of the  *)
(* run in the order in which they were filled, none twice and none left    *)
(* out, each with its number of events.                                    *)
THEOREM ReadsInTurn == Spec => []BlocksInTurn
<1>1. IInv => BlocksInTurn
  BY DEF IInv
<1>2. QED
  BY <1>1, Invariance, PTL

(* ReadNEvents() outside a run returns a block that was filled after it    *)
(* was called, with the events it was asked for.                           *)
THEOREM ReadsFreshEvents == Spec => []EventsAreFresh
<1>1. IInv => EventsAreFresh
  BY DEF IInv
<1>2. QED
  BY <1>1, Invariance, PTL
=============================================================================
