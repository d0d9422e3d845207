---------------------------- MODULE D19cReadout ----------------------------
(***************************************************************************)
(* Ph2_ACF/HWInterface/D19cFWInterface: reading events from an FC7 board.  *)
(* The software polls registers of a firmware that runs on its own: a      *)
(* trigger state machine accepts triggers, an event builder writes the     *)
(* events into the readout FIFO, and ReadData() and ReadNEvents() drain it *)
(* and hand every block to the file handler and to their caller.           *)
(*                                                                         *)
(* A word is known by its event and by its place in the event, place 0     *)
(* being header 1, which carries the event's size.  Each register access   *)
(* the code makes while the firmware runs is a step of its own.  The board *)
(* saves to file (fSaveToFile), is read through the FIFO and not through   *)
(* the DDR3 memory, and its callers pass a fresh vector, as those of this  *)
(* repository do.                                                          *)
(***************************************************************************)
EXTENDS Integers, Sequences, SequencesExt

CONSTANTS EventSize,   (* words of an event, computeEventSize()            *)
          Boards,      (* the boards considered                            *)
          Ops,         (* the calls the run control makes                  *)
          NEvents,     (* the values of pNEvents                           *)
          cNTriesMax,  (* polls before the trigger state machine is asked  *)
          MaxLost,     (* bound: accepted triggers that leave no event     *)
          FifoDepth,   (* bound: words the firmware holds                  *)
          MaxEvents,   (* bound: events built                              *)
          MaxRestarts, (* bound: depth of the recursion after failures     *)
          MaxCalls     (* bound: calls of the run control                  *)

\* A board: its event type, unsparsified or zero suppressed, packet_nbr and
\* data_handshake_enable of its configuration file, and what is not known of
\* its firmware: whether words_cnt may count part of an event, and whether
\* the builder waits while a complete package is not read, as the handshake
\* of the code expects.
Board == [type : {"VR", "ZS"}, packetNbr : Nat, handshake : BOOLEAN,
          streamed : BOOLEAN, holds : BOOLEAN]

Reads  == {"ReadData", "ReadNEvents"}
Starts == {"Start", "Resume"}
Stops  == {"Stop", "Pause"}

ASSUME ReadoutAssumption ==
    /\ EventSize \in Nat \ {0, 1} /\ Boards \subseteq Board
    /\ Ops \subseteq Reads \cup Starts \cup Stops
    /\ NEvents \subseteq Nat \ {0} /\ cNTriesMax \in Nat \ {0}
    /\ {MaxLost, FifoDepth, MaxEvents, MaxRestarts, MaxCalls} \subseteq Nat

\* ReadData() takes a zero-suppressed package to hold packet_nbr + 1 events,
\* whatever words_cnt is: its firmware must not build on.
ASSUME PackageAssumption ==
    \A b \in Boards : b.type = "ZS" /\ b.handshake => b.holds

VARIABLES
    board,      (* the board, the same throughout                        *)
    fifo,       (* readout FIFO                                           *)
    nextEvent,  (* number of the event being built, or of the next one    *)
    built,      (* words of that event already in the FIFO                *)
    pending,    (* accepted triggers whose event is not completely built  *)
    lost,       (* accepted triggers that left no event                   *)
    fsm,        (* the trigger state machine runs                         *)
    left,       (* triggers it still accepts, 0 when there is no limit    *)
    config,     (* packet_nbr, data_handshake_enable, triggers_to_accept  *)
    pc,         (* control point of the software                          *)
    call,       (* the call under way, or the last one                    *)
    calls,      (* calls made                                             *)
    cNWords,    (* the software's copy of words_cnt                       *)
    cNTries,    (* polls since the state machine was last asked           *)
    event,      (* loop counter of ReadNEvents()                          *)
    header1,    (* the header word last popped                            *)
    cEventSize, (* the size found in it                                   *)
    cNEvents,   (* what ReadData() will return                            *)
    pFailed,    (* the package was not a whole number of events           *)
    pData,      (* the caller's vector                                    *)
    depth,      (* outer frames of the recursion                          *)
    last,       (* history: what the last call gave to its caller         *)
    returned,   (* history: the words given to callers, in order          *)
    log         (* history: the words given to the file handler, in order *)

builderVars == <<fifo, nextEvent, built, pending>>
triggerVars == <<lost, fsm, left>>
firmware    == <<board, builderVars, triggerVars, config>>
pollVars    == <<cNWords, cNTries, event, header1, cEventSize>>
resultVars  == <<cNEvents, pFailed, pData, depth>>
history     == <<last, returned, log>>
callVars    == <<call, calls>>
vars == <<firmware, pc, callVars, pollVars, resultVars, history>>

\* What a FIFO gives when it is read while it is empty.
Underrun == [ev |-> 0, ix |-> EventSize]
Word == [ev : Nat \ {0}, ix : 0 .. EventSize - 1] \cup {Underrun}

Before(v, w) == v.ev < w.ev \/ (v.ev = w.ev /\ v.ix < w.ix)

\* The block read of k words, and what it leaves in the FIFO.
ReadBlock(k)  == [i \in 1 .. k |-> IF i <= Len(fifo) THEN fifo[i] ELSE Underrun]
FifoAfter(k) == SubSeq(fifo, k + 1, Len(fifo))

ReadoutReq == /\ config.handshake
              /\ Len(fifo) >= (config.packetNbr + 1) * EventSize

-----------------------------------------------------------------------------
Call(op, n, wait) == [op |-> op, n |-> n, wait |-> wait]
NoResult == [call |-> Call("Stop", 0, TRUE), count |-> 0, data |-> <<>>]

Init ==
    /\ board \in Boards
    /\ fifo = <<>> /\ nextEvent = 1 /\ built = 0 /\ pending = 0
    /\ lost = 0 /\ fsm = FALSE /\ left = 0
    /\ config = [packetNbr |-> board.packetNbr, handshake |-> board.handshake,
                 accept |-> 0]
    /\ pc = "idle" /\ call = NoResult.call /\ calls = 0
    /\ cNWords = 0 /\ cNTries = 0 /\ event = 0 /\ header1 = Underrun
    /\ cEventSize = 0 /\ cNEvents = 0 /\ pFailed = FALSE /\ pData = <<>>
    /\ depth = 0 /\ last = NoResult /\ returned = <<>> /\ log = <<>>

(***************************************************************************)
(* The firmware.                                                           *)
(***************************************************************************)
\* The state machine counts a trigger and stops after the last one it was
\* told to accept.
AcceptTrigger ==
    /\ fsm
    /\ left' = IF left = 0 THEN 0 ELSE left - 1
    /\ fsm' = (left # 1)

Trigger ==
    /\ AcceptTrigger
    /\ EventSize * (pending + 1) + Len(fifo) <= FifoDepth
    /\ nextEvent + pending <= MaxEvents
    /\ pending' = pending + 1
    /\ UNCHANGED <<board, fifo, nextEvent, built, lost, config, pc, callVars,
                   pollVars, resultVars, history>>

LoseTrigger ==
    /\ lost < MaxLost
    /\ AcceptTrigger
    /\ lost' = lost + 1
    /\ UNCHANGED <<board, builderVars, config, pc, callVars, pollVars, resultVars,
                   history>>

\* The builder writes the next words of the oldest pending event.
Build ==
    /\ pending > 0
    /\ ~(board.holds /\ ReadoutReq)
    /\ LET k == IF board.streamed THEN 1 ELSE EventSize IN
       /\ fifo' = fifo \o [i \in 1 .. k |-> [ev |-> nextEvent, ix |-> built + i - 1]]
       /\ IF built + k = EventSize
          THEN /\ nextEvent' = nextEvent + 1 /\ built' = 0
               /\ pending' = pending - 1
          ELSE built' = built + k /\ UNCHANGED <<nextEvent, pending>>
    /\ UNCHANGED <<board, triggerVars, config, pc, callVars, pollVars, resultVars,
                   history>>

-----------------------------------------------------------------------------
(***************************************************************************)
(* Start(), Stop(), Pause() and Resume().                                  *)
(***************************************************************************)
Enter(op, n, wait, point) ==
    /\ pc = "idle" /\ op \in Ops /\ calls < MaxCalls
    /\ calls' = calls + 1
    /\ call' = Call(op, n, wait)
    /\ pc' = point

CallStart ==
    /\ \E op \in Starts : Enter(op, 0, TRUE, "reset")
    /\ UNCHANGED <<firmware, pollVars, resultVars, history>>

StopTrigger == fsm' = FALSE

CallStop ==
    /\ \E op \in Stops : Enter(op, 0, TRUE, "idle")
    /\ StopTrigger
    /\ UNCHANGED <<board, builderVars, lost, left, config, pollVars, resultVars,
                   history>>

\* readout_reset: the FIFO and the events under construction are dropped.
ClearReadout ==
    /\ fifo' = <<>> /\ pending' = 0 /\ built' = 0
    /\ nextEvent' = IF built = 0 THEN nextEvent ELSE nextEvent + 1

ResetReadout ==
    /\ pc = "reset"
    /\ ClearReadout
    /\ pc' = "start"
    /\ UNCHANGED <<board, triggerVars, config, callVars, pollVars, resultVars, history>>

StartTrigger ==
    /\ pc = "start"
    /\ fsm' = TRUE /\ left' = config.accept
    /\ pc' = CASE call.op \in Starts      -> "idle"
               [] call.op = "ReadNEvents" -> "event"
               [] OTHER                   -> "words"
    /\ event' = 0
    /\ UNCHANGED <<board, builderVars, lost, config, callVars, cNWords, cNTries,
                   header1, cEventSize, resultVars, history>>

-----------------------------------------------------------------------------
(***************************************************************************)
(* ReadNEvents().                                                          *)
(***************************************************************************)
CallReadNEvents ==
    /\ \E n \in NEvents : Enter("ReadNEvents", n, TRUE, "configure")
    /\ pData' = <<>>
    /\ UNCHANGED <<firmware, pollVars, cNEvents, pFailed, depth, history>>

Configure ==
    /\ pc = "configure"
    /\ config' = [packetNbr |-> 0, handshake |-> FALSE, accept |-> call.n]
    /\ pc' = "reset"
    /\ UNCHANGED <<board, builderVars, triggerVars, callVars, pollVars, resultVars,
                   history>>

\* The test of the for loop and the first look at words_cnt.
NextEvent ==
    /\ pc = "event"
    /\ IF event < call.n
       THEN pc' = "poll" /\ cNWords' = Len(fifo) /\ cNTries' = 0
       ELSE pc' = "save" /\ UNCHANGED <<cNWords, cNTries>>
    /\ UNCHANGED <<firmware, callVars, event, header1, cEventSize, resultVars,
                   history>>

PollWords ==
    /\ pc = "poll" /\ cNWords < 1 /\ cNTries < cNTriesMax
    /\ cNWords' = Len(fifo)
    /\ cNTries' = cNTries + 1
    /\ UNCHANGED <<firmware, pc, callVars, event, header1, cEventSize,
                   resultVars, history>>

\* Faulty variant: the code goes on polling whatever the state machine says.
CheckFsm_NeverFails ==
    /\ pc = "poll" /\ cNWords < 1 /\ cNTries >= cNTriesMax
    /\ cNTries' = 0
    /\ UNCHANGED <<firmware, pc, callVars, cNWords, event, header1, cEventSize,
                   resultVars, history>>

\* No data after so many polls: either more triggers may come, or they are
\* all accepted and an event is missing.
CheckFsm ==
    /\ pc = "poll" /\ cNWords < 1 /\ cNTries >= cNTriesMax
    /\ IF fsm THEN cNTries' = 0 /\ UNCHANGED pc
              ELSE pc' = "failed" /\ UNCHANGED cNTries
    /\ UNCHANGED <<firmware, callVars, cNWords, event, header1, cEventSize,
                   resultVars, history>>

\* The low half of a header is the event's size; a word that is no header
\* may hold anything there.
SizeField(w) == IF w.ix = 0 THEN {EventSize} ELSE 0 .. EventSize

ReadHeader ==
    /\ pc = "poll" /\ cNWords >= 1
    /\ header1' = ReadBlock(1)[1] /\ fifo' = FifoAfter(1)
    /\ cEventSize' \in SizeField(header1')
    /\ pc' = "rest"
    /\ UNCHANGED <<board, nextEvent, built, pending, triggerVars, config, callVars,
                   cNWords, cNTries, event, resultVars, history>>

\* cEventSize - 1 is unsigned: for a size of 0 no count is large enough.
RestPresent == cEventSize # 0 /\ cNWords >= cEventSize - 1

WaitRest ==
    /\ pc = "rest" /\ ~RestPresent
    /\ cNWords' = Len(fifo)
    /\ UNCHANGED <<firmware, pc, callVars, cNTries, event, header1, cEventSize,
                   resultVars, history>>

\* Faulty variant: the rest of the event is stored before its header.
ReadRest_HeaderLast ==
    /\ pc = "rest" /\ RestPresent
    /\ pData' = (pData \o ReadBlock(cEventSize - 1)) \o <<header1>>
    /\ fifo' = FifoAfter(cEventSize - 1)
    /\ event' = event + 1
    /\ pc' = "event"
    /\ UNCHANGED <<board, nextEvent, built, pending, triggerVars, config, callVars,
                   cNWords, cNTries, header1, cEventSize, cNEvents, pFailed,
                   depth, history>>

ReadRest ==
    /\ pc = "rest" /\ RestPresent
    /\ pData' = (pData \o <<header1>>) \o ReadBlock(cEventSize - 1)
    /\ fifo' = FifoAfter(cEventSize - 1)
    /\ event' = event + 1
    /\ pc' = "event"
    /\ UNCHANGED <<board, nextEvent, built, pending, triggerVars, config, callVars,
                   cNWords, cNTries, header1, cEventSize, cNEvents, pFailed,
                   depth, history>>

\* Faulty variant: the events of the failed attempt stay in the vector.
Fail_KeepData ==
    /\ pc = "failed"
    /\ StopTrigger
    /\ pc' = "retry"
    /\ UNCHANGED <<board, builderVars, lost, left, config, callVars, pollVars,
                   resultVars, history>>

Fail ==
    /\ pc = "failed"
    /\ pData' = <<>>
    /\ StopTrigger
    /\ pc' = "retry"
    /\ UNCHANGED <<board, builderVars, lost, left, config, callVars, pollVars,
                   cNEvents, pFailed, depth, history>>

\* The reset before the recursive call.
Retry ==
    /\ pc = "retry" /\ depth < MaxRestarts
    /\ ClearReadout
    /\ depth' = depth + 1
    /\ pc' = "configure"
    /\ UNCHANGED <<board, triggerVars, config, callVars, pollVars, cNEvents, pFailed,
                   pData, history>>

-----------------------------------------------------------------------------
(***************************************************************************)
(* The end of both reads: the vector goes to the file handler, once in     *)
(* each frame of the recursion, and to the caller.                         *)
(***************************************************************************)
\* What the caller tells Data::Set() that the vector holds.
Count == IF call.op = "ReadNEvents" THEN call.n ELSE cNEvents

Save ==
    /\ pc = "save"
    /\ log' = log \o pData
    /\ IF depth > 0
       THEN depth' = depth - 1 /\ UNCHANGED <<pc, last, returned>>
       ELSE /\ pc' = "idle" /\ depth' = depth
            /\ last' = [call |-> call, count |-> Count, data |-> pData]
            /\ returned' = returned \o pData
    /\ UNCHANGED <<firmware, callVars, pollVars, cNEvents, pFailed, pData>>

\* return 0 of a call that does not wait: this frame saves nothing, a frame
\* that called it goes on as after a read.
ReturnZero ==
    /\ cNEvents' = 0
    /\ IF depth > 0
       THEN pc' = "save" /\ depth' = depth - 1 /\ UNCHANGED last
       ELSE /\ pc' = "idle" /\ depth' = depth
            /\ last' = [call |-> call, count |-> 0, data |-> pData]
    /\ UNCHANGED <<firmware, callVars, pollVars, pFailed, pData, returned, log>>

(***************************************************************************)
(* ReadData().  A loop that waits is an action that is not enabled yet.    *)
(***************************************************************************)
CallReadData ==
    /\ \E wait \in BOOLEAN : Enter("ReadData", 0, wait, "words")
    /\ pData' = <<>>
    /\ UNCHANGED <<firmware, pollVars, cNEvents, pFailed, depth, history>>

WordsPresent ==
    /\ pc = "words" /\ fifo # <<>>
    /\ pc' = IF config.handshake THEN "request" ELSE "available"
    /\ UNCHANGED <<firmware, callVars, pollVars, resultVars, history>>

NothingYet ==
    /\ ~call.wait
    /\ \/ pc = "words" /\ fifo = <<>>
       \/ pc = "request" /\ ~ReadoutReq
       \/ pc = "available" /\ board.type = "VR" /\ Len(fifo) < EventSize
    /\ ReturnZero

PackageRequested ==
    /\ pc = "request" /\ ReadoutReq
    /\ pc' = "package"
    /\ UNCHANGED <<firmware, callVars, pollVars, resultVars, history>>

CountPackage ==
    /\ pc = "package"
    /\ cNWords' = Len(fifo)
    /\ IF board.type = "VR"
       THEN /\ cNEvents' = Len(fifo) \div EventSize
            /\ pFailed' = (Len(fifo) % EventSize # 0)
       ELSE cNEvents' = config.packetNbr + 1 /\ pFailed' = FALSE
    /\ pc' = "block"
    /\ UNCHANGED <<firmware, callVars, cNTries, event, header1, cEventSize,
                   pData, depth, history>>

ReadPackage ==
    /\ pc = "block"
    /\ pData' = ReadBlock(cNWords)
    /\ fifo' = FifoAfter(cNWords)
    /\ pc' = IF pFailed THEN "restart" ELSE "save"
    /\ UNCHANGED <<board, nextEvent, built, pending, triggerVars, config, callVars,
                   pollVars, cNEvents, pFailed, depth, history>>

CountAvailable ==
    /\ pc = "available" /\ board.type = "VR" /\ Len(fifo) >= EventSize
    /\ cNEvents' = Len(fifo) \div EventSize
    /\ pc' = "take"
    /\ UNCHANGED <<firmware, callVars, pollVars, pFailed, pData, depth, history>>

ReadAvailable ==
    /\ pc = "take"
    /\ pData' = pData \o ReadBlock(cNEvents * EventSize)
    /\ fifo' = FifoAfter(cNEvents * EventSize)
    /\ pc' = "save"
    /\ UNCHANGED <<board, nextEvent, built, pending, triggerVars, config, callVars,
                   pollVars, cNEvents, pFailed, depth, history>>

\* "ZS Event only with handshake!!!": the process exits.
ExitZS ==
    /\ pc = "available" /\ board.type = "ZS"
    /\ pc' = "exited"
    /\ UNCHANGED <<firmware, callVars, pollVars, resultVars, history>>

\* Faulty variant: the failed package is saved before it is dropped.
Restart_SaveFirst ==
    /\ pc = "restart" /\ depth < MaxRestarts
    /\ log' = log \o pData
    /\ pData' = <<>>
    /\ StopTrigger
    /\ depth' = depth + 1
    /\ pFailed' = FALSE
    /\ pc' = "reset"
    /\ UNCHANGED <<board, builderVars, lost, left, config, callVars, pollVars,
                   cNEvents, last, returned>>

\* The failed package is dropped, the run stopped, started and read again.
Restart ==
    /\ pc = "restart" /\ depth < MaxRestarts
    /\ pData' = <<>>
    /\ StopTrigger
    /\ depth' = depth + 1
    /\ pFailed' = FALSE
    /\ pc' = "reset"
    /\ UNCHANGED <<board, builderVars, lost, left, config, callVars, pollVars,
                   cNEvents, history>>

-----------------------------------------------------------------------------
Firmware == Trigger \/ LoseTrigger \/ Build

Calls == CallStart \/ CallStop \/ CallReadNEvents \/ CallReadData

RunStart == ResetReadout \/ StartTrigger

ReadNEventsStep == \/ Configure \/ NextEvent \/ PollWords \/ CheckFsm
                   \/ ReadHeader \/ WaitRest \/ ReadRest \/ Fail \/ Retry

ReadDataStep == \/ WordsPresent \/ NothingYet \/ PackageRequested
                \/ CountPackage \/ ReadPackage \/ CountAvailable
                \/ ReadAvailable \/ ExitZS \/ Restart

CallStep == RunStart \/ ReadNEventsStep \/ ReadDataStep \/ Save

Next == Firmware \/ Calls \/ CallStep

Spec == Init /\ [][Next]_vars

(***************************************************************************)
(* Fairness: the software runs, triggers keep coming while the state       *)
(* machine runs, and the builder builds.  Nothing makes a call or a loss   *)
(* happen.                                                                 *)
(***************************************************************************)
FairSpec == Spec /\ WF_vars(CallStep) /\ WF_vars(Trigger) /\ WF_vars(Build)

-----------------------------------------------------------------------------
(***************************************************************************)
(* Properties.                                                             *)
(***************************************************************************)
CallType == [op : Reads \cup Starts \cup Stops, n : Nat, wait : BOOLEAN]
Result == [call : CallType, count : Nat, data : Seq(Word)]

FirmwareOK ==
    /\ board \in Board
    /\ fifo \in Seq(Word) /\ nextEvent \in Nat \ {0}
    /\ built \in 0 .. EventSize - 1 /\ pending \in Nat
    /\ lost \in Nat /\ fsm \in BOOLEAN /\ left \in Nat
    /\ config \in [packetNbr : Nat, handshake : BOOLEAN, accept : Nat]
ControlOK ==
    /\ pc \in {"idle", "reset", "start", "configure", "event", "poll", "rest",
               "failed", "retry", "save", "words", "request", "package",
               "block", "restart", "available", "take", "exited"}
    /\ call \in CallType /\ calls \in Nat
PollOK ==
    /\ cNWords \in Nat /\ cNTries \in Nat /\ event \in Nat
    /\ header1 \in Word /\ cEventSize \in 0 .. EventSize
ResultOK ==
    cNEvents \in Nat /\ pFailed \in BOOLEAN /\ pData \in Seq(Word) /\ depth \in Nat
HistoryOK == last \in Result /\ returned \in Seq(Word) /\ log \in Seq(Word)

\* Every variable keeps its type, the software is at a point of the code and
\* the builder is inside an event.
TypeOK == FirmwareOK /\ ControlOK /\ PollOK /\ ResultOK /\ HistoryOK

\* A sequence of whole events, each from its header to its last word.
WholeEvents(s) ==
    /\ Len(s) % EventSize = 0
    /\ \A i \in 1 .. Len(s) :
         LET place == (i - 1) % EventSize IN
         s[i].ix = place /\ s[i].ev = s[i - place].ev

\* What a read gave to its caller is whole events and as many of them as
\* Data::Set() is told, after any number of failed attempts: nothing of an
\* attempt that failed, nothing cut short and nothing of an event in the
\* making is left in the vector.
Exact(r) == WholeEvents(r.data) /\ Len(r.data) = r.count * EventSize

\* Every read is exact as long as none has gone past the end of the FIFO.
NoUnderrun == \A i \in DOMAIN returned : returned[i] # Underrun
Delivered == pc = "idle" /\ NoUnderrun => Exact(last)

\* The words of s in the order the firmware wrote them, none of them twice.
Ordered(s) ==
    \A i, j \in 1 .. Len(s) :
        i < j /\ s[i] # Underrun /\ s[j] # Underrun => Before(s[i], s[j])

\* Over all calls, resets, restarts and changes of mode, callers get every
\* word at most once and in the order in which the firmware wrote it.
OnceInOrder == Ordered(returned)

\* Between calls the file handler was given exactly the words the callers
\* got: a discarded attempt never reaches the file, and no word is returned
\* that is not saved.
SavedIsReturned == pc = "idle" => ToSet(log) = ToSet(returned)

\* A call on a board with the handshake comes back or has failed and
\* restarted MaxRestarts times in a row: no attempt hangs, with lost triggers
\* or without, unless ReadData() was told to wait and no trigger may come.
\* (A free-running board is left out: after a read past the end of its FIFO
\* a call may wait for a word that was taken already.)
GaveUp == pc \in {"retry", "restart"} /\ depth = MaxRestarts
CallReturns ==
    (~board.streamed /\ (call.op = "ReadData" /\ call.wait => fsm /\ left = 0))
        ~> (pc \in {"idle", "exited"} \/ GaveUp)

(***************************************************************************)
(* The inductive invariant behind OnceInOrder and SavedIsReturned: what    *)
(* was returned, what the call under way has read, the header it holds and *)
(* the FIFO follow each other in the order of the stream, and all of it    *)
(* was written before the next word.                                       *)
(***************************************************************************)
NextWord == [ev |-> nextEvent, ix |-> built]
Precede(s, t) ==
    \A i \in 1 .. Len(s), j \in 1 .. Len(t) :
        s[i] # Underrun /\ t[j] # Underrun => Before(s[i], t[j])

\* What the call under way has taken from the FIFO and not yet returned.
Reading == pc \notin {"idle", "exited"} /\ call.op \in Reads
Taken   == IF Reading THEN pData ELSE <<>>
Held    == IF pc = "rest" THEN <<header1>> ELSE <<>>

\* r, t, h and f follow each other and come before the word n.
InStream(r, t, h, f, n) ==
    /\ Ordered(r) /\ Ordered(t) /\ Ordered(h) /\ Ordered(f)
    /\ Precede(r, t) /\ Precede(r, h) /\ Precede(r, f)
    /\ Precede(t, h) /\ Precede(t, f) /\ Precede(h, f)
    /\ Precede(r, <<n>>) /\ Precede(t, <<n>>)
    /\ Precede(h, <<n>>) /\ Precede(f, <<n>>)

StreamInv == InStream(returned, Taken, Held, fifo, NextWord)

\* Stop() and Pause() end at once, Start() and Resume() when the triggers
\* are on; only a read polls, fails and saves.
CallInv ==
    pc \notin {"idle", "exited"} =>
        call.op \in Reads \cup (IF pc \in {"reset", "start"} THEN Starts ELSE {})

\* A builder that writes whole events never stops inside one.
BuildInv == ~board.streamed => built = 0

SaveInv ==
    /\ ToSet(returned) \subseteq ToSet(log)
    /\ ToSet(log) \subseteq ToSet(returned) \cup
                            (IF pc = "save" THEN ToSet(pData) ELSE {})

IInv == TypeOK /\ CallInv /\ BuildInv /\ StreamInv /\ SaveInv

(***************************************************************************)
(* The inductive invariant behind Delivered: as long as no read has gone   *)
(* past the end of the FIFO, what is held and the FIFO begin with a header *)
(* wherever the code goes on reading.                                      *)
(***************************************************************************)
Clean(s) == \A i \in 1 .. Len(s) : s[i] # Underrun

\* The words of so many events.
Words(events) == events * EventSize

\* The words of s are whole events, and perhaps the beginning of one.
InPlace(s) ==
    \A q \in 0 .. Len(s), r \in 0 .. EventSize - 1 :
        Words(q) + r < Len(s) =>
            /\ s[Words(q) + r + 1].ix = r
            /\ s[Words(q) + r + 1].ev = s[Words(q) + 1].ev

\* n is the size of that many events.
Sized(n, events) == events \in Nat /\ n = Words(events)
Multiple(n) == \E events \in 0 .. n : Sized(n, events)

\* s is in place and ends where the builder is, in the event number ev.
Continues(s, ev, place) ==
    /\ InPlace(s)
    /\ \E q \in 0 .. Len(s) :
         /\ Len(s) = Words(q) + place
         /\ \A r \in 0 .. place - 1 : s[Words(q) + r + 1].ev = ev

\* Which call is at which point, what it has configured, and that it has
\* nothing yet where it begins to read.
PointInv ==
    /\ board \in Boards /\ (config.handshake => board.handshake)
    /\ pc \in {"configure", "event", "poll", "rest", "failed", "retry"}
          => call.op = "ReadNEvents"
    /\ pc \in {"words", "request", "package", "block", "restart", "available", "take"}
          => call.op = "ReadData"
    /\ pc \notin {"idle", "exited", "configure"} /\ call.op = "ReadNEvents"
          => ~config.handshake
    /\ pc \in {"available", "take"} => ~config.handshake
    /\ pc \in {"configure", "reset", "start", "words", "request", "package", "block",
               "available", "take", "retry"} /\ call.op \in Reads
          => pData = <<>>

\* With the handshake, a builder that waits has one package in the FIFO at
\* most, and a builder of whole events no part of one.
HoldInv ==
    /\ config.handshake /\ ~board.streamed
          => Multiple(Len(fifo)) /\ (pc = "block" => Multiple(cNWords))
    /\ config.handshake /\ board.holds
          => Len(fifo) <= Words(config.packetNbr + 1)

\* What the code counted before it reads is what it will find.
CountInv ==
    /\ pc = "package" => ReadoutReq
    /\ pc = "block" => cNWords <= Len(fifo) /\ (~pFailed => Sized(cNWords, cNEvents))
    /\ pc = "take"  => Words(cNEvents) <= Len(fifo)
    /\ pc = "rest"  => (header1.ix = 0 => cEventSize = EventSize)
    /\ pc = "event" => event <= call.n
    /\ pc \in {"poll", "rest"} => event < call.n

\* No word that was kept is one the FIFO did not have.
Sane == Clean(returned) /\ Clean(Taken) /\ Clean(Held)

\* Not where the next thing to happen to the FIFO is a reset.
Fresh == pc \notin {"configure", "reset", "failed", "retry", "restart", "exited"}

PlaceInv ==
    /\ Sane /\ Fresh => Continues(Held \o fifo, nextEvent, built)
    /\ Sane /\ pc \in {"event", "poll", "rest"}
          => InPlace(pData) /\ Sized(Len(pData), event)
    /\ Sane /\ pc = "save" => InPlace(pData) /\ Sized(Len(pData), Count)
    /\ Clean(returned) => InPlace(last.data) /\ Sized(Len(last.data), last.count)

DeliveryInv ==
    TypeOK /\ CallInv /\ BuildInv /\ PointInv /\ HoldInv /\ CountInv /\ PlaceInv

=============================================================================
