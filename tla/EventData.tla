----------------------------- MODULE EventData -----------------------------
(***************************************************************************)
(* The way of the events from the boards to a tool: the reading methods of *)
(* Ph2_ACF/System/SystemController, the routing of BeBoardInterface to the *)
(* firmware interface of a board, and Ph2_ACF/Utils/Data, whose Set()      *)
(* hands the block to an asynchronous task and whose getters wait for its  *)
(* future.                                                                 *)
(*                                                                         *)
(* A controller has one Data object for all its boards; every read deletes *)
(* it and makes another one.  std::async is called without a launch        *)
(* policy: the library starts a thread or leaves the task to the getter.   *)
(* The readout of a board is the subject of D19cReadout; here a board      *)
(* delivers a block of whole events, or nothing when the caller does not   *)
(* want to wait.  Callers pass a fresh vector.                             *)
(***************************************************************************)
EXTENDS Integers, Sequences, SequencesExt, FiniteSets

CONSTANTS Boards,      (* fBoardVector                                     *)
          Type,        (* the event type of each board                     *)
          Sizes,       (* event sizes, in words, of a zero-suppressed board *)
          FixedSize,   (* the event size of the other boards               *)
          BadSize,     (* a size in a header that is larger than any block *)
          MaxEvents,   (* bound: events in a block                         *)
          MaxBlocks    (* bound: blocks read in a behaviour                *)

EventType == {"VR", "ZS"}

BoardSet == {Boards[i] : i \in DOMAIN Boards}

ASSUME EventDataAssumption ==
    /\ Boards \in Seq(BoardSet \ {"none"})
    /\ Type \in [BoardSet -> EventType]
    /\ Sizes \subseteq Nat \ {0, 1}
    /\ FixedSize \in Nat \ {0, 1}
    /\ MaxEvents \in Nat \ {0}
    /\ BadSize \in Nat
    /\ \A size \in Sizes : BadSize > MaxEvents * size
    /\ MaxBlocks \in Nat

VARIABLES
    prevBoard,     (* BeBoardInterface::prevBoardIdentifier               *)
    fBoardFW,      (* the board whose firmware interface is selected      *)
    sent,          (* number of blocks the boards have delivered          *)
    fData,         (* whether the controller has a Data object            *)
    fEventList,    (* the events of that object                           *)
    fCurrentEvent, (* its cursor                                          *)
    fFuture,       (* whether its future is valid                         *)
    task,          (* its asynchronous task                               *)
    cut,           (* the local variables of the task's loop              *)
    given,         (* the block Set() was called with                     *)
    pc,            (* control point of the tool's thread                  *)
    call,          (* the operation and the board it is about             *)
    rest,          (* boards an all-board read has still to visit         *)
    block,         (* what the firmware interface returned                *)
    fetched,       (* what the tool holds from the last getter            *)
    clean          (* history: every read was fetched once before the next *)

boardVars == <<prevBoard, fBoardFW, sent>>
listVars  == <<fEventList, fCurrentEvent>>
taskVars  == <<fFuture, task, cut, given>>
toolVars  == <<call, rest, block>>
vars == <<boardVars, fData, listVars, taskVars, toolVars, pc, fetched, clean>>

(* Blocks.  A block is the words of its events and their number; the low   *)
(* 16 bits of the first word of an event are its size.                     *)
EventWords(nr, e, size) ==
    [p \in 1..size |-> [block |-> nr, event |-> e, pos |-> p, size |-> size]]

Events(nr, sizes) == [e \in DOMAIN sizes |-> EventWords(nr, e, sizes[e])]

(* The header of the event bad, if any, names a size no block has. *)
Corrupt(events, bad) ==
    [e \in DOMAIN events |->
        IF e = bad THEN [events[e] EXCEPT ![1].size = BadSize] ELSE events[e]]

Block(b, nr, sizes, bad) ==
    [board |-> b, nr |-> nr, sizes |-> sizes, bad |-> bad, n |-> Len(sizes),
     words |-> FlattenSeq(Corrupt(Events(nr, sizes), bad))]

NoBlock == [board |-> "none", nr |-> 0, sizes |-> <<>>, bad |-> 0, n |-> 0,
            words |-> <<>>]

SizeLists(b, n) ==
    IF Type[b] = "ZS" THEN [1..n -> Sizes] ELSE [1..n -> {FixedSize}]

Reads == {"ReadData", "ReadNEvents", "setData"}
Getters == {"GetEvents", "GetEvent", "GetNextEvent"}
NoCall == [op |-> "none", board |-> "none", pWait |-> TRUE, n |-> 0]
Nothing == <<"nothing">>

(* The loop of privateSet() before its first word. *)
LoopStart == [lvec |-> <<>>, cWordIndex |-> 0, cZSWordIndex |-> 0,
              fZSEventSize |-> 0]

(* The events of the block that the loop can cut: those before a header    *)
(* that is no header.                                                      *)
Whole(b) == SubSeq(Events(b.nr, b.sizes), 1,
                   IF b.bad = 0 THEN b.n ELSE b.bad - 1)

Running == task \in {"started", "loop"}

TypeOK ==
    /\ prevBoard \in BoardSet \cup {"none"}
    /\ fBoardFW \in BoardSet \cup {"none"}
    /\ sent \in 0..MaxBlocks
    /\ fData \in BOOLEAN
    /\ fCurrentEvent \in {0, 1}
    /\ fFuture \in BOOLEAN
    /\ task \in {"none", "deferred", "started", "loop", "done"}
    /\ Len(fEventList) <= given.n
    /\ cut.cWordIndex \in 0..Len(given.words)
    /\ cut.lvec \in Seq({given.words[i] : i \in DOMAIN given.words})
    /\ given.board \in BoardSet \cup {"none"} /\ given.n \in 0..MaxEvents
    /\ pc \in {"idle", "delete", "join", "read", "set", "get", "destroyed",
               "ended"}
    /\ call.op \in Reads \cup Getters \cup {"none", "Destroy"}
    /\ call.board \in BoardSet \cup {"none"}
    /\ call.n \in 0..MaxEvents
    /\ rest \in Seq(BoardSet)
    /\ clean \in BOOLEAN

Init ==
    /\ prevBoard = "none" /\ fBoardFW = "none" /\ sent = 0
    /\ fData = FALSE /\ fEventList = <<>> /\ fCurrentEvent = 0
    /\ fFuture = FALSE /\ task = "none" /\ cut = LoopStart /\ given = NoBlock
    /\ pc = "idle" /\ call = NoCall /\ rest = <<>> /\ block = NoBlock
    /\ fetched = Nothing /\ clean = TRUE
-----------------------------------------------------------------------------
(* The tool's calls *)

(* A read begins: the present Data object is to be deleted.  pNext are the *)
(* boards an all-board read visits after this one.                         *)
BeginRead(op, b, pWait, n, pNext) ==
    /\ call' = [op |-> op, board |-> b, pWait |-> pWait, n |-> n]
    /\ rest' = pNext
    /\ block' = NoBlock
    /\ fetched' = Nothing
    /\ clean' = (clean /\ ~fFuture)
    /\ pc' = IF fData THEN "delete" ELSE "join"
    /\ UNCHANGED <<boardVars, fData, listVars, taskVars>>

(* ReadData (pBoard, pWait) *)
CallReadData(b, pWait) ==
    /\ pc = "idle"
    /\ sent < MaxBlocks
    /\ BeginRead("ReadData", b, pWait, 0, <<>>)

(* ReadNEvents (pBoard, pNEvents) *)
CallReadNEvents(b, n) ==
    /\ pc = "idle"
    /\ sent < MaxBlocks
    /\ BeginRead("ReadNEvents", b, TRUE, n, <<>>)

(* setData(), with a block that was read from a raw data file. *)
CallSetData(b, n) ==
    /\ pc = "idle"
    /\ sent < MaxBlocks
    /\ BeginRead("setData", b, TRUE, n, <<>>)

(* ReadData (pWait) and ReadNEvents (pNEvents) for all boards. *)
CallReadAll(op, pWait, n) ==
    /\ pc = "idle"
    /\ sent + Len(Boards) <= MaxBlocks
    /\ Boards # <<>>
    /\ BeginRead(op, Head(Boards), pWait, n, Tail(Boards))

(* ~Data(): its body deletes the events of the list.  If the task is still *)
(* pushing, two threads use the vector without a lock: the process ends or *)
(* goes on with what the task adds later.                                  *)
DeleteEvents ==
    /\ pc = "delete"
    /\ \/ /\ fEventList' = <<>>
          /\ pc' = "join"
       \/ /\ Running
          /\ fEventList' = fEventList
          /\ pc' = "ended"
    /\ UNCHANGED <<boardVars, fData, fCurrentEvent, taskVars, toolVars,
                   fetched, clean>>

(* The members of the Data object go: the last reference to the state of a *)
(* thread that std::async started waits for its end, a deferred task is    *)
(* dropped.                                                                *)
MembersGone == ~Running

(* new Data(). *)
NewData ==
    /\ pc = "join"
    /\ call.op # "Destroy"
    /\ MembersGone
    /\ fData' = TRUE
    /\ fEventList' = <<>> /\ fCurrentEvent' = 0
    /\ fFuture' = FALSE /\ task' = "none" /\ cut' = LoopStart
    /\ given' = NoBlock
    /\ pc' = "read"
    /\ UNCHANGED <<boardVars, toolVars, fetched, clean>>

(* Faulty variant: the identifier is remembered, the interface not changed. *)
SetBoard_Stale(b) ==
    /\ prevBoard' = b
    /\ fBoardFW' = IF fBoardFW = "none" THEN b ELSE fBoardFW

(* BeBoardInterface::setBoard(): the firmware interface is looked up only  *)
(* when the board changes.  It is always found: parseHWxml() makes one for *)
(* every board it adds to fBoardVector.                                    *)
SetBoard(b) ==
    IF prevBoard # b THEN prevBoard' = b /\ fBoardFW' = b
                     ELSE UNCHANGED <<prevBoard, fBoardFW>>

(* The selected firmware interface reads n events. *)
Deliver(b, n) ==
    \E sizes \in SizeLists(b, n) :
        /\ \E bad \in IF Type[b] = "ZS" THEN 0..n ELSE {0} :
               block' = Block(b, sent + 1, sizes, bad)
        /\ sent' = sent + 1

(* What the call has instead of data: ReadData() of the selected interface *)
(* brings some events, or none if the caller does not wait; ReadNEvents()  *)
(* the number asked for; setData() has its words from the caller.          *)
Read ==
    /\ pc = "read"
    /\ \/ /\ call.op = "ReadData"
          /\ SetBoard(call.board)
          /\ \/ \E n \in 1..MaxEvents : Deliver(fBoardFW', n)
             \/ ~call.pWait /\ UNCHANGED <<block, sent>>
       \/ /\ call.op = "ReadNEvents"
          /\ SetBoard(call.board)
          /\ Deliver(fBoardFW', call.n)
       \/ /\ call.op = "setData"
          /\ Deliver(call.board, call.n)
          /\ UNCHANGED <<prevBoard, fBoardFW>>
    /\ pc' = "set"
    /\ UNCHANGED <<fData, listVars, taskVars, call, rest, fetched, clean>>

(* After Set() the call returns, or an all-board read takes its next board *)
(* and deletes the object it has just filled.                              *)
Onward ==
    IF rest = <<>>
    THEN pc' = "idle" /\ UNCHANGED <<call, rest, clean>>
    ELSE /\ pc' = "delete"
         /\ call' = [call EXCEPT !.board = Head(rest)]
         /\ rest' = Tail(rest)
         /\ clean' = (clean /\ block.words = <<>>)

(* Data::Set(): a task is made only for a vector that is not empty. *)
Set ==
    /\ pc = "set"
    /\ IF block.words = <<>>
       THEN UNCHANGED taskVars
       ELSE /\ fFuture' = TRUE
            /\ task' \in {"started", "deferred"}
            /\ given' = block
            /\ UNCHANGED cut
    /\ Onward
    /\ block' = NoBlock
    /\ UNCHANGED <<boardVars, fData, listVars, fetched>>

(* Faulty variant: the getter waits for the task but does not run it. *)
CallGet_OnlyWaits(op, i) ==
    /\ pc = "idle"
    /\ call' = [NoCall EXCEPT !.op = op, !.board = call.board, !.n = i]
    /\ pc' = IF fFuture THEN "get" ELSE "ended"
    /\ clean' = (clean /\ fFuture)
    /\ fetched' = Nothing
    /\ UNCHANGED <<boardVars, fData, listVars, taskVars, rest, block>>

(* A getter: without an object or a valid future the call does not come    *)
(* back to the tool; a deferred task is run by the getter itself.          *)
CallGet(op, i) ==
    /\ pc = "idle"
    /\ call' = [NoCall EXCEPT !.op = op, !.board = call.board, !.n = i]
    /\ IF fFuture
       THEN /\ pc' = "get"
            /\ clean' = clean
            /\ task' = IF task = "deferred" THEN "started" ELSE task
       ELSE /\ pc' = "ended"
            /\ clean' = FALSE
            /\ UNCHANGED task
    /\ fetched' = Nothing
    /\ UNCHANGED <<boardVars, fData, listVars, fFuture, cut, given, rest,
                   block>>

(* Faulty variant: the getter does not wait. *)
FutureReady_NoWait == TRUE

(* The index of the event a getter gives: its argument or the cursor. *)
Answer == IF call.op = "GetNextEvent" THEN fCurrentEvent ELSE call.n

(* fFuture.get() comes back when the task is done and takes the state with *)
(* it: the future is no longer valid.                                      *)
FutureReady == task = "done"

Return ==
    /\ pc = "get"
    /\ FutureReady
    /\ fFuture' = FALSE
    /\ \/ call.op = "GetEvents" /\ fetched' = fEventList
       \/ call.op # "GetEvents" /\ Answer >= Len(fEventList)
                               /\ fetched' = Nothing
       \/ call.op # "GetEvents" /\ Answer < Len(fEventList)
                               /\ fetched' = <<fEventList[Answer + 1]>>
    /\ fCurrentEvent' = IF call.op = "GetNextEvent" /\ fetched' # Nothing
                        THEN fCurrentEvent + 1 ELSE fCurrentEvent
    /\ pc' = "idle"
    /\ UNCHANGED <<boardVars, fData, fEventList, task, cut, given, toolVars,
                   clean>>

(* Destroy(): the object is deleted and the tool is done with the          *)
(* controller.                                                             *)
CallDestroy ==
    /\ pc = "idle"
    /\ call' = [NoCall EXCEPT !.op = "Destroy"]
    /\ pc' = IF fData THEN "delete" ELSE "destroyed"
    /\ clean' = (clean /\ ~fFuture)
    /\ fetched' = Nothing
    /\ UNCHANGED <<boardVars, fData, listVars, taskVars, rest, block>>

Destroyed ==
    /\ pc = "join"
    /\ call.op = "Destroy"
    /\ MembersGone
    /\ fFuture' = FALSE
    /\ task' = "none"
    /\ pc' = "destroyed"
    /\ UNCHANGED <<boardVars, fData, listVars, cut, given, toolVars, fetched,
                   clean>>
-----------------------------------------------------------------------------
(* The task: privateSet() *)

(* Reset() and the initial values of the loop. *)
TaskReset ==
    /\ task = "started"
    /\ fEventList' = <<>> /\ fCurrentEvent' = 0
    /\ cut' = LoopStart
    /\ task' = "loop"
    /\ UNCHANGED <<boardVars, fData, fFuture, given, toolVars, pc, fetched,
                   clean>>

(* The word the loop is at, and what lvec holds with it. *)
Word == given.words[cut.cWordIndex + 1]
WithWord == Append(cut.lvec, Word)

(* fEventList.push_back (new ...Event (..., lvec)); lvec.clear(); the loop  *)
(* is left once fNevents events are there, otherwise the indices move on.   *)
PushEvent ==
    /\ fEventList' = Append(fEventList, WithWord)
    /\ IF Len(fEventList') >= given.n
       THEN task' = "done" /\ cut' = LoopStart
       ELSE /\ cut' = [cut EXCEPT !.lvec = <<>>, !.cWordIndex = @ + 1,
                                  !.cZSWordIndex = @ + 1]
            /\ UNCHANGED task

(* No event ends with this word.                                            *)
KeepWord(size, index) ==
    /\ cut' = [lvec |-> WithWord, cWordIndex |-> cut.cWordIndex + 1,
               cZSWordIndex |-> index + 1, fZSEventSize |-> size]
    /\ UNCHANGED <<fEventList, task>>

MoreWords == task = "loop" /\ cut.cWordIndex < Len(given.words)

taskRest == <<boardVars, fData, fCurrentEvent, fFuture, given, toolVars, pc,
              fetched, clean>>

(* A word of a block whose events have one size, the number of words over  *)
(* the number of events.                                                   *)
FixedWord ==
    /\ MoreWords
    /\ Type[given.board] = "VR"
    /\ LET fEventSize == Len(given.words) \div given.n
       IN  IF cut.cWordIndex > 0 /\ (cut.cWordIndex + 1) % fEventSize = 0
           THEN PushEvent
           ELSE KeepWord(cut.fZSEventSize, cut.cZSWordIndex)
    /\ UNCHANGED taskRest

(* The last word of a zero-suppressed event.  The size is unsigned: one    *)
(* less than zero is an index no block reaches.                            *)
IsLast == cut.fZSEventSize # 0 /\ cut.cZSWordIndex = cut.fZSEventSize - 1

(* The first word of a zero-suppressed event comes where the event before  *)
(* it ended, and has the size; one the block cannot hold ends the loop.    *)
IsHeader == ~IsLast /\ cut.cZSWordIndex = cut.fZSEventSize

ZSWord ==
    /\ MoreWords
    /\ Type[given.board] = "ZS"
    /\ \/ IsLast /\ PushEvent
       \/ /\ IsHeader /\ Word.size <= Len(given.words)
          /\ KeepWord(Word.size, 0)
       \/ /\ IsHeader /\ Word.size > Len(given.words)
          /\ task' = "done" /\ UNCHANGED <<fEventList, cut>>
       \/ ~IsLast /\ ~IsHeader /\ KeepWord(cut.fZSEventSize, cut.cZSWordIndex)
    /\ UNCHANGED taskRest

(* The loop has seen all the words. *)
TaskDone ==
    /\ task = "loop" /\ ~MoreWords
    /\ task' = "done"
    /\ UNCHANGED <<fEventList, cut, taskRest>>
-----------------------------------------------------------------------------
ToolCall ==
    \/ \E b \in BoardSet, w \in BOOLEAN : CallReadData(b, w)
    \/ \E b \in BoardSet, n \in 1..MaxEvents :
           CallReadNEvents(b, n) \/ CallSetData(b, n)
    \/ \E w \in BOOLEAN : CallReadAll("ReadData", w, 0)
    \/ \E n \in 1..MaxEvents : CallReadAll("ReadNEvents", TRUE, n)
    \/ CallGet("GetEvents", 0) \/ CallGet("GetNextEvent", 0)
    \/ \E i \in 0..MaxEvents : CallGet("GetEvent", i)
    \/ CallDestroy

ToolStep ==
    \/ DeleteEvents \/ NewData \/ Destroyed \/ Read \/ Set \/ Return

TaskStep ==
    /\ pc # "ended"
    /\ TaskReset \/ FixedWord \/ ZSWord \/ TaskDone

Next == ToolCall \/ ToolStep \/ TaskStep

Spec == Init /\ [][Next]_vars

(* A thread that can run does run. *)
FairSpec == Spec /\ WF_vars(ToolStep) /\ WF_vars(TaskStep)
-----------------------------------------------------------------------------
(* Properties *)

(* The block a getter's answer comes from is the one the last read brought, *)
(* and its board is the one that read was for.                              *)
LastRead ==
    fetched # Nothing => given.nr = sent /\ given.board = call.board

(* What a getter gives the tool was cut from the block that the last read  *)
(* brought, from the board that read was for, in the form the board sent   *)
(* it: GetEvents() gives every event with all its words, in order, up to   *)
(* one whose header is broken, and none of another read; GetNextEvent()    *)
(* the first of them and GetEvent() the one asked for                      *)
(* (Data::privateSet(), the getters of Data, BeBoardInterface::setBoard()). *)
Fetched ==
    /\ LastRead
    /\ fetched # Nothing =>
          fetched = IF call.op = "GetEvents" THEN Whole(given)
                    ELSE <<Whole(given)[call.n + 1]>>

(* A tool that fetches once after each read that brought data and before   *)
(* the next call on the controller never shares the event list with the    *)
(* task and never meets a getter that fails: the discipline of the tools   *)
(* is sufficient (System/SystemController.h, Utils/Data.h).                *)
DisciplineSuffices ==
    clean => /\ pc # "ended"
             /\ pc = "delete" => ~Running
             /\ fetched # Nothing => ~Running

(* Why the discipline suffices.  A task that is not done is one whose      *)
(* future nobody has taken; a disciplined tool has taken it before the     *)
(* object is deleted, and what it holds is from a task that is done.       *)
FutureInv ==
    /\ fFuture \in BOOLEAN /\ clean \in BOOLEAN
    /\ task \in {"none", "deferred", "started", "loop", "done"}
    /\ task \in {"deferred", "started", "loop"} => fFuture
    /\ pc \in {"read", "set"} => ~fFuture
    /\ pc = "get" => fFuture
    /\ fetched # Nothing => pc = "idle" /\ ~fFuture
    /\ clean => pc # "ended" /\ (pc = "delete" => ~fFuture)

(* Why the block is the right one: the interface that is selected is that  *)
(* of the board remembered; a block on its way to Set() is the newest one  *)
(* and from the board of the call.                                         *)
RouteInv ==
    /\ prevBoard = fBoardFW
    /\ pc # "set" => block = NoBlock
    /\ block # NoBlock => block.nr = sent /\ block.board = call.board
    /\ pc \in {"idle", "get"} /\ (fFuture \/ fetched # Nothing) =>
          given.nr = sent /\ given.board = call.board

IInv == FutureInv /\ RouteInv

(* Why the events are the right ones.  A call names boards and numbers of  *)
(* events there are; what is delivered is the words of whole events.       *)
Framed(b) == Corrupt(Events(b.nr, b.sizes), b.bad)
Before(b, e) == Len(FlattenSeq(SubSeq(Framed(b), 1, e)))

IsBlock(b) ==
    \E x \in BoardSet, n \in 1..MaxEvents :
       \E sizes \in SizeLists(x, n), bad \in IF Type[x] = "ZS" THEN 0..n ELSE {0} :
          b = Block(x, b.nr, sizes, bad)

CallInv ==
    /\ rest \in Seq(BoardSet) /\ DOMAIN call = DOMAIN NoCall
    /\ call.op \in Reads => call.board \in BoardSet
    /\ call.op \in {"ReadNEvents", "setData"} => call.n \in 1..MaxEvents
    /\ call.op = "GetNextEvent" => call.n = 0
    /\ block # NoBlock => IsBlock(block)
    /\ task \in {"deferred", "started", "loop"} => IsBlock(given)

(* The loop is in the event after those of the list, lvec has its first    *)
(* words, and the indices are those of its next one.                       *)
CutAt(e, p) ==
    /\ e <= Len(Whole(given)) /\ (p > 0 => e < Len(Whole(given)))
    /\ fEventList = SubSeq(Whole(given), 1, e) /\ fCurrentEvent = 0
    /\ cut.lvec = SubSeq(Events(given.nr, given.sizes)[e + 1], 1, p)
    /\ cut.cWordIndex = Before(given, e) + p
    /\ DOMAIN cut = DOMAIN LoopStart /\ cut.cZSWordIndex \in Nat
    /\ Type[given.board] = "ZS" =>
          /\ p = 0 => cut.cZSWordIndex = cut.fZSEventSize
          /\ p > 0 => cut.cZSWordIndex = p /\ cut.fZSEventSize = given.sizes[e + 1]

Cutting == \E e \in 0..given.n - 1 : \E p \in 0..given.sizes[e + 1] - 1 : CutAt(e, p)

CutInv ==
    pc \in {"idle", "get"} =>
        /\ task = "loop" => Cutting
        /\ task = "done" /\ fFuture => fEventList = Whole(given) /\ fCurrentEvent = 0

EventInv == IInv /\ CallInv /\ CutInv /\ Fetched

(* Every call of the tool comes back, be the task run by a thread or by    *)
(* the getter (std::future, ~Data()).                                      *)
CallReturns ==
    pc \notin {"idle", "destroyed", "ended"} ~>
        pc \in {"idle", "destroyed", "ended"}
=============================================================================
