---------------------------- MODULE FileHandler ----------------------------
(***************************************************************************)
(* Ph2_ACF/Utils/FileHandler in write mode: acquisition threads push       *)
(* blocks of 32-bit words into a queue, one writer thread moves them to    *)
(* the binary file, and the owner of the object closes it, deletes it or   *)
(* opens the file once more.                                               *)
(*                                                                         *)
(* A block is an abstract value; Empty stands for a vector of no words.    *)
(* The stream keeps what is written but not yet flushed in buf, and disk   *)
(* is what would be found in the file if the process stopped now.          *)
(***************************************************************************)
EXTENDS Sequences, SequencesExt, Naturals

CONSTANTS Producers,    (* threads that call set()                        *)
          Payload,      (* the blocks they may push                       *)
          Empty,        (* the block of zero words                        *)
          Free,         (* the holder of a mutex that nobody holds        *)
          Writer,       (* the writer thread, as the holder of a mutex    *)
          MaxSets       (* bound: calls of set() in a behaviour           *)

ASSUME FileHandlerAssumption ==
    /\ Free \notin Producers \cup {Writer}
    /\ Writer \notin Producers
    /\ MaxSets \in Nat

VARIABLES
    fQueue,        (* blocks pushed by set() and not yet popped           *)
    fMutex,        (* holder of the queue's mutex                         *)
    fMemberMutex,  (* holder of the members' mutex                        *)
    fFileIsOpened, (* the flag that keeps the writer thread running       *)
    stream,        (* fBinaryFile: "none", "open", "closed" or "failed"   *)
    header,        (* the file header: "none", "buffered" or "stored"     *)
    buf,           (* blocks written to the stream and not flushed        *)
    disk,          (* blocks in the file                                  *)
    writer,        (* control point of writeFile() and dequeue()          *)
    cData,         (* the writer's local block                            *)
    pushing,       (* producers between the lock and the end of set()     *)
    pVector,       (* the argument of each producer's latest set()        *)
    owner,         (* control point of the owner's current call           *)
    closings,      (* closeFile() calls the owner's current call has left *)
    dying,         (* the current call ends with the object deleted       *)
    reopened,      (* openFile() was called again after a close           *)
    alive,         (* the process runs                                    *)
    accepted       (* history: the blocks pushed so far, in order         *)

queueVars  == <<fQueue, accepted, pushing, pVector>>
streamVars == <<stream, header, buf, disk>>
writerVars == <<writer, cData>>
ownerVars  == <<owner, closings, dying, reopened>>
vars == <<queueVars, fMutex, fMemberMutex, fFileIsOpened, streamVars,
          writerVars, ownerVars, alive>>

DataOK ==
    /\ fQueue \in Seq(Payload) /\ accepted \in Seq(Payload)
    /\ fMutex \in Producers \cup {Free, Writer}
    /\ fMemberMutex \in {Free, Writer}
    /\ stream \in {"none", "open", "closed", "failed"}
    /\ header \in {"none", "buffered", "stored"}
    /\ buf \in Seq(Payload) /\ disk \in Seq(Payload)
    /\ writer \in {"none", "test", "dequeue", "waiting", "pop", "member",
                   "write", "flush", "done", "joined"}
    /\ cData \in Payload \cup {Empty}
    /\ writer \in {"member", "write"} => cData \in Payload
    /\ pushing \in SUBSET Producers
    /\ pVector \in [Producers -> Payload \cup {Empty}]
    /\ \A p \in pushing : pVector[p] \in Payload
    /\ owner \in {"unborn", "idle", "load", "join", "stream", "deleted"}
    /\ closings \in {0, 1, 2}
    /\ owner \in {"load", "join", "stream"} => closings # 0

FlagsOK ==
    /\ fFileIsOpened \in BOOLEAN
    /\ dying \in BOOLEAN
    /\ reopened \in BOOLEAN
    /\ alive \in BOOLEAN

TypeOK == DataOK /\ FlagsOK

Init ==
    /\ fQueue = <<>> /\ accepted = <<>>
    /\ fMutex = Free /\ fMemberMutex = Free
    /\ fFileIsOpened = FALSE
    /\ stream = "none" /\ header = "none" /\ buf = <<>> /\ disk = <<>>
    /\ writer = "none" /\ cData = Empty
    /\ pushing = {} /\ pVector = [p \in Producers |-> Empty]
    /\ owner = "unborn" /\ closings = 0
    /\ dying = FALSE /\ reopened = FALSE /\ alive = TRUE
-----------------------------------------------------------------------------
(* Opening *)

(* openFile() for option 'w' when the file is not open: the flag is raised  *)
(* whether or not the stream could be opened, and a valid header goes to    *)
(* the stream's buffer.                                                     *)
OpenFile ==
    /\ ~fFileIsOpened
    /\ fMemberMutex = Free
    /\ stream' \in {"open", "failed"}
    /\ header' \in IF stream' = "open" THEN {"none", "buffered"} ELSE {"none"}
    /\ buf' = <<>>
    /\ disk' = IF stream' = "open" THEN <<>> ELSE disk
    /\ fFileIsOpened' = TRUE
    /\ UNCHANGED <<queueVars, fMutex, fMemberMutex, cData, closings, dying,
                   alive>>

(* The constructor: openFile(), then the writer thread starts. *)
Construct ==
    /\ owner = "unborn"
    /\ OpenFile
    /\ writer' = "test"
    /\ owner' = "idle"
    /\ UNCHANGED reopened

(* openFile() once more after a close: no thread is started. *)
Reopen ==
    /\ owner = "idle"
    /\ OpenFile
    /\ reopened' = TRUE
    /\ UNCHANGED <<writer, owner>>
-----------------------------------------------------------------------------
(* set(): a lock, a push, a notification.  The object outlives every call:  *)
(* nobody deletes it under a producer's feet.                               *)

SetLock(p, d) ==
    /\ owner \notin {"unborn", "deleted"} /\ ~dying
    /\ p \notin pushing
    /\ Len(accepted) < MaxSets
    /\ fMutex = Free
    /\ fMutex' = p
    /\ pushing' = pushing \cup {p}
    /\ pVector' = [pVector EXCEPT ![p] = d]
    /\ UNCHANGED <<fQueue, accepted, fMemberMutex, fFileIsOpened, streamVars,
                   writerVars, ownerVars, alive>>

SetPush(p) ==
    /\ p \in pushing
    /\ fQueue' = Append(fQueue, pVector[p])
    /\ accepted' = Append(accepted, pVector[p])
    /\ fMutex' = Free
    /\ pushing' = pushing \ {p}
    /\ UNCHANGED <<pVector, fMemberMutex, fFileIsOpened, streamVars,
                   writerVars, ownerVars, alive>>
-----------------------------------------------------------------------------
(* The writer thread: writeFile() and dequeue() *)

(* Faulty variant: the thread never looks at the flag. *)
LoopTest_Forever ==
    /\ writer = "test"
    /\ writer' = "dequeue"
    /\ UNCHANGED <<queueVars, fMutex, fMemberMutex, fFileIsOpened, streamVars,
                   cData, ownerVars, alive>>

LoopTest ==
    /\ writer = "test"
    /\ writer' = IF fFileIsOpened THEN "dequeue" ELSE "done"
    /\ UNCHANGED <<queueVars, fMutex, fMemberMutex, fFileIsOpened, streamVars,
                   cData, ownerVars, alive>>

(* Faulty variant: the predicate is corrected to !fQueue.empty() but its    *)
(* result is still read as "empty".                                         *)
DequeueEnter_Inverted ==
    /\ writer = "dequeue"
    /\ fMutex = Free
    /\ writer' = IF fQueue = <<>> THEN "waiting" ELSE "test"
    /\ UNCHANGED <<queueVars, fMutex, fMemberMutex, fFileIsOpened, streamVars,
                   cData, ownerVars, alive>>

(* wait_for() with the predicate fQueue.empty(): an empty queue ends the    *)
(* wait at once, a queue with data makes the thread wait for the timeout.   *)
DequeueEnter ==
    /\ writer = "dequeue"
    /\ fMutex = Free
    /\ writer' = IF fQueue = <<>> THEN "test" ELSE "waiting"
    /\ UNCHANGED <<queueVars, fMutex, fMemberMutex, fFileIsOpened, streamVars,
                   cData, ownerVars, alive>>

(* The 100 us are over: the mutex is taken again and the predicate decides. *)
(* A notification before that only evaluates the predicate once more.       *)
DequeueTimeout ==
    /\ writer = "waiting"
    /\ fMutex = Free
    /\ IF fQueue = <<>> THEN writer' = "test" /\ fMutex' = Free
                        ELSE writer' = "pop"  /\ fMutex' = Writer
    /\ UNCHANGED <<queueVars, fMemberMutex, fFileIsOpened, streamVars, cData,
                   ownerVars, alive>>

DequeuePop ==
    /\ writer = "pop"
    /\ cData' = Head(fQueue)
    /\ fQueue' = Tail(fQueue)
    /\ fMutex' = Free
    /\ writer' = "member"
    /\ UNCHANGED <<accepted, pushing, pVector, fMemberMutex, fFileIsOpened,
                   streamVars, ownerVars, alive>>

MemberLock ==
    /\ writer = "member"
    /\ fMemberMutex = Free
    /\ fMemberMutex' = Writer
    /\ writer' = "write"
    /\ UNCHANGED <<queueVars, fMutex, fFileIsOpened, streamVars, cData,
                   ownerVars, alive>>

(* write(&cData.at(0), ...): a stream that failed to open drops the block,  *)
(* a full stream buffer reaches the file before the flush.                  *)
WriteBlock ==
    /\ writer = "write"
    /\ cData # Empty
    /\ writer' = "flush"
    /\ \/ /\ stream = "open"
          /\ buf' = Append(buf, cData)
          /\ UNCHANGED <<disk, header>>
       \/ /\ stream = "open"
          /\ disk' = Append(disk \o buf, cData)
          /\ buf' = <<>>
          /\ header' = IF header = "buffered" THEN "stored" ELSE header
       \/ /\ stream # "open"
          /\ UNCHANGED <<buf, disk, header>>
    /\ UNCHANGED <<queueVars, fMutex, fMemberMutex, fFileIsOpened, stream,
                   cData, ownerVars, alive>>

(* at(0) of an empty vector throws in the thread: std::terminate.           *)
WriteEmpty ==
    /\ writer = "write"
    /\ cData = Empty
    /\ alive' = FALSE
    /\ UNCHANGED <<queueVars, fMutex, fMemberMutex, fFileIsOpened, streamVars,
                   writerVars, ownerVars>>

(* Faulty variant: the buffer is kept. *)
Drain_Repeat ==
    /\ disk' = disk \o buf
    /\ header' = IF header = "buffered" THEN "stored" ELSE header
    /\ UNCHANGED buf

Drain == (* what flush() and close() do with the stream's buffer *)
    /\ disk' = disk \o buf
    /\ buf' = <<>>
    /\ header' = IF header = "buffered" THEN "stored" ELSE header

FlushBlock ==
    /\ writer = "flush"
    /\ Drain
    /\ fMemberMutex' = Free
    /\ writer' = "test"
    /\ UNCHANGED <<queueVars, fMutex, fFileIsOpened, stream, cData, ownerVars,
                   alive>>
-----------------------------------------------------------------------------
(* The owner: closeFile() and SystemController::closeFileHandler() *)

CloseFile ==
    /\ owner = "idle"
    /\ owner' = "load"
    /\ closings' = 1
    /\ UNCHANGED <<queueVars, fMutex, fMemberMutex, fFileIsOpened, streamVars,
                   writerVars, dying, reopened, alive>>

(* file_open() under the members' mutex, closeFile() if it is, then delete, *)
(* whose destructor calls closeFile() again.                                *)
CloseFileHandler ==
    /\ owner = "idle"
    /\ pushing = {}
    /\ fMemberMutex = Free
    /\ owner' = "load"
    /\ closings' = IF fFileIsOpened THEN 2 ELSE 1
    /\ dying' = TRUE
    /\ UNCHANGED <<queueVars, fMutex, fMemberMutex, fFileIsOpened, streamVars,
                   writerVars, reopened, alive>>

CloseLoad ==
    /\ owner = "load"
    /\ fFileIsOpened' = FALSE
    /\ owner' = IF fFileIsOpened /\ writer # "joined" THEN "join" ELSE "stream"
    /\ UNCHANGED <<queueVars, fMutex, fMemberMutex, streamVars, writerVars,
                   closings, dying, reopened, alive>>

CloseJoin ==
    /\ owner = "join"
    /\ writer = "done"
    /\ writer' = "joined"
    /\ owner' = "stream"
    /\ UNCHANGED <<queueVars, fMutex, fMemberMutex, fFileIsOpened, streamVars,
                   cData, closings, dying, reopened, alive>>

CloseStream ==
    /\ owner = "stream"
    /\ IF stream = "open" THEN Drain /\ stream' = "closed"
                          ELSE UNCHANGED streamVars
    /\ closings' = closings - 1
    /\ owner' = IF closings > 1 THEN "load"
                ELSE IF dying THEN "deleted" ELSE "idle"
    /\ UNCHANGED <<queueVars, fMutex, fMemberMutex, fFileIsOpened, writerVars,
                   dying, reopened, alive>>

(* The process ends without destroying the object: exit(1) in a readout     *)
(* loop, or a kill.                                                         *)
Exit ==
    /\ alive' = FALSE
    /\ UNCHANGED <<queueVars, fMutex, fMemberMutex, fFileIsOpened, streamVars,
                   writerVars, ownerVars>>
-----------------------------------------------------------------------------
ProducerStep == \E p \in Producers : SetPush(p) \/ \E d \in Payload : SetLock(p, d)

WriterStep ==
    \/ LoopTest \/ DequeueEnter \/ DequeueTimeout \/ DequeuePop
    \/ MemberLock \/ WriteBlock \/ WriteEmpty \/ FlushBlock

OwnerCall == Construct \/ Reopen \/ CloseFile \/ CloseFileHandler
OwnerStep == CloseLoad \/ CloseJoin \/ CloseStream

Next == alive /\ (ProducerStep \/ WriterStep \/ OwnerCall \/ OwnerStep \/ Exit)

Spec == Init /\ [][Next]_vars

(* The writer thread and a call under way are scheduled; a producer inside  *)
(* set() leaves it.  Nobody is obliged to call anything.                    *)
Fairness ==
    /\ WF_vars(alive /\ WriterStep)
    /\ WF_vars(alive /\ OwnerStep)
    /\ WF_vars(alive /\ \E p \in Producers : SetPush(p))

FairSpec == Spec /\ Fairness
-----------------------------------------------------------------------------
(* Properties *)

(* The queue is a plain std::queue: push and pop never overlap, because     *)
(* set() and dequeue() hold fMutex around them.                             *)
QueueExclusive ==
    /\ writer = "pop" => pushing = {}
    /\ \A p, q \in pushing : p = q

(* front() and pop() are never called on an empty queue, although the       *)
(* predicate of wait_for() is the wrong way round.                          *)
PopHasFront == writer = "pop" => fQueue # <<>>

(* The file is a prefix of what was pushed, in the order it was pushed: no  *)
(* block is lost in the middle, repeated or overtaken, whenever the process *)
(* stops.                                                                   *)
DiskIsPrefix == IsPrefix(disk, accepted)

(* Every block is in exactly one place until the stream is closed: the      *)
(* file, the stream, the writer's hand or the queue.                        *)
InHand == IF writer \in {"member", "write"} THEN <<cData>> ELSE <<>>
Conservation ==
    stream \in {"open", "closed"} /\ ~reopened
        => accepted = disk \o buf \o InHand \o fQueue

(* The stream is closed, and the object deleted, only once the writer       *)
(* thread has been joined: close() does not race with write().              *)
CloseAfterJoin == owner \in {"stream", "deleted"} => writer = "joined"

(* While the file stays open every pushed block reaches it.                 *)
Leaving == ~alive \/ ~fFileIsOpened \/ reopened \/ stream # "open"
EventuallyStored ==
    \A n \in 1..MaxSets : Len(accepted) >= n ~> Len(disk) >= n \/ Leaving

(* closeFile() returns: joining the writer never blocks for good.           *)
CloseReturns == owner \in {"load", "join", "stream"} ~> owner \in {"idle", "deleted"} \/ ~alive

(* What makes these inductive: who holds the mutexes, what the control      *)
(* points of the writer and of the owner imply, and where the blocks are.   *)
MutexInv ==
    /\ fMutex = Writer <=> writer = "pop"
    /\ \A p \in Producers : p \in pushing <=> fMutex = p
    /\ fMemberMutex = Writer <=> writer \in {"write", "flush"}

ThreadInv ==
    /\ writer = "none" <=> owner = "unborn"
    /\ owner = "unborn" => pushing = {}
    /\ owner \in {"stream", "deleted"} => writer = "joined"
    /\ owner \in {"idle", "load"} /\ ~fFileIsOpened => writer = "joined"
    /\ writer \in {"waiting", "pop"} => fQueue # <<>>

StreamInv ==
    /\ stream = "none" <=> owner = "unborn"
    /\ stream = "none" => accepted = <<>> /\ fQueue = <<>> /\ disk = <<>> /\ buf = <<>>
    /\ owner = "idle" /\ ~fFileIsOpened => stream # "open"
    /\ stream = "failed" /\ ~reopened => disk = <<>> /\ buf = <<>>
    /\ stream = "closed" \/ reopened => writer = "joined" /\ buf = <<>>

IInv == /\ TypeOK /\ MutexInv /\ ThreadInv /\ StreamInv
        /\ Conservation /\ DiskIsPrefix

(* Seen from outside the object is a raw-data log. *)
Log == INSTANCE RawDataLog WITH
    stored <- disk,
    ended  <- stream \in {"closed", "failed"} \/ reopened
LogSpec == Log!Spec
=============================================================================
