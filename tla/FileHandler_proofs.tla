------------------------- MODULE FileHandler_proofs -------------------------
(***************************************************************************)
(* Theorems about FileHandler, for every set of producers, every set of    *)
(* blocks and every number of calls.                                       *)
(***************************************************************************)
EXTENDS FileHandler, SequenceTheorems, TLAPS

(* Moving the head of a queue in front of what is left changes nothing.    *)
LEMMA HeadTailConcat ==
    ASSUME NEW S, NEW q \in Seq(S), q # <<>>
    PROVE  <<Head(q)>> \o Tail(q) = q
<1>1. /\ <<Head(q)>> \in Seq(S) /\ Len(<<Head(q)>>) = 1
      /\ Tail(q) \in Seq(S) /\ Len(Tail(q)) = Len(q) - 1
      /\ \A i \in 1..Len(Tail(q)) : Tail(q)[i] = q[i + 1]
  BY HeadTailProperties
<1>2. /\ <<Head(q)>> \o Tail(q) \in Seq(S)
      /\ Len(<<Head(q)>> \o Tail(q)) = Len(q)
  BY <1>1, ConcatProperties, LenProperties
<1>3. ASSUME NEW i \in 1..Len(q)
      PROVE  (<<Head(q)>> \o Tail(q))[i] = q[i]
  BY <1>1, <1>3, ConcatProperties, LenProperties
<1>4. QED
  BY <1>2, <1>3, SeqEqual

(* A sequence is a prefix of each of its extensions.                       *)
LEMMA PrefixOfConcat ==
    ASSUME NEW S, NEW s \in Seq(S), NEW t \in Seq(S)
    PROVE  IsPrefix(s, s \o t)
<1>1. /\ s \o t \in Seq(S)
      /\ Len(s \o t) = Len(s) + Len(t)
      /\ Len(s) \in Nat /\ Len(t) \in Nat
  BY ConcatProperties, LenProperties
<1>2. /\ SubSeq(s, 1, Len(s)) \in Seq(S)
      /\ Len(SubSeq(s, 1, Len(s))) = Len(s)
      /\ SubSeq(s \o t, 1, Len(s)) \in Seq(S)
      /\ Len(SubSeq(s \o t, 1, Len(s))) = Len(s)
      /\ \A i \in 1..Len(s) : /\ SubSeq(s, 1, Len(s))[i] = s[i]
                              /\ SubSeq(s \o t, 1, Len(s))[i] = (s \o t)[i]
  BY <1>1
<1>3. \A i \in 1..Len(s) : (s \o t)[i] = s[i]
  BY <1>1, ConcatProperties
<1>4. SubSeq(s, 1, Len(s)) = SubSeq(s \o t, 1, Len(s))
  BY <1>2, <1>3, SeqEqual
<1>5. QED
  BY <1>1, <1>4 DEF IsPrefix

(* The initial state satisfies the inductive invariant.                    *)
LEMMA InitInv == Init => IInv
<1> SUFFICES ASSUME Init PROVE IInv
  OBVIOUS
<1> USE FileHandlerAssumption DEF Init
<1>1. FlagsOK
  BY Zenon DEF FlagsOK
<1>2. DataOK
  BY DEF DataOK
<1>3. MutexInv /\ ThreadInv /\ StreamInv /\ Conservation
  BY DEF MutexInv, ThreadInv, StreamInv, Conservation
<1>4. DiskIsPrefix
  BY DEF DiskIsPrefix, IsPrefix
<1>5. QED
  BY <1>1, <1>2, <1>3, <1>4 DEF IInv, TypeOK

(* Every step of the handler preserves it.                                 *)
LEMMA StepInv == IInv /\ [Next]_vars => IInv'
<1> SUFFICES ASSUME IInv, [Next]_vars PROVE IInv'
  OBVIOUS
<1> USE FileHandlerAssumption
    DEF IInv, TypeOK, vars, queueVars, streamVars, writerVars, ownerVars
<1> DEFINE Rest == DataOK /\ MutexInv /\ ThreadInv /\ StreamInv
                   /\ Conservation /\ DiskIsPrefix
<1>0. InHand \in Seq(Payload)
  BY DEF InHand, DataOK
<1>1. CASE Construct
  <2>1. FlagsOK'
    BY <1>1, Zenon DEF Construct, OpenFile, FlagsOK
  <2>2. Rest'
    BY <1>1
       DEF Construct, OpenFile, DataOK, MutexInv, ThreadInv, StreamInv, Conservation, InHand,
           DiskIsPrefix, IsPrefix
  <2>3. QED
    BY <2>1, <2>2
<1>2. CASE Reopen
  <2>1. FlagsOK'
    BY <1>2, Zenon DEF Reopen, OpenFile, FlagsOK
  <2>2. Rest'
    BY <1>2
       DEF Reopen, OpenFile, DataOK, MutexInv, ThreadInv, StreamInv, Conservation, InHand,
           DiskIsPrefix, IsPrefix
  <2>3. QED
    BY <2>1, <2>2
<1>3. ASSUME NEW p \in Producers, NEW d \in Payload, SetLock(p, d)
      PROVE  IInv'
  <2>1. FlagsOK'
    BY <1>3, Zenon DEF SetLock, FlagsOK
  <2>2. Rest'
    BY <1>3
       DEF SetLock, DataOK, MutexInv, ThreadInv, StreamInv, Conservation, InHand,
           DiskIsPrefix, IsPrefix
  <2>3. QED
    BY <2>1, <2>2
<1>4. ASSUME NEW p \in Producers, SetPush(p)
      PROVE  IInv'
  <2>1. FlagsOK'
    BY <1>4, Zenon DEF SetPush, FlagsOK
  <2>2. DataOK'
    BY <1>4 DEF SetPush, DataOK, ThreadInv
  <2>3. MutexInv'
    BY <1>4 DEF SetPush, DataOK, MutexInv, ThreadInv
  <2>4. ThreadInv'
    <3>1. fQueue' # <<>>
      BY <1>4, AppendProperties DEF SetPush, DataOK
    <3>2. QED
      BY <1>4, <3>1 DEF SetPush, DataOK, ThreadInv
  <2>5. StreamInv'
    BY <1>4 DEF SetPush, DataOK, ThreadInv, StreamInv
  <2>6. Conservation'
    <3> DEFINE gone == disk \o buf \o InHand
    <3>1. gone \in Seq(Payload)
      BY <1>0, ConcatProperties DEF DataOK
    <3>2. pVector[p] \in Payload
      BY <1>4 DEF SetPush, DataOK
    <3>3. /\ gone \o fQueue \in Seq(Payload)
          /\ <<pVector[p]>> \in Seq(Payload)
      BY <3>1, <3>2, ConcatProperties DEF DataOK
    <3>4. /\ accepted' = accepted \o <<pVector[p]>>
          /\ fQueue' = fQueue \o <<pVector[p]>>
      BY <1>4, <3>2, AppendIsConcat DEF SetPush, DataOK
    <3>5. (gone \o fQueue) \o <<pVector[p]>> = gone \o (fQueue \o <<pVector[p]>>)
      <4> DEFINE one == <<pVector[p]>>
      <4>1. fQueue \in Seq(Payload) /\ one \in Seq(Payload)
        BY <3>3 DEF DataOK
      <4> HIDE DEF gone, one
      <4>2. (gone \o fQueue) \o one = gone \o (fQueue \o one)
        BY <3>1, <4>1, ConcatAssociative
      <4>3. QED
        BY <4>2 DEF one
    <3>6. gone' = gone
      BY <1>4 DEF SetPush, InHand
    <3>7. QED
      BY <1>4, <3>4, <3>5, <3>6 DEF SetPush, Conservation
  <2>7. DiskIsPrefix'
    BY <1>4 DEF SetPush, DataOK, ThreadInv, StreamInv, DiskIsPrefix, Conservation, InHand, IsPrefix
  <2>8. QED
    BY <2>1, <2>2, <2>3, <2>4, <2>5, <2>6, <2>7
<1>5. CASE LoopTest
  <2>1. FlagsOK'
    BY <1>5, Zenon DEF LoopTest, FlagsOK
  <2>2. Rest'
    BY <1>5
       DEF LoopTest, DataOK, MutexInv, ThreadInv, StreamInv, Conservation, InHand,
           DiskIsPrefix, IsPrefix
  <2>3. QED
    BY <2>1, <2>2
<1>6. CASE DequeueEnter
  <2>1. FlagsOK'
    BY <1>6, Zenon DEF DequeueEnter, FlagsOK
  <2>2. Rest'
    BY <1>6
       DEF DequeueEnter, DataOK, MutexInv, ThreadInv, StreamInv, Conservation, InHand,
           DiskIsPrefix, IsPrefix
  <2>3. QED
    BY <2>1, <2>2
<1>7. CASE DequeueTimeout
  <2>1. FlagsOK'
    BY <1>7, Zenon DEF DequeueTimeout, FlagsOK
  <2>2. Rest'
    BY <1>7
       DEF DequeueTimeout, DataOK, MutexInv, ThreadInv, StreamInv, Conservation, InHand,
           DiskIsPrefix, IsPrefix
  <2>3. QED
    BY <2>1, <2>2
<1>8. CASE DequeuePop
  <2>1. FlagsOK'
    BY <1>8, Zenon DEF DequeuePop, FlagsOK
  <2>2. DataOK'
    BY <1>8 DEF DequeuePop, DataOK, ThreadInv
  <2>3. MutexInv'
    BY <1>8 DEF DequeuePop, DataOK, MutexInv, ThreadInv
  <2>4. ThreadInv'
    BY <1>8 DEF DequeuePop, DataOK, ThreadInv
  <2>5. StreamInv'
    BY <1>8 DEF DequeuePop, DataOK, ThreadInv, StreamInv
  <2>6. Conservation'
    <3> DEFINE filed == disk \o buf
    <3>1. fQueue # <<>> /\ InHand = <<>> /\ InHand' = <<Head(fQueue)>>
      BY <1>8 DEF DequeuePop, ThreadInv, InHand
    <3>2. /\ filed \in Seq(Payload)
          /\ <<Head(fQueue)>> \in Seq(Payload) /\ Tail(fQueue) \in Seq(Payload)
      BY <3>1, ConcatProperties, HeadTailProperties DEF DataOK
    <3>3. filed \o InHand' \o fQueue' = filed \o (<<Head(fQueue)>> \o Tail(fQueue))
      BY <1>8, <3>1, <3>2, ConcatAssociative DEF DequeuePop
    <3>4. filed \o InHand \o fQueue = filed \o fQueue
      BY <3>1, <3>2, ConcatEmptySeq
    <3>5. <<Head(fQueue)>> \o Tail(fQueue) = fQueue
      BY <3>1, HeadTailConcat DEF DataOK
    <3>6. filed' = filed
      BY <1>8 DEF DequeuePop
    <3>7. QED
      BY <1>8, <3>3, <3>4, <3>5, <3>6 DEF DequeuePop, Conservation
  <2>7. DiskIsPrefix'
    BY <1>8 DEF DequeuePop, DataOK, ThreadInv, StreamInv, DiskIsPrefix, Conservation, InHand,
         IsPrefix
  <2>8. QED
    BY <2>1, <2>2, <2>3, <2>4, <2>5, <2>6, <2>7
<1>9. CASE MemberLock
  <2>1. FlagsOK'
    BY <1>9, Zenon DEF MemberLock, FlagsOK
  <2>2. Rest'
    BY <1>9
       DEF MemberLock, DataOK, MutexInv, ThreadInv, StreamInv, Conservation, InHand,
           DiskIsPrefix, IsPrefix
  <2>3. QED
    BY <2>1, <2>2
<1>10. CASE WriteBlock
  <2> DEFINE filed == disk \o buf
  <2>1. FlagsOK'
    BY <1>10, Zenon DEF WriteBlock, FlagsOK
  <2>2. /\ cData \in Payload /\ ~reopened
        /\ InHand = <<cData>> /\ InHand' = <<>>
        /\ filed \in Seq(Payload) /\ <<cData>> \in Seq(Payload)
    BY <1>10, ConcatProperties DEF WriteBlock, DataOK, StreamInv, InHand
  <2>3. /\ Append(buf, cData) \in Seq(Payload)
        /\ Append(filed, cData) \in Seq(Payload)
        /\ Append(filed, cData) = filed \o <<cData>>
        /\ Append(buf, cData) = buf \o <<cData>>
        /\ disk \o (buf \o <<cData>>) = filed \o <<cData>>
    <3>1. /\ Append(buf, cData) \in Seq(Payload)
          /\ Append(filed, cData) \in Seq(Payload)
      BY <2>2, AppendProperties DEF DataOK
    <3>2. /\ Append(filed, cData) = filed \o <<cData>>
          /\ Append(buf, cData) = buf \o <<cData>>
      BY <2>2, AppendIsConcat DEF DataOK
    <3>3. disk \o (buf \o <<cData>>) = filed \o <<cData>>
      BY <2>2, ConcatAssociative DEF DataOK
    <3>4. QED
      BY <3>1, <3>2, <3>3
  <2>4. DataOK'
    <3>1. disk' \in Seq(Payload) /\ buf' \in Seq(Payload)
      BY <1>10, <2>3, EmptySeq DEF WriteBlock, DataOK
    <3>2. header' \in {"none", "buffered", "stored"}
      BY <1>10 DEF WriteBlock, DataOK
    <3>3. QED
      BY <1>10, <3>1, <3>2 DEF WriteBlock, DataOK
  <2>5. (MutexInv /\ ThreadInv /\ StreamInv)'
    BY <1>10 DEF WriteBlock, DataOK, MutexInv, ThreadInv, StreamInv
  <2>6. stream = "open" => filed' = filed \o <<cData>>
    BY <1>10, <2>3, ConcatEmptySeq DEF WriteBlock
  <2>7. Conservation'
    <3>1. stream = "open"
          => filed' \o InHand' \o fQueue' = filed \o InHand \o fQueue
      BY <1>10, <2>2, <2>4, <2>6, ConcatEmptySeq, ConcatProperties
         DEF WriteBlock, DataOK
    <3>2. stream # "closed"
      BY <1>10 DEF WriteBlock, StreamInv
    <3>3. QED
      BY <1>10, <3>1, <3>2 DEF WriteBlock, Conservation
  <2>8. DiskIsPrefix'
    <3>1. CASE disk' = disk
      BY <1>10, <3>1 DEF WriteBlock, DiskIsPrefix
    <3>2. CASE stream = "open" /\ disk' = Append(filed, cData)
      <4>1. accepted' = disk' \o fQueue
        BY <1>10, <2>2, <2>3, <3>2 DEF WriteBlock, Conservation
      <4>2. QED
        BY <2>4, <4>1, PrefixOfConcat DEF DiskIsPrefix, DataOK
    <3>3. QED
      BY <1>10, <3>1, <3>2 DEF WriteBlock
  <2>9. QED
    BY <2>1, <2>4, <2>5, <2>7, <2>8
<1>11. CASE WriteEmpty
  <2>1. FlagsOK'
    BY <1>11, Zenon DEF WriteEmpty, FlagsOK
  <2>2. Rest'
    BY <1>11
       DEF WriteEmpty, DataOK, MutexInv, ThreadInv, StreamInv, Conservation, InHand,
           DiskIsPrefix, IsPrefix
  <2>3. QED
    BY <2>1, <2>2
<1>12. CASE FlushBlock
  <2>1. FlagsOK'
    BY <1>12, Zenon DEF FlushBlock, Drain, FlagsOK
  <2>2. DataOK'
    BY <1>12 DEF FlushBlock, Drain, DataOK, ThreadInv
  <2>3. MutexInv'
    BY <1>12 DEF FlushBlock, Drain, DataOK, MutexInv, ThreadInv
  <2>4. ThreadInv'
    BY <1>12 DEF FlushBlock, Drain, DataOK, ThreadInv
  <2>5. StreamInv'
    BY <1>12 DEF FlushBlock, Drain, DataOK, ThreadInv, StreamInv
  <2>6. Conservation'
    BY <1>12 DEF FlushBlock, Drain, DataOK, ThreadInv, StreamInv, Conservation, InHand
  <2>7. DiskIsPrefix'
    BY <1>12 DEF FlushBlock, Drain, DataOK, ThreadInv, StreamInv, DiskIsPrefix, Conservation,
         InHand, IsPrefix
  <2>8. QED
    BY <2>1, <2>2, <2>3, <2>4, <2>5, <2>6, <2>7
<1>13. CASE CloseFile
  <2>1. FlagsOK'
    BY <1>13, Zenon DEF CloseFile, FlagsOK
  <2>2. Rest'
    BY <1>13
       DEF CloseFile, DataOK, MutexInv, ThreadInv, StreamInv, Conservation, InHand,
           DiskIsPrefix, IsPrefix
  <2>3. QED
    BY <2>1, <2>2
<1>14. CASE CloseFileHandler
  <2>1. FlagsOK'
    BY <1>14, Zenon DEF CloseFileHandler, FlagsOK
  <2>2. Rest'
    BY <1>14
       DEF CloseFileHandler, DataOK, MutexInv, ThreadInv, StreamInv, Conservation, InHand,
           DiskIsPrefix, IsPrefix
  <2>3. QED
    BY <2>1, <2>2
<1>15. CASE CloseLoad
  <2>1. FlagsOK'
    BY <1>15, Zenon DEF CloseLoad, FlagsOK
  <2>2. Rest'
    BY <1>15
       DEF CloseLoad, DataOK, MutexInv, ThreadInv, StreamInv, Conservation, InHand,
           DiskIsPrefix, IsPrefix
  <2>3. QED
    BY <2>1, <2>2
<1>16. CASE CloseJoin
  <2>1. FlagsOK'
    BY <1>16, Zenon DEF CloseJoin, FlagsOK
  <2>2. Rest'
    BY <1>16
       DEF CloseJoin, DataOK, MutexInv, ThreadInv, StreamInv, Conservation, InHand,
           DiskIsPrefix, IsPrefix
  <2>3. QED
    BY <2>1, <2>2
<1>17. CASE CloseStream
  <2> DEFINE filed == disk \o buf
  <2>1. FlagsOK'
    BY <1>17, Zenon DEF CloseStream, FlagsOK
  <2>2. /\ writer = "joined" /\ writer' = "joined"
        /\ InHand = <<>> /\ InHand' = <<>>
        /\ filed \in Seq(Payload)
    BY <1>17, ConcatProperties DEF CloseStream, ThreadInv, DataOK, InHand
  <2>3. \/ /\ stream = "open" /\ stream' = "closed"
           /\ disk' = filed /\ buf' = <<>>
           /\ header' \in {"none", "buffered", "stored"}
        \/ stream # "open" /\ UNCHANGED streamVars
    BY <1>17 DEF CloseStream, Drain, DataOK
  <2>4. DataOK'
    <3>1. disk' \in Seq(Payload) /\ buf' \in Seq(Payload)
      BY <2>2, <2>3, EmptySeq DEF DataOK
    <3>2. /\ closings' \in {0, 1, 2}
          /\ owner' \in {"load", "idle", "deleted"}
          /\ owner' = "load" => closings' # 0
      BY <1>17 DEF CloseStream, DataOK
    <3>3. QED
      BY <1>17, <2>2, <2>3, <3>1, <3>2 DEF CloseStream, DataOK
  <2>5. (MutexInv /\ ThreadInv /\ StreamInv)'
    BY <1>17, <2>2, <2>3
       DEF CloseStream, DataOK, MutexInv, ThreadInv, StreamInv
  <2>6. accepted' = accepted /\ fQueue' = fQueue /\ reopened' = reopened
    BY <1>17 DEF CloseStream
  <2>7. stream = "open" => filed' = filed
    BY <2>2, <2>3, ConcatEmptySeq
  <2>8. Conservation'
    BY <2>2, <2>3, <2>6, <2>7 DEF Conservation, InHand
  <2>9. DiskIsPrefix'
    <3>1. CASE stream = "open" /\ ~reopened
      <4>1. accepted' = disk' \o fQueue
        BY <2>2, <2>3, <2>6, <3>1, ConcatEmptySeq DEF Conservation
      <4>2. QED
        BY <2>4, <4>1, PrefixOfConcat DEF DiskIsPrefix, DataOK
    <3>2. CASE reopened
      BY <2>3, <2>6, <3>2, ConcatEmptySeq DEF StreamInv, DiskIsPrefix, DataOK
    <3>3. CASE stream # "open"
      BY <2>3, <2>6, <3>3 DEF DiskIsPrefix
    <3>4. QED
      BY <3>1, <3>2, <3>3
  <2>10. QED
    BY <2>1, <2>4, <2>5, <2>8, <2>9
<1>18. CASE Exit
  <2>1. FlagsOK'
    BY <1>18, Zenon DEF Exit, FlagsOK
  <2>2. Rest'
    BY <1>18
       DEF Exit, DataOK, MutexInv, ThreadInv, StreamInv, Conservation, InHand,
           DiskIsPrefix, IsPrefix
  <2>3. QED
    BY <2>1, <2>2
<1>19. CASE UNCHANGED vars
  <2>1. FlagsOK'
    BY <1>19, Zenon DEF FlagsOK
  <2>2. Rest'
    BY <1>19
       DEF DataOK, MutexInv, ThreadInv, StreamInv, Conservation, InHand,
           DiskIsPrefix, IsPrefix
  <2>3. QED
    BY <2>1, <2>2
<1>20. QED
  BY <1>1, <1>2, <1>3, <1>4, <1>5, <1>6, <1>7, <1>8, <1>9, <1>10, <1>11, <1>12, <1>13, <1>14,
       <1>15, <1>16, <1>17, <1>18, <1>19
     DEF Next, ProducerStep, WriterStep, OwnerCall, OwnerStep

(* The inductive invariant holds in every reachable state.                 *)
THEOREM Invariance == Spec => []IInv
<1>1. Init => IInv
  BY InitInv
<1>2. IInv /\ [Next]_vars => IInv'
  BY StepInv
<1>3. QED
  BY <1>1, <1>2, PTL DEF Spec

(* Type correctness: every variable keeps to its range, and a producer     *)
(* inside set() holds a block.                                             *)
THEOREM TypeCorrect == Spec => []TypeOK
<1>1. IInv => TypeOK
  BY DEF IInv
<1>2. QED
  BY <1>1, Invariance, PTL

(* The file is at every moment a prefix of what the acquisition pushed.    *)
THEOREM FileIsPrefix == Spec => []DiskIsPrefix
<1>1. IInv => DiskIsPrefix
  BY DEF IInv
<1>2. QED
  BY <1>1, Invariance, PTL

(* No block is duplicated or dropped between set() and the closed stream.  *)
THEOREM NothingLostOnTheWay == Spec => []Conservation
<1>1. IInv => Conservation
  BY DEF IInv
<1>2. QED
  BY <1>1, Invariance, PTL

(* Push and pop never overlap on the queue.                                *)
THEOREM QueueMutualExclusion == Spec => []QueueExclusive
<1>1. IInv => QueueExclusive
  BY FileHandlerAssumption
     DEF IInv, TypeOK, DataOK, MutexInv, QueueExclusive
<1>2. QED
  BY <1>1, Invariance, PTL

(* The writer pops only a queue that holds something, and the stream is    *)
(* closed only after the writer was joined.                                *)
THEOREM SafePop == Spec => []PopHasFront
<1>1. IInv => PopHasFront
  BY DEF IInv, ThreadInv, PopHasFront
<1>2. QED
  BY <1>1, Invariance, PTL

THEOREM SafeClose == Spec => []CloseAfterJoin
<1>1. IInv => CloseAfterJoin
  BY DEF IInv, ThreadInv, CloseAfterJoin
<1>2. QED
  BY <1>1, Invariance, PTL
(* A prefix is what the first elements of the longer sequence spell.       *)
LEMMA PrefixIsSubSeq ==
    ASSUME NEW S, NEW s \in Seq(S), NEW t \in Seq(S), IsPrefix(s, t)
    PROVE  Len(s) \in 0..Len(t) /\ s = SubSeq(t, 1, Len(s))
<1>1. /\ Len(s) \in Nat /\ Len(t) \in Nat /\ Len(s) <= Len(t)
      /\ SubSeq(s, 1, Len(s)) = SubSeq(t, 1, Len(s))
  BY DEF IsPrefix
<1>2. SubSeq(s, 1, Len(s)) = s
  BY SubSeqFull
<1>3. QED
  BY <1>1, <1>2

(* The handler implements the raw-data log: seen through the file, blocks  *)
(* are stored in the order they were pushed, and once the stream is closed *)
(* nothing is added to what it holds.                                      *)
THEOREM Refinement == Spec => LogSpec
<1> DEFINE over == stream \in {"closed", "failed"} \/ reopened
<1>1. Init => Log!Init
  BY Zenon DEF Init, Log!Init
<1>2. IInv /\ IInv' /\ [Next]_vars => [Log!Next]_(Log!vars)
  <2> SUFFICES ASSUME IInv, IInv', [Next]_vars
               PROVE  [Log!Next]_(Log!vars)
    OBVIOUS
  <2> USE FileHandlerAssumption
      DEF vars, queueVars, streamVars, writerVars, ownerVars
  <2>1. /\ disk \in Seq(Payload) /\ disk' \in Seq(Payload)
        /\ buf \in Seq(Payload) /\ accepted' \in Seq(Payload)
    BY DEF IInv, TypeOK, DataOK
  <2>2. /\ Len(disk') \in 0..Len(accepted')
        /\ disk' = SubSeq(accepted', 1, Len(disk'))
    BY <2>1, PrefixIsSubSeq DEF IInv, DiskIsPrefix
  <2>3. ASSUME UNCHANGED <<accepted, disk, stream, reopened>>
        PROVE  UNCHANGED Log!vars
    BY <2>3 DEF Log!vars
  <2>4. ASSUME accepted' = accepted, ~over, ~over', disk' # disk,
               Len(disk) <= Len(disk')
        PROVE  Log!Store
    <3>1. Len(disk) # Len(disk')
      <4>1. IsPrefix(disk, accepted) /\ accepted \in Seq(Payload)
        BY DEF IInv, DiskIsPrefix, TypeOK, DataOK
      <4>2. disk = SubSeq(accepted, 1, Len(disk))
        BY <2>1, <4>1, PrefixIsSubSeq
      <4>3. QED
        BY <2>2, <2>4, <4>2
    <3>2. Len(disk') \in Len(disk) + 1 .. Len(accepted)
      BY <2>1, <2>2, <2>4, <3>1
    <3>3. QED
      BY <2>2, <2>4, <3>2 DEF Log!Store
  <2>5. ASSUME accepted' = accepted, ~over, over', Len(disk) <= Len(disk')
        PROVE  Log!End
    <3>1. Len(disk') \in Len(disk) .. Len(accepted)
      BY <2>1, <2>2, <2>5
    <3>2. QED
      BY <2>2, <2>5, <3>1 DEF Log!End
  <2>6. ASSUME accepted' = accepted, disk' = <<>>, over, over'
        PROVE  Log!Truncate
    BY <2>6 DEF Log!Truncate
  <2>7. CASE Construct
    <3>1. ~over /\ disk = <<>> /\ disk' = <<>> /\ accepted' = accepted
      BY <2>7 DEF Construct, OpenFile, IInv, ThreadInv, StreamInv
    <3>2. CASE over'
      BY <2>5, <3>1, <3>2, <2>1 DEF Log!Next
    <3>3. CASE ~over'
      BY <3>1, <3>3 DEF Log!vars
    <3>4. QED
      BY <3>2, <3>3
  <2>8. CASE Reopen
    <3>1. over /\ over' /\ accepted' = accepted
      BY <2>8 DEF Reopen, OpenFile, IInv, TypeOK, DataOK, ThreadInv, StreamInv
    <3>2. CASE disk' = <<>>
      BY <2>6, <3>1, <3>2 DEF Log!Next
    <3>3. CASE disk' = disk
      BY <3>1, <3>3 DEF Log!vars
    <3>4. QED
      BY <2>8, <3>2, <3>3 DEF Reopen, OpenFile
  <2>9. ASSUME NEW p \in Producers, SetPush(p)
        PROVE  Log!Accept
    <3>1. pVector[p] \in Payload
      BY <2>9 DEF SetPush, IInv, TypeOK, DataOK
    <3>2. QED
      BY <2>9, <3>1 DEF SetPush, Log!Accept
  <2>10. CASE WriteBlock
    <3>1. ~over \/ stream = "failed"
      BY <2>10 DEF WriteBlock, IInv, StreamInv, TypeOK, DataOK
    <3>2. /\ accepted' = accepted /\ stream' = stream /\ reopened' = reopened
          /\ disk' = disk \/ (stream = "open" /\ disk' = Append(disk \o buf, cData))
      BY <2>10 DEF WriteBlock
    <3>3. CASE disk' = disk
      BY <3>2, <3>3, <2>3
    <3>4. CASE disk' # disk
      <4>1. cData \in Payload
        BY <2>10 DEF WriteBlock, IInv, TypeOK, DataOK
      <4>2. Len(disk) <= Len(disk')
        BY <2>1, <3>2, <3>4, <4>1, ConcatProperties, AppendProperties
      <4>3. ~over /\ ~over'
        BY <3>1, <3>2, <3>4
      <4>4. QED
        BY <2>4, <3>2, <3>4, <4>2, <4>3 DEF Log!Next
    <3>5. QED
      BY <3>3, <3>4
  <2>11. CASE FlushBlock
    <3>1. /\ accepted' = accepted /\ stream' = stream /\ reopened' = reopened
          /\ disk' = disk \o buf
      BY <2>11 DEF FlushBlock, Drain
    <3>2. stream = "failed" => disk' = disk
      BY <2>11, <3>1, ConcatEmptySeq, <2>1 DEF FlushBlock, IInv, StreamInv
    <3>3. CASE disk' = disk
      BY <3>1, <3>3, <2>3
    <3>4. CASE disk' # disk
      <4>1. ~over /\ ~over'
        BY <2>11, <3>1, <3>2, <3>4 DEF FlushBlock, IInv, StreamInv
      <4>2. Len(disk) <= Len(disk')
        BY <2>1, <3>1, ConcatProperties
      <4>3. QED
        BY <2>4, <3>1, <3>4, <4>1, <4>2 DEF Log!Next
    <3>5. QED
      BY <3>3, <3>4
  <2>12. CASE CloseStream
    <3>1. accepted' = accepted /\ reopened' = reopened
      BY <2>12 DEF CloseStream
    <3>2. CASE stream = "open" /\ ~reopened
      <4>1. disk' = disk \o buf /\ stream' = "closed"
        BY <2>12, <3>2 DEF CloseStream, Drain
      <4>2. ~over /\ over'
        BY <3>2, <4>1
      <4>3. Len(disk) <= Len(disk')
        BY <2>1, <4>1, ConcatProperties
      <4>4. QED
        BY <2>5, <3>1, <4>2, <4>3 DEF Log!Next
    <3>3. CASE reopened
      <4>1. disk' = disk
        BY <2>12, <3>3, <2>1, ConcatEmptySeq
           DEF CloseStream, Drain, IInv, StreamInv
      <4>2. QED
        BY <3>1, <3>3, <4>1 DEF Log!vars
    <3>4. CASE stream # "open"
      BY <2>12, <2>3, <3>4 DEF CloseStream
    <3>5. QED
      BY <3>2, <3>3, <3>4
  <2>13. CASE \/ \E p \in Producers, d \in Payload : SetLock(p, d)
             \/ LoopTest \/ DequeueEnter \/ DequeueTimeout \/ DequeuePop
             \/ MemberLock \/ WriteEmpty \/ CloseFile \/ CloseFileHandler
             \/ CloseLoad \/ CloseJoin \/ Exit \/ UNCHANGED vars
    <3>1. UNCHANGED <<accepted, disk, stream, reopened>>
      BY <2>13 DEF SetLock, LoopTest, DequeueEnter, DequeueTimeout,
         DequeuePop, MemberLock, WriteEmpty, CloseFile, CloseFileHandler,
         CloseLoad, CloseJoin, Exit
    <3>2. QED
      BY <2>3, <3>1
  <2>14. QED
    BY <2>7, <2>8, <2>9, <2>10, <2>11, <2>12, <2>13
       DEF Next, ProducerStep, WriterStep, OwnerCall, OwnerStep, Log!Next
<1>3. QED
  BY <1>1, <1>2, Invariance, PTL DEF Spec, LogSpec, Log!Spec
=============================================================================
