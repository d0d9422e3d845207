-------------------------- MODULE EventData_proofs --------------------------
(***************************************************************************)
(* Theorems about EventData, for any boards, event sizes and number of     *)
(* blocks: which thread has the event list when, where a block is from,    *)
(* and that the events are cut from it where they begin and end.           *)
(***************************************************************************)
EXTENDS EventData, FiniteSetTheorems, TLAPS

(* The initial state satisfies the inductive invariant.                    *)
LEMMA InitInv == Init => IInv
<1> SUFFICES ASSUME Init PROVE IInv
  OBVIOUS
<1>1. FutureInv
  BY DEF Init, FutureInv
<1>2. RouteInv
  BY DEF Init, RouteInv
<1>3. QED
  BY <1>1, <1>2 DEF IInv

(* A call that begins leaves the block it will bring unread and what the   *)
(* tool had fetched forgotten.                                             *)
LEMMA BeginReadKeeps ==
    ASSUME IInv, pc = "idle", NEW op, NEW b, NEW w, NEW n, NEW r,
           BeginRead(op, b, w, n, r)
    PROVE  IInv'
<1>1. FutureInv'
  BY DEF IInv, FutureInv, BeginRead, taskVars
<1>2. RouteInv'
  BY DEF IInv, RouteInv, BeginRead, boardVars, taskVars
<1>3. QED
  BY <1>1, <1>2 DEF IInv

(* The board is asked through its own interface and what it delivers is    *)
(* the newest block.                                                       *)
LEMMA DeliverGives ==
    ASSUME NEW b, NEW n, Deliver(b, n)
    PROVE  block'.nr = sent' /\ block'.board = b
<1>1. PICK sizes, bad : /\ block' = Block(b, sent + 1, sizes, bad)
                        /\ sent' = sent + 1
  BY DEF Deliver
<1>2. QED
  BY <1>1 DEF Block

(* Every step keeps the inductive invariant.                               *)
LEMMA NextInv == IInv /\ [Next]_vars => IInv'
<1> SUFFICES ASSUME IInv, [Next]_vars PROVE IInv'
  OBVIOUS
<1>1. ASSUME NEW b \in BoardSet, NEW w \in BOOLEAN, CallReadData(b, w)
      PROVE  IInv'
  BY <1>1, BeginReadKeeps DEF CallReadData
<1>2. ASSUME NEW b \in BoardSet, NEW n \in 1..MaxEvents,
             CallReadNEvents(b, n) \/ CallSetData(b, n)
      PROVE  IInv'
  BY <1>2, BeginReadKeeps DEF CallReadNEvents, CallSetData
<1>3. ASSUME NEW op, NEW w, NEW n, CallReadAll(op, w, n)
      PROVE  IInv'
  BY <1>3, BeginReadKeeps DEF CallReadAll
<1>4. ASSUME NEW op, NEW i, CallGet(op, i)
      PROVE  IInv'
  <2>1. FutureInv'
    BY <1>4 DEF IInv, FutureInv, CallGet
  <2>2. call'.board = call.board
    BY <1>4 DEF CallGet, NoCall
  <2>3. RouteInv'
    BY <1>4, <2>2 DEF IInv, RouteInv, CallGet, boardVars
  <2>4. QED
    BY <2>1, <2>3 DEF IInv
<1>5. CASE CallDestroy
  <2>1. FutureInv'
    BY <1>5 DEF IInv, FutureInv, CallDestroy, taskVars
  <2>2. RouteInv'
    BY <1>5 DEF IInv, RouteInv, CallDestroy, boardVars, taskVars
  <2>3. QED
    BY <2>1, <2>2 DEF IInv
<1>6. CASE DeleteEvents
  <2>1. FutureInv'
    BY <1>6 DEF IInv, FutureInv, DeleteEvents, taskVars, Running
  <2>2. RouteInv'
    BY <1>6 DEF IInv, RouteInv, DeleteEvents, boardVars, taskVars, toolVars
  <2>3. QED
    BY <2>1, <2>2 DEF IInv
<1>7. CASE NewData
  <2>1. FutureInv'
    BY <1>7 DEF IInv, FutureInv, NewData
  <2>2. RouteInv'
    BY <1>7 DEF IInv, RouteInv, NewData, boardVars, toolVars
  <2>3. QED
    BY <2>1, <2>2 DEF IInv
<1>8. CASE Destroyed
  <2>1. FutureInv'
    BY <1>8 DEF IInv, FutureInv, Destroyed
  <2>2. RouteInv'
    BY <1>8 DEF IInv, RouteInv, Destroyed, boardVars, toolVars
  <2>3. QED
    BY <2>1, <2>2 DEF IInv
<1>9. CASE Read
  <2>1. pc = "read" /\ pc' = "set" /\ call' = call
    BY <1>9 DEF Read
  <2>2. FutureInv'
    BY <1>9 DEF IInv, FutureInv, Read, taskVars
  <2>3. block = NoBlock
    BY <2>1 DEF IInv, RouteInv
  <2>4. /\ prevBoard' = fBoardFW'
        /\ block' # NoBlock => block'.nr = sent' /\ block'.board = call.board
    <3>1. CASE /\ call.op = "ReadData"
               /\ SetBoard(call.board)
               /\ \/ \E n \in 1..MaxEvents : Deliver(fBoardFW', n)
                  \/ ~call.pWait /\ UNCHANGED <<block, sent>>
      <4>1. prevBoard' = call.board /\ fBoardFW' = call.board
        BY <3>1 DEF SetBoard, IInv, RouteInv
      <4>2. QED
        BY <2>3, <3>1, <4>1, DeliverGives
    <3>2. CASE SetBoard(call.board) /\ Deliver(fBoardFW', call.n)
      <4>1. prevBoard' = call.board /\ fBoardFW' = call.board
        BY <3>2 DEF SetBoard, IInv, RouteInv
      <4>2. QED
        BY <3>2, <4>1, DeliverGives
    <3>3. CASE Deliver(call.board, call.n) /\ UNCHANGED <<prevBoard, fBoardFW>>
      BY <3>3, DeliverGives DEF IInv, RouteInv
    <3>4. QED
      BY <1>9, <3>1, <3>2, <3>3 DEF Read
  <2>5. RouteInv'
    BY <2>1, <2>4 DEF RouteInv
  <2>6. QED
    BY <2>2, <2>5 DEF IInv
<1>10. CASE Set
  <2>1. /\ pc = "set" /\ block' = NoBlock /\ UNCHANGED <<boardVars, fetched>>
        /\ \/ pc' = "idle" /\ UNCHANGED <<call, clean>>
           \/ pc' = "delete" /\ (clean' = (clean /\ block.words = <<>>))
    <3>1. /\ pc = "set" /\ block' = NoBlock
          /\ UNCHANGED <<boardVars, fetched>> /\ Onward
      BY <1>10 DEF Set
    <3>2. CASE rest = <<>>
      BY <3>1, <3>2 DEF Onward
    <3>3. CASE rest # <<>>
      <4>1. pc' = "delete" /\ (clean' = (clean /\ block.words = <<>>))
        BY <3>1, <3>3, Zenon DEF Onward
      <4>2. QED
        BY <3>1, <4>1, Zenon
    <3>4. QED
      BY <3>2, <3>3
  <2>2. ~fFuture /\ fetched = Nothing
    BY <2>1 DEF IInv, FutureInv
  <2>3. CASE block.words = <<>>
    <3>1. UNCHANGED taskVars
      BY <1>10, <2>3 DEF Set
    <3>2. FutureInv'
      BY <2>1, <2>2, <3>1 DEF IInv, FutureInv, taskVars
    <3>3. RouteInv'
      BY <2>1, <2>2, <3>1 DEF IInv, RouteInv, boardVars, taskVars
    <3>4. QED
      BY <3>2, <3>3 DEF IInv
  <2>4. CASE block.words # <<>>
    <3>1. fFuture' = TRUE /\ task' \in {"started", "deferred"} /\ given' = block
      BY <1>10, <2>4 DEF Set
    <3>2. FutureInv'
      BY <2>1, <2>2, <2>4, <3>1 DEF IInv, FutureInv
    <3>3. block # NoBlock
      BY <2>4 DEF NoBlock
    <3>4. RouteInv'
      BY <2>1, <2>2, <3>1, <3>3 DEF IInv, RouteInv, boardVars
    <3>5. QED
      BY <3>2, <3>4 DEF IInv
  <2>5. QED
    BY <2>3, <2>4
<1>11. CASE Return
  <2>1. FutureInv'
    BY <1>11 DEF IInv, FutureInv, Return, FutureReady
  <2>2. RouteInv'
    BY <1>11 DEF IInv, RouteInv, FutureInv, Return, boardVars, toolVars
  <2>3. QED
    BY <2>1, <2>2 DEF IInv
<1>12. CASE TaskStep
  <2>1. /\ UNCHANGED <<boardVars, fFuture, given, toolVars, pc, fetched, clean>>
        /\ task \in {"started", "loop"}
        /\ task' \in {"started", "loop", "done"}
    <3>1. CASE TaskReset
      BY <3>1 DEF TaskReset
    <3>2. CASE FixedWord
      BY <3>2 DEF FixedWord, MoreWords, PushEvent, KeepWord, taskRest
    <3>3. CASE ZSWord
      BY <3>3 DEF ZSWord, MoreWords, PushEvent, KeepWord, taskRest
    <3>4. CASE TaskDone
      BY <3>4 DEF TaskDone, taskRest
    <3>5. QED
      BY <1>12, <3>1, <3>2, <3>3, <3>4 DEF TaskStep
  <2>2. FutureInv'
    BY <2>1 DEF IInv, FutureInv
  <2>3. RouteInv'
    BY <2>1 DEF IInv, RouteInv, boardVars, toolVars
  <2>4. QED
    BY <2>2, <2>3 DEF IInv
<1>13. CASE UNCHANGED vars
  <2>1. FutureInv'
    BY <1>13 DEF IInv, FutureInv, vars, taskVars
  <2>2. RouteInv'
    BY <1>13 DEF IInv, RouteInv, vars, boardVars, taskVars, toolVars
  <2>3. QED
    BY <2>1, <2>2 DEF IInv
<1>14. QED
  BY <1>1, <1>2, <1>3, <1>4, <1>5, <1>6, <1>7, <1>8, <1>9, <1>10, <1>11,
     <1>12, <1>13
  DEF Next, ToolCall, ToolStep

(* The inductive invariant holds in every reachable state, for any boards, *)
(* event sizes and number of reads.                                        *)
THEOREM Invariance == Spec => []IInv
<1>1. QED
  BY InitInv, NextInv, PTL DEF Spec

(* A tool that fetches once after each read never shares the event list    *)
(* with the task and never meets a failing getter, whether the library     *)
(* runs the task in a thread or in the getter.                             *)
THEOREM DisciplinedToolsAreSafe == Spec => []DisciplineSuffices
<1>1. IInv => DisciplineSuffices
  BY DEF IInv, FutureInv, DisciplineSuffices, Running
<1>2. QED
  BY <1>1, Invariance, PTL

(* What a getter gives comes from the newest block, and that one from the  *)
(* board the last read was for: setBoard() never leaves the wrong          *)
(* interface selected, and no older Data object answers.                   *)
THEOREM AnswersTheLastRead == Spec => []LastRead
<1>1. IInv => LastRead
  BY DEF IInv, FutureInv, RouteInv, LastRead
<1>2. QED
  BY <1>1, Invariance, PTL
-----------------------------------------------------------------------------
(* A set of naturals that is not empty has a least element: the finite     *)
(* sets 1 .. x are well founded by inclusion.                              *)
LEMMA Least ==
    ASSUME NEW S, S \subseteq Nat, S # {}
    PROVE  \E x \in S : \A y \in S : x <= y
<1> DEFINE T == {1 .. x : x \in S}
           R == StrictSubsetOrdering(Nat)
           F == FiniteSubsetsOf(Nat)
<1>1. IsWellFoundedOn(R, F)
  BY FS_StrictSubsetOrderingWellFounded
<1>2. T \subseteq F /\ T # {}
  <2>1. \A x \in S : IsFiniteSet(1 .. x) /\ 1 .. x \in SUBSET Nat
    BY FS_Interval
  <2> QED
    BY <2>1 DEF FiniteSubsetsOf
<1>3. PICK U \in T : \A V \in T : ~ (<<V, U>> \in R)
  <2> HIDE DEF T, R, F
  <2> QED
    BY <1>1, <1>2, WFMin
<1>4. PICK x \in S : U = 1 .. x
  BY <1>3
<1>5. ASSUME NEW y \in S, y < x PROVE FALSE
  <2>1. 1 .. y \subseteq 1 .. x /\ x \in 1 .. x /\ x \notin 1 .. y
    BY <1>5
  <2>2. <<1 .. y, 1 .. x>> \in R
    BY <2>1 DEF StrictSubsetOrdering
  <2> QED
    BY <2>2, <1>3, <1>4
<1> QED
  BY <1>5

(* Induction over the naturals, for a set of them.                         *)
LEMMA Naturals ==
    ASSUME NEW S, 0 \in S, \A n \in Nat : n \in S => n + 1 \in S
    PROVE  Nat \subseteq S
<1>1. SUFFICES ASSUME Nat \ S # {} PROVE FALSE
  OBVIOUS
<1>2. PICK x \in Nat \ S : \A y \in Nat \ S : x <= y
  BY <1>1, Least
<1>3. x - 1 \in Nat /\ x - 1 \notin Nat \ S
  BY <1>2
<1> QED
  BY <1>2, <1>3

(* The recursive function by which sequences are joined.                   *)
Joined(seqs, f) ==
    f = [i \in 1 .. Len(seqs) |-> IF i = 1 THEN seqs[i] ELSE f[i - 1] \o seqs[i]]

(* FlattenSeq is computed by that function, which there always is.         *)
LEMMA JoinedIs ==
    ASSUME NEW S, NEW seqs \in Seq(Seq(S)), Len(seqs) # 0
    PROVE  \E f : Joined(seqs, f) /\ FlattenSeq(seqs) = f[Len(seqs)]
<1> DEFINE n == Len(seqs)
           Part(k, f) == f = [i \in 1 .. k |-> IF i = 1 THEN seqs[i] ELSE f[i - 1] \o seqs[i]]
           P(k) == \E f : Part(k, f)
           K == {k \in Nat : P(k)}
<1>1. P(0)
  <2>1. [i \in 1 .. 0 |-> i] = [i \in 1 .. 0 |-> IF i = 1 THEN seqs[i] ELSE [j \in 1 .. 0 |-> j][i - 1] \o seqs[i]]
    <3>1. 1 .. 0 = {}
      OBVIOUS
    <3> QED
      BY <3>1
  <2> QED
    BY Zenon, <2>1
<1>2. ASSUME NEW k \in Nat, P(k) PROVE P(k + 1)
  <2>1. PICK f : Part(k, f)
    BY Zenon, <1>2
  <2> DEFINE g == [i \in 1 .. k + 1 |-> IF i <= k THEN f[i] ELSE IF i = 1 THEN seqs[i] ELSE f[i - 1] \o seqs[i]]
  <2>2. \A i \in 1 .. k : f[i] = IF i = 1 THEN seqs[i] ELSE f[i - 1] \o seqs[i]
    BY Zenon, <2>1
  <2>3. \A i \in 1 .. k + 1 : i # 1 => i - 1 \in 1 .. k /\ i - 1 \in 1 .. k + 1 /\ i - 1 <= k
    OBVIOUS
  <2>4. \A i \in 1 .. k + 1 : i <= k => i \in 1 .. k
    OBVIOUS
  <2>5. ASSUME NEW i \in 1 .. k + 1 PROVE g[i] = IF i = 1 THEN seqs[i] ELSE g[i - 1] \o seqs[i]
    <3>1. i # 1 => g[i - 1] = f[i - 1]
      BY Zenon, <2>3
    <3>2. g[i] = IF i <= k THEN f[i] ELSE IF i = 1 THEN seqs[i] ELSE f[i - 1] \o seqs[i]
      BY Zenon
    <3>3. CASE i <= k
      BY Zenon, <2>2, <2>4, <3>1, <3>2, <3>3
    <3>4. CASE ~(i <= k)
      BY Zenon, <3>1, <3>2, <3>4
    <3> QED
      BY <3>3, <3>4
  <2>6. g = [i \in 1 .. k + 1 |-> g[i]]
    BY Zenon
  <2> HIDE DEF g
  <2>7. g = [i \in 1 .. k + 1 |-> IF i = 1 THEN seqs[i] ELSE g[i - 1] \o seqs[i]]
    BY Zenon, <2>5, <2>6
  <2> QED
    BY Zenon, <2>7
<1>3. P(n)
  <2> HIDE DEF P
  <2>1. 0 \in K /\ \A k \in Nat : k \in K => k + 1 \in K
    BY <1>1, <1>2
  <2> HIDE DEF K
  <2>2. Nat \subseteq K
    BY <2>1, Naturals
  <2>3. n \in Nat
    OBVIOUS
  <2> QED
    BY <2>2, <2>3 DEF K
<1> DEFINE F == CHOOSE f : Part(n, f)
<1>4. Part(n, F)
  <2> HIDE DEF Part
  <2> QED
    BY Zenon, <1>3
<1>5. FlattenSeq(seqs) = F[n]
  BY Zenon DEF FlattenSeq
<1> QED
  BY Zenon, <1>4, <1>5 DEF Joined

(* Joining one sequence more.                                              *)
LEMMA JoinedMore ==
    ASSUME NEW S, NEW seqs \in Seq(Seq(S)), NEW e \in 1 .. Len(seqs)
    PROVE  /\ FlattenSeq(SubSeq(seqs, 1, 0)) = <<>>
           /\ e = 1 => FlattenSeq(SubSeq(seqs, 1, e)) = seqs[e]
           /\ e # 1 => FlattenSeq(SubSeq(seqs, 1, e)) = FlattenSeq(SubSeq(seqs, 1, e - 1)) \o seqs[e]
<1>0. Len(seqs) \in Nat /\ e \in Nat
  OBVIOUS
<1>1. FlattenSeq(SubSeq(seqs, 1, 0)) = <<>>
  <2>1. SubSeq(seqs, 1, 0) = <<>> /\ Len(<<>>) = 0
    OBVIOUS
  <2> QED
    BY Zenon, <2>1 DEF FlattenSeq
<1> DEFINE s == SubSeq(seqs, 1, e)
           t == SubSeq(seqs, 1, e - 1)
<1>2. s \in Seq(Seq(S)) /\ Len(s) = e /\ \A i \in 1 .. e : s[i] = seqs[i]
  OBVIOUS
<1>3. t \in Seq(Seq(S)) /\ Len(t) = e - 1 /\ \A i \in 1 .. e - 1 : t[i] = seqs[i]
  OBVIOUS
<1> HIDE DEF s, t
<1>4. PICK f : Joined(s, f) /\ FlattenSeq(s) = f[e]
  <2>1. Len(s) # 0
    BY <1>0, <1>2
  <2>2. \E f : Joined(s, f) /\ FlattenSeq(s) = f[Len(s)]
    BY <1>2, <2>1, JoinedIs
  <2> QED
    BY Zenon, <1>2, <2>2
<1>5. \A i \in 1 .. e : f[i] = IF i = 1 THEN s[i] ELSE f[i - 1] \o s[i]
  BY Zenon, <1>2, <1>4 DEF Joined
<1>6. CASE e = 1
  <2>1. e \in 1 .. e
    BY <1>0
  <2>2. f[e] = s[e] /\ s[e] = seqs[e]
    BY Zenon, <1>2, <1>5, <1>6, <2>1
  <2> QED
    BY Zenon, <1>1, <1>4, <1>6, <2>2 DEF s
<1>7. CASE e # 1
  <2>1. PICK g : Joined(t, g) /\ FlattenSeq(t) = g[e - 1]
    <3>1. Len(t) # 0
      BY <1>0, <1>3, <1>7
    <3>2. \E g : Joined(t, g) /\ FlattenSeq(t) = g[Len(t)]
      BY <1>3, <3>1, JoinedIs
    <3> QED
      BY Zenon, <1>3, <3>2
  <2>2. \A i \in 1 .. e - 1 : g[i] = IF i = 1 THEN t[i] ELSE g[i - 1] \o t[i]
    BY Zenon, <1>3, <2>1 DEF Joined
  <2> DEFINE P(k) == k + 1 <= e - 1 => f[k + 1] = g[k + 1]
             K == {k \in Nat : P(k)}
  <2>3. P(0)
    <3>1. SUFFICES ASSUME 1 <= e - 1 PROVE f[1] = g[1]
      OBVIOUS
    <3>2. 1 \in 1 .. e /\ 1 \in 1 .. e - 1
      BY <1>0, <3>1
    <3> QED
      BY Zenon, <1>2, <1>3, <1>5, <2>2, <3>2
  <2>4. ASSUME NEW k \in Nat, P(k) PROVE P(k + 1)
    <3> DEFINE i == k + 1 + 1
    <3>1. SUFFICES ASSUME i <= e - 1 PROVE f[i] = g[i]
      OBVIOUS
    <3>2. i \in 1 .. e /\ i \in 1 .. e - 1 /\ i # 1 /\ i - 1 = k + 1 /\ k + 1 <= e - 1
      BY <1>0, <3>1
    <3>3. f[i - 1] = g[i - 1]
      BY Zenon, <2>4, <3>2
    <3> HIDE DEF i
    <3>4. s[i] = t[i]
      BY Zenon, <1>2, <1>3, <3>2
    <3>5. f[i] = f[i - 1] \o s[i] /\ g[i] = g[i - 1] \o t[i]
      BY Zenon, <1>5, <2>2, <3>2
    <3> QED
      BY Zenon, <3>3, <3>4, <3>5
  <2>5. Nat \subseteq K
    <3> HIDE DEF P
    <3>1. 0 \in K /\ \A k \in Nat : k \in K => k + 1 \in K
      BY <2>3, <2>4
    <3> HIDE DEF K
    <3> QED
      BY <3>1, Naturals
  <2>6. f[e - 1] = g[e - 1]
    <3>1. e - 2 \in Nat /\ e - 2 + 1 = e - 1 /\ e - 1 <= e - 1
      BY <1>0, <1>7
    <3>2. P(e - 2)
      <4> HIDE DEF P
      <4> QED
        BY Zenon, <2>5, <3>1
    <3> QED
      BY Zenon, <3>1, <3>2
  <2>7. e \in 1 .. e
    BY <1>0
  <2> QED
    BY Zenon, <1>1, <1>2, <1>4, <1>5, <1>7, <2>1, <2>6, <2>7 DEF s, t
<1> QED
  BY <1>6, <1>7

(* Two sequences joined.                                                   *)
LEMMA Concat ==
    ASSUME NEW S, NEW a \in Seq(S), NEW b \in Seq(S)
    PROVE  /\ a \o b \in Seq(S) /\ Len(a) \in Nat /\ Len(b) \in Nat
           /\ Len(a \o b) = Len(a) + Len(b)
           /\ \A j \in 1 .. Len(a) : (a \o b)[j] = a[j]
           /\ \A p \in 1 .. Len(b) :
                 Len(a) + p \in 1 .. Len(a) + Len(b) /\ (a \o b)[Len(a) + p] = b[p]
OBVIOUS

(* What the first e of some sequences are joined to.                       *)
Upto(seqs, e) == FlattenSeq(SubSeq(seqs, 1, e))

(* The first sequences joined are the first part of all of them joined:    *)
(* the p-th element of the e-th is where the e-1 before it end, plus p.    *)
LEMMA Places ==
    ASSUME NEW S, NEW seqs \in Seq(Seq(S))
    PROVE  /\ Upto(seqs, 0) = <<>>
           /\ \A e \in 1 .. Len(seqs) :
                 /\ Len(Upto(seqs, e)) = Len(Upto(seqs, e - 1)) + Len(seqs[e])
                 /\ Len(Upto(seqs, e - 1)) \in Nat /\ Len(seqs[e]) \in Nat
                 /\ Len(Upto(seqs, e)) <= Len(FlattenSeq(seqs))
                 /\ \A p \in 1 .. Len(seqs[e]) :
                       FlattenSeq(seqs)[Len(Upto(seqs, e - 1)) + p] = seqs[e][p]
<1> DEFINE n == Len(seqs)
           U(e) == Upto(seqs, e)
<1>0. n \in Nat
  OBVIOUS
<1>1. U(0) = <<>>
  <2>1. SubSeq(seqs, 1, 0) = <<>> /\ Len(<<>>) = 0
    OBVIOUS
  <2> QED
    BY Zenon, <2>1 DEF FlattenSeq, Upto
<1>2. \A e \in 1 .. n : /\ e = 1 => U(e) = seqs[e]
                        /\ e # 1 => U(e) = U(e - 1) \o seqs[e]
  BY JoinedMore DEF Upto
<1>3. U(n) = FlattenSeq(seqs)
  <2>1. SubSeq(seqs, 1, n) = seqs
    OBVIOUS
  <2> QED
    BY Zenon, <2>1 DEF Upto
<1>4. \A e \in 1 .. n : seqs[e] \in Seq(S)
  OBVIOUS
<1> HIDE DEF U, n
<1>5. \A e \in 1 .. n : U(e) = U(e - 1) \o seqs[e]
  <2>1. SUFFICES ASSUME NEW e \in 1 .. n PROVE U(e) = U(e - 1) \o seqs[e]
    OBVIOUS
  <2>2. CASE e = 1
    <3>1. e - 1 = 0 /\ seqs[e] \in Seq(S)
      BY <1>4, <2>2
    <3>2. <<>> \o seqs[e] = seqs[e]
      BY <3>1
    <3> QED
      BY Zenon, <1>1, <1>2, <2>2, <3>1, <3>2
  <2> QED
    BY <1>2, <2>2
<1> DEFINE W == [e \in 0 .. n |-> U(e)]
<1>w. /\ \A e \in 0 .. n : W[e] = U(e)
      /\ \A e \in 1 .. n : W[e] = W[e - 1] \o seqs[e]
      /\ W[0] = <<>>
  <2>1. \A e \in 1 .. n : e \in 0 .. n /\ e - 1 \in 0 .. n
    BY <1>0
  <2>2. 0 \in 0 .. n
    BY <1>0
  <2> QED
    BY Zenon, <1>1, <1>5, <2>1, <2>2
<1> HIDE DEF W
<1>x. \A k \in Nat : k + 1 <= n =>
         /\ W[k + 1] = W[k] \o seqs[k + 1] /\ seqs[k + 1] \in Seq(S)
         /\ k \in 0 .. n /\ k + 1 \in 1 .. n
  <2>1. SUFFICES ASSUME NEW k \in Nat, k + 1 <= n
                 PROVE  /\ W[k + 1] = W[k] \o seqs[k + 1] /\ seqs[k + 1] \in Seq(S)
                        /\ k \in 0 .. n /\ k + 1 \in 1 .. n
    OBVIOUS
  <2>2. k + 1 \in 1 .. n /\ k + 1 - 1 = k /\ k \in 0 .. n
    BY <1>0, <2>1
  <2> DEFINE e == k + 1
  <2>3. e \in 1 .. n /\ e - 1 = k
    BY <2>2
  <2> HIDE DEF e
  <2>4. W[e] = W[e - 1] \o seqs[e] /\ seqs[e] \in Seq(S)
    BY Zenon, <1>4, <1>w, <2>3
  <2>5. W[e] = W[k] \o seqs[e]
    BY Zenon, <2>3, <2>4
  <2> QED
    BY Zenon, <2>2, <2>4, <2>5 DEF e
<1> DEFINE P(k) == k <= n => W[k] \in Seq(S)
           K == {k \in Nat : P(k)}
<1>6. P(0)
  BY <1>w
<1>7. ASSUME NEW k \in Nat, P(k) PROVE P(k + 1)
  <2>1. SUFFICES ASSUME k + 1 <= n PROVE W[k + 1] \in Seq(S)
    OBVIOUS
  <2>2. k <= n
    BY <1>0, <2>1
  <2>3. W[k + 1] = W[k] \o seqs[k + 1] /\ W[k] \in Seq(S) /\ seqs[k + 1] \in Seq(S)
    BY Zenon, <1>x, <1>7, <2>1, <2>2
  <2>4. W[k] \o seqs[k + 1] \in Seq(S)
    BY Zenon, <2>3, Concat
  <2> QED
    BY Zenon, <2>3, <2>4
<1>8. Nat \subseteq K
  <2> HIDE DEF P
  <2>1. 0 \in K /\ \A k \in Nat : k \in K => k + 1 \in K
    BY <1>6, <1>7
  <2> HIDE DEF K
  <2> QED
    BY <2>1, Naturals
<1>9. \A e \in 0 .. n : W[e] \in Seq(S)
  BY <1>0, <1>8
<1>10. \A e \in 1 .. n : W[e - 1] \in Seq(S) /\ Len(W[e]) = Len(W[e - 1]) + Len(seqs[e])
  <2>1. SUFFICES ASSUME NEW e \in 1 .. n
                 PROVE  W[e - 1] \in Seq(S) /\ Len(W[e]) = Len(W[e - 1]) + Len(seqs[e])
    OBVIOUS
  <2>2. e - 1 \in 0 .. n
    BY <1>0
  <2>3. W[e - 1] \in Seq(S) /\ W[e] = W[e - 1] \o seqs[e] /\ seqs[e] \in Seq(S)
    BY Zenon, <1>4, <1>w, <1>9, <2>2
  <2> QED
    BY <2>3
<1> DEFINE Q(k) == k <= n => \A e \in 1 .. k : /\ Len(W[e]) <= Len(W[k])
                                               /\ \A j \in 1 .. Len(W[e]) : W[k][j] = W[e][j]
           L == {k \in Nat : Q(k)}
<1>11. Q(0)
  OBVIOUS
<1>12. ASSUME NEW k \in Nat, Q(k) PROVE Q(k + 1)
  <2>1. SUFFICES ASSUME k + 1 <= n, NEW e \in 1 .. k + 1
                 PROVE  /\ Len(W[e]) <= Len(W[k + 1])
                        /\ \A j \in 1 .. Len(W[e]) : W[k + 1][j] = W[e][j]
    OBVIOUS
  <2>2. k \in 0 .. n /\ e \in 0 .. n /\ k + 1 \in 0 .. n /\ k <= n
    BY <1>0, <2>1
  <2>3. /\ W[k + 1] = W[k] \o seqs[k + 1] /\ seqs[k + 1] \in Seq(S)
        /\ W[k] \in Seq(S) /\ W[e] \in Seq(S) /\ W[k + 1] \in Seq(S)
    BY Zenon, <1>x, <1>9, <2>1, <2>2
  <2> DEFINE a == W[k]
             b == seqs[k + 1]
  <2>b. a \in Seq(S) /\ b \in Seq(S)
    BY Zenon, <2>3
  <2> HIDE DEF a, b
  <2>c. /\ Len(a) \in Nat /\ Len(b) \in Nat /\ Len(a \o b) = Len(a) + Len(b)
        /\ \A j \in 1 .. Len(a) : (a \o b)[j] = a[j]
    BY <2>b, Concat
  <2>d. Len(a) <= Len(a \o b)
    BY <2>c
  <2>4. /\ Len(W[k]) <= Len(W[k + 1])
        /\ \A j \in 1 .. Len(W[k]) : W[k + 1][j] = W[k][j]
    BY Zenon, <2>3, <2>c, <2>d DEF a, b
  <2>5. CASE e = k + 1
    <3>1. Len(W[e]) \in Nat
      BY <2>3
    <3>2. Len(W[e]) <= Len(W[e])
      BY <3>1
    <3> QED
      BY Zenon, <2>5, <3>2
  <2>6. CASE e # k + 1
    <3>1. e \in 1 .. k
      BY <2>6
    <3>2. /\ Len(W[e]) <= Len(W[k])
          /\ \A j \in 1 .. Len(W[e]) : W[k][j] = W[e][j]
      BY Zenon, <1>12, <2>2, <3>1
    <3> DEFINE x == W[e]
               y == W[k]
               z == W[k + 1]
    <3>3. x \in Seq(S) /\ y \in Seq(S) /\ z \in Seq(S)
      BY Zenon, <2>3
    <3>4. /\ Len(x) <= Len(y) /\ \A j \in 1 .. Len(x) : y[j] = x[j]
          /\ Len(y) <= Len(z) /\ \A j \in 1 .. Len(y) : z[j] = y[j]
      BY Zenon, <2>4, <3>2
    <3> HIDE DEF x, y, z
    <3>5. Len(x) <= Len(z) /\ \A j \in 1 .. Len(x) : z[j] = x[j]
      BY <3>3, <3>4
    <3> QED
      BY Zenon, <3>5 DEF x, z
  <2> QED
    BY <2>5, <2>6
<1>13. Nat \subseteq L
  <2> HIDE DEF Q
  <2>1. 0 \in L /\ \A k \in Nat : k \in L => k + 1 \in L
    BY <1>11, <1>12
  <2> HIDE DEF L
  <2> QED
    BY <2>1, Naturals
<1>14. \A e \in 1 .. n : /\ Len(W[e]) <= Len(W[n])
                         /\ \A j \in 1 .. Len(W[e]) : W[n][j] = W[e][j]
  <2>1. Q(n)
    <3> HIDE DEF Q
    <3> QED
      BY <1>0, <1>13
  <2>2. n <= n
    BY <1>0
  <2> QED
    BY Zenon, <2>1, <2>2
<1>15. ASSUME NEW e \in 1 .. n, NEW p \in 1 .. Len(seqs[e])
       PROVE  W[n][Len(W[e - 1]) + p] = seqs[e][p]
  <2>1. e - 1 \in 0 .. n
    BY <1>0
  <2>2. W[e - 1] \in Seq(S) /\ W[e] = W[e - 1] \o seqs[e] /\ seqs[e] \in Seq(S)
    BY Zenon, <1>4, <1>w, <1>9, <2>1
  <2> DEFINE a == W[e - 1]
             b == seqs[e]
  <2>b. a \in Seq(S) /\ b \in Seq(S) /\ p \in 1 .. Len(b)
    BY Zenon, <2>2
  <2> HIDE DEF a, b
  <2>c. /\ Len(a \o b) = Len(a) + Len(b)
        /\ Len(a) + p \in 1 .. Len(a) + Len(b) /\ (a \o b)[Len(a) + p] = b[p]
    BY <2>b, Concat
  <2>3. Len(W[e - 1]) + p \in 1 .. Len(W[e]) /\ W[e][Len(W[e - 1]) + p] = seqs[e][p]
    BY Zenon, <2>2, <2>c DEF a, b
  <2> QED
    BY Zenon, <1>14, <2>3
<1>16. \A e \in 1 .. n : Len(W[e - 1]) \in Nat /\ Len(seqs[e]) \in Nat
  BY <1>4, <1>10
<1>17. FlattenSeq(seqs) = W[n]
  <2>1. n \in 0 .. n
    BY <1>0
  <2> QED
    BY Zenon, <1>3, <1>w, <2>1
<1>18. \A e \in 1 .. n : e \in 0 .. n /\ e - 1 \in 0 .. n
  BY <1>0
<1>19. \A e \in 1 .. n : W[e] = Upto(seqs, e) /\ W[e - 1] = Upto(seqs, e - 1)
  BY Zenon, <1>w, <1>18 DEF U
<1> HIDE DEF P, Q, K, L
<1>20. \A e \in 1 .. n :
         /\ Len(Upto(seqs, e)) = Len(Upto(seqs, e - 1)) + Len(seqs[e])
         /\ Len(Upto(seqs, e - 1)) \in Nat /\ Len(seqs[e]) \in Nat
         /\ Len(Upto(seqs, e)) <= Len(FlattenSeq(seqs))
         /\ \A p \in 1 .. Len(seqs[e]) :
               FlattenSeq(seqs)[Len(Upto(seqs, e - 1)) + p] = seqs[e][p]
  BY Zenon, <1>10, <1>14, <1>15, <1>16, <1>17, <1>19
<1> QED
  BY Zenon, <1>1, <1>20 DEF n, U

(* The words of the events of a block.                                     *)
WordsOf(nr) == [block : {nr}, event : Nat, pos : Nat, size : Nat]

(* What a delivered block is.                                              *)
LEMMA BlockShape ==
    ASSUME EventDataAssumption, NEW b, IsBlock(b)
    PROVE  /\ b.board \in BoardSet /\ b.n \in 1 .. MaxEvents /\ b.n \in Nat
           /\ b.sizes \in Seq(Nat \ {0, 1}) /\ Len(b.sizes) = b.n
           /\ b.words = FlattenSeq(Framed(b))
           /\ b.bad \in 0 .. b.n
           /\ Type[b.board] \in {"ZS", "VR"}
           /\ Type[b.board] = "VR" => b.bad = 0 /\ \A e \in 1 .. b.n : b.sizes[e] = FixedSize
           /\ Type[b.board] = "ZS" => \A e \in 1 .. b.n : b.sizes[e] \in Sizes
<1>1. PICK x \in BoardSet, n \in 1 .. MaxEvents :
         \E sizes \in SizeLists(x, n), bad \in IF Type[x] = "ZS" THEN 0 .. n ELSE {0} :
            b = Block(x, b.nr, sizes, bad)
  BY DEF IsBlock
<1>2. PICK sizes \in SizeLists(x, n), bad \in IF Type[x] = "ZS" THEN 0 .. n ELSE {0} :
         b = Block(x, b.nr, sizes, bad)
  BY Zenon, <1>1
<1>3. n \in Nat /\ Type[x] \in {"ZS", "VR"}
  BY DEF EventDataAssumption, EventType
<1>4. /\ Type[x] = "ZS" => sizes \in [1 .. n -> Sizes]
      /\ Type[x] # "ZS" => sizes \in [1 .. n -> {FixedSize}]
  BY DEF SizeLists
<1>5. sizes \in [1 .. n -> Nat \ {0, 1}]
  BY <1>4 DEF EventDataAssumption
<1>6. sizes \in Seq(Nat \ {0, 1}) /\ Len(sizes) = n
  BY <1>3, <1>5
<1>7. /\ b.board = x /\ b.sizes = sizes /\ b.bad = bad /\ b.n = Len(sizes)
      /\ b.words = FlattenSeq(Corrupt(Events(b.nr, sizes), bad))
  <2> DEFINE nr == b.nr
             w == FlattenSeq(Corrupt(Events(nr, sizes), bad))
  <2>1. b = [board |-> x, nr |-> nr, sizes |-> sizes, bad |-> bad, n |-> Len(sizes), words |-> w]
    BY Zenon, <1>2 DEF Block
  <2> HIDE DEF nr, w
  <2>2. b.board = x /\ b.sizes = sizes /\ b.bad = bad /\ b.n = Len(sizes) /\ b.words = w
    BY <2>1
  <2> QED
    BY Zenon, <2>2 DEF nr, w
<1>8. b.words = FlattenSeq(Framed(b))
  BY Zenon, <1>7 DEF Framed
<1>9. bad \in 0 .. n /\ (Type[x] = "VR" => bad = 0)
  BY <1>3
<1>10. /\ Type[x] = "VR" => \A e \in 1 .. n : sizes[e] = FixedSize
       /\ Type[x] = "ZS" => \A e \in 1 .. n : sizes[e] \in Sizes
  BY <1>4
<1>11. b.n = n /\ b.n \in 1 .. MaxEvents
  BY <1>6, <1>7
<1> QED
  BY Zenon, <1>3, <1>6, <1>7, <1>8, <1>9, <1>10, <1>11

(* The words of the events.                                                *)
LEMMA EventShape ==
    ASSUME EventDataAssumption, NEW b, IsBlock(b)
    PROVE  /\ Framed(b) \in Seq(Seq(WordsOf(b.nr))) /\ Len(Framed(b)) = b.n
           /\ Events(b.nr, b.sizes) \in Seq(Seq(WordsOf(b.nr))) /\ Len(Events(b.nr, b.sizes)) = b.n
           /\ \A e \in 1 .. b.n :
                /\ Len(Framed(b)[e]) = b.sizes[e] /\ Len(Events(b.nr, b.sizes)[e]) = b.sizes[e]
                /\ e # b.bad => Framed(b)[e] = Events(b.nr, b.sizes)[e]
                /\ Framed(b)[e][1].size = IF e = b.bad THEN BadSize ELSE b.sizes[e]
<1> DEFINE nr == b.nr
           n == b.n
           sizes == b.sizes
           bad == b.bad
           ev == Events(nr, sizes)
           fr == Corrupt(ev, bad)
           W == WordsOf(nr)
<1>1. n \in Nat /\ sizes \in Seq(Nat \ {0, 1}) /\ Len(sizes) = n
  BY BlockShape
<1> HIDE DEF n, sizes, bad, nr
<1>2. DOMAIN sizes = 1 .. n /\ \A e \in 1 .. n : sizes[e] \in Nat \ {0, 1} /\ e \in Nat
  BY <1>1
<1>3. /\ ev = [e \in 1 .. n |-> EventWords(nr, e, sizes[e])]
  BY Zenon, <1>2 DEF Events
<1>4. ASSUME NEW e \in 1 .. n
      PROVE  /\ ev[e] = [p \in 1 .. sizes[e] |-> [block |-> nr, event |-> e, pos |-> p, size |-> sizes[e]]]
             /\ ev[e] \in Seq(W) /\ Len(ev[e]) = sizes[e]
             /\ ev[e][1].size = sizes[e] /\ 1 \in DOMAIN ev[e] /\ ev[e][1] \in W
  <2> DEFINE s == sizes[e]
             g == [p \in 1 .. s |-> [block |-> nr, event |-> e, pos |-> p, size |-> s]]
  <2>1. ev[e] = g
    BY Zenon, <1>3 DEF EventWords
  <2>2. s \in Nat \ {0, 1} /\ e \in Nat
    BY <1>2
  <2> HIDE DEF s
  <2>3. \A p \in 1 .. s : [block |-> nr, event |-> e, pos |-> p, size |-> s] \in W
    BY <2>2 DEF WordsOf
  <2>4. g \in [1 .. s -> W]
    BY Zenon, <2>3
  <2>5. 1 \in 1 .. s
    BY <2>2
  <2>6. g[1] = [block |-> nr, event |-> e, pos |-> 1, size |-> s] /\ DOMAIN g = 1 .. s
    BY Zenon, <2>5
  <2>7. g[1].size = s
    BY <2>6
  <2> HIDE DEF g, W
  <2>8. g \in Seq(W) /\ Len(g) = s
    BY <2>2, <2>4
  <2>9. g[1] \in W
    BY <2>4, <2>5
  <2> QED
    BY Zenon, <2>1, <2>5, <2>6, <2>7, <2>8, <2>9 DEF s, g
<1> HIDE DEF ev, W
<1>5. ev \in Seq(Seq(W)) /\ Len(ev) = n /\ DOMAIN ev = 1 .. n
  <2>1. ev \in [1 .. n -> Seq(W)]
    <3>1. ev = [e \in 1 .. n |-> ev[e]]
      BY Zenon, <1>3 DEF ev
    <3> QED
      BY Zenon, <1>4, <3>1
  <2> QED
    BY <1>1, <2>1
<1>6. ASSUME NEW e \in 1 .. n
      PROVE  /\ fr[e] = IF e = bad THEN [ev[e] EXCEPT ![1].size = BadSize] ELSE ev[e]
  BY Zenon, <1>5 DEF Corrupt
<1>7. ASSUME NEW e \in 1 .. n
      PROVE  /\ fr[e] \in Seq(W) /\ Len(fr[e]) = sizes[e]
             /\ fr[e][1].size = IF e = bad THEN BadSize ELSE sizes[e]
  <2>1. CASE e # bad
    BY Zenon, <1>4, <1>6, <2>1
  <2>2. CASE e = bad
    <3> DEFINE s == ev[e]
               x == [s[1] EXCEPT !.size = BadSize]
               g == [s EXCEPT ![1] = x]
    <3>1. fr[e] = g
      BY <1>6, <2>2
    <3>2. s \in Seq(W) /\ s[1] \in W /\ 1 \in DOMAIN s /\ Len(s) = sizes[e]
      BY Zenon, <1>4
    <3>3. BadSize \in Nat
      BY DEF EventDataAssumption
    <3> HIDE DEF s
    <3>4. x \in W /\ x.size = BadSize
      BY <3>2, <3>3 DEF W, WordsOf
    <3> HIDE DEF x, W
    <3>5. g \in Seq(W) /\ Len(g) = Len(s) /\ g[1] = x
      BY <3>2, <3>4
    <3> QED
      BY Zenon, <2>2, <3>1, <3>2, <3>4, <3>5
  <2> QED
    BY <2>1, <2>2
<1>8. fr \in Seq(Seq(W)) /\ Len(fr) = n
  <2>1. fr = [e \in 1 .. n |-> fr[e]]
    BY Zenon, <1>5 DEF Corrupt
  <2> HIDE DEF fr
  <2>2. fr \in [1 .. n -> Seq(W)]
    BY Zenon, <1>7, <2>1
  <2> QED
    BY <1>1, <2>2
<1>9. Framed(b) = fr
  BY Zenon DEF Framed, ev, nr, sizes, bad
<1>10. \A e \in 1 .. n :
         /\ Len(fr[e]) = sizes[e] /\ Len(ev[e]) = sizes[e]
         /\ e # bad => fr[e] = ev[e]
         /\ fr[e][1].size = IF e = bad THEN BadSize ELSE sizes[e]
  BY Zenon, <1>4, <1>6, <1>7
<1> HIDE DEF fr
<1> QED
  BY Zenon, <1>5, <1>8, <1>9, <1>10 DEF n, ev, nr, sizes, bad, W

(* Where the events are in the words.                                      *)
LEMMA Offsets ==
    ASSUME EventDataAssumption, NEW b, IsBlock(b)
    PROVE  /\ Before(b, 0) = 0 /\ b.n \in 1 .. MaxEvents /\ b.n \in Nat
           /\ Len(b.words) = Before(b, b.n)
           /\ \A e \in 1 .. b.n :
                /\ Before(b, e) = Before(b, e - 1) + b.sizes[e]
                /\ Before(b, e - 1) \in Nat /\ b.sizes[e] \in Nat \ {0, 1} /\ Before(b, e) \in Nat
                /\ Before(b, e) <= Len(b.words)
                /\ \A p \in 1 .. b.sizes[e] : b.words[Before(b, e - 1) + p] = Framed(b)[e][p]
<1> DEFINE n == b.n
           fr == Framed(b)
<1>1. n \in 1 .. MaxEvents /\ n \in Nat /\ \A e \in 1 .. n : b.sizes[e] \in Nat \ {0, 1}
  <2>1. n \in 1 .. MaxEvents /\ n \in Nat /\ b.sizes \in Seq(Nat \ {0, 1}) /\ Len(b.sizes) = n
    BY Zenon, BlockShape
  <2> QED
    BY <2>1
<1>2. fr \in Seq(Seq(WordsOf(b.nr))) /\ Len(fr) = n /\ \A e \in 1 .. n : Len(fr[e]) = b.sizes[e]
  BY Zenon, EventShape
<1>3. b.words = FlattenSeq(fr)
  BY Zenon, BlockShape
<1>4. \A e : Before(b, e) = Len(Upto(fr, e))
  BY Zenon DEF Before, Upto
<1> HIDE DEF fr, n
<1> DEFINE W == WordsOf(b.nr)
<1> HIDE DEF W
<1>5. fr \in Seq(Seq(W))
  BY <1>2 DEF W
<1>6. /\ Upto(fr, 0) = <<>>
      /\ \A e \in 1 .. Len(fr) :
            /\ Len(Upto(fr, e)) = Len(Upto(fr, e - 1)) + Len(fr[e])
            /\ Len(Upto(fr, e - 1)) \in Nat /\ Len(fr[e]) \in Nat
            /\ Len(Upto(fr, e)) <= Len(FlattenSeq(fr))
            /\ \A p \in 1 .. Len(fr[e]) : FlattenSeq(fr)[Len(Upto(fr, e - 1)) + p] = fr[e][p]
  BY <1>5, Places
<1>7. \A e \in 1 .. n :
         /\ Before(b, e) = Before(b, e - 1) + b.sizes[e]
         /\ Before(b, e - 1) \in Nat
         /\ Before(b, e) <= Len(b.words)
         /\ \A p \in 1 .. b.sizes[e] : b.words[Before(b, e - 1) + p] = fr[e][p]
  <2>1. SUFFICES ASSUME NEW e \in 1 .. n
                 PROVE  /\ Before(b, e) = Before(b, e - 1) + b.sizes[e]
                        /\ Before(b, e - 1) \in Nat
                        /\ Before(b, e) <= Len(b.words)
                        /\ \A p \in 1 .. b.sizes[e] : b.words[Before(b, e - 1) + p] = fr[e][p]
    BY Zenon
  <2>2. Before(b, e) = Len(Upto(fr, e)) /\ Before(b, e - 1) = Len(Upto(fr, e - 1))
    BY Zenon, <1>4
  <2>3. e \in 1 .. Len(fr) /\ Len(fr[e]) = b.sizes[e]
    BY Zenon, <1>2
  <2>4. /\ Len(Upto(fr, e)) = Len(Upto(fr, e - 1)) + b.sizes[e]
        /\ Len(Upto(fr, e - 1)) \in Nat
        /\ Len(Upto(fr, e)) <= Len(b.words)
        /\ \A p \in 1 .. b.sizes[e] : b.words[Len(Upto(fr, e - 1)) + p] = fr[e][p]
    BY Zenon, <1>3, <1>6, <2>3
  <2> QED
    BY Zenon, <2>2, <2>4
<1>8. Before(b, 0) = 0
  <2>1. Len(<<>>) = 0
    OBVIOUS
  <2> QED
    BY Zenon, <1>4, <1>6, <2>1
<1>9. Len(b.words) = Before(b, n)
  <2>1. SubSeq(fr, 1, n) = fr
    BY <1>1, <1>2
  <2> QED
    BY Zenon, <1>3, <1>4, <2>1 DEF Upto
<1>10. \A e \in 1 .. n : Before(b, e) \in Nat
  <2>1. \A x \in Nat, y \in Nat \ {0, 1} : x + y \in Nat
    OBVIOUS
  <2> QED
    BY Zenon, <1>1, <1>7, <2>1
<1> QED
  BY Zenon, <1>1, <1>7, <1>8, <1>9, <1>10 DEF n, fr

(* All events before the e-th are shorter than BadSize together, and those *)
(* of one size have it.                                                    *)
LEMMA Sums ==
    ASSUME EventDataAssumption, NEW b, IsBlock(b)
    PROVE  /\ Type[b.board] = "VR" => \A e \in 0 .. b.n : Before(b, e) = e * FixedSize
           /\ Type[b.board] = "ZS" => \E s \in Sizes : Len(b.words) <= b.n * s
<1> DEFINE n == b.n
           B == [e \in 0 .. n |-> Before(b, e)]
           z == [e \in 1 .. n |-> b.sizes[e]]
<1>1. /\ n \in Nat /\ n # 0 /\ FixedSize \in Nat /\ Sizes \subseteq Nat
      /\ B[0] = 0 /\ \A e \in 1 .. n : B[e - 1] \in Nat /\ z[e] \in Nat /\ B[e] = B[e - 1] + z[e]
      /\ B[n] = Len(b.words)
  <2>1. n \in Nat /\ n # 0
    BY Offsets
  <2>2. \A e \in 1 .. n : e \in 0 .. n /\ e - 1 \in 0 .. n
    BY <2>1
  <2>3. 0 \in 0 .. n /\ n \in 0 .. n
    BY <2>1
  <2>4. \A e \in 1 .. n : B[e] = Before(b, e) /\ B[e - 1] = Before(b, e - 1) /\ z[e] = b.sizes[e]
    BY Zenon, <2>2
  <2>5. B[0] = Before(b, 0) /\ B[n] = Before(b, n)
    BY Zenon, <2>3
  <2>6. /\ Before(b, 0) = 0 /\ Len(b.words) = Before(b, n)
        /\ \A e \in 1 .. n : /\ Before(b, e) = Before(b, e - 1) + b.sizes[e]
                             /\ Before(b, e - 1) \in Nat /\ b.sizes[e] \in Nat \ {0, 1}
    BY Zenon, Offsets
  <2>7. FixedSize \in Nat /\ Sizes \subseteq Nat
    BY DEF EventDataAssumption
  <2>8. \A x \in Nat \ {0, 1} : x \in Nat
    OBVIOUS
  <2> HIDE DEF B, z, n
  <2> QED
    BY Zenon, <2>1, <2>4, <2>5, <2>6, <2>7, <2>8
<1>2. /\ Type[b.board] = "VR" => \A e \in 1 .. n : z[e] = FixedSize
      /\ Type[b.board] = "ZS" => \A e \in 1 .. n : z[e] \in Sizes
  BY Zenon, BlockShape
<1> HIDE DEF n, z, B
<1>3. \A k \in Nat : k + 1 <= n => B[k] \in Nat /\ z[k + 1] \in Nat /\ B[k + 1] = B[k] + z[k + 1]
                                   /\ k + 1 \in 1 .. n
  <2>1. SUFFICES ASSUME NEW k \in Nat, k + 1 <= n
                 PROVE  B[k] \in Nat /\ z[k + 1] \in Nat /\ B[k + 1] = B[k] + z[k + 1] /\ k + 1 \in 1 .. n
    OBVIOUS
  <2> DEFINE e == k + 1
  <2>2. e \in 1 .. n /\ e - 1 = k
    BY <1>1, <2>1
  <2> HIDE DEF e
  <2>3. B[e - 1] \in Nat /\ z[e] \in Nat /\ B[e] = B[e - 1] + z[e]
    BY Zenon, <1>1, <2>2
  <2>4. B[k] \in Nat /\ z[e] \in Nat /\ B[e] = B[k] + z[e]
    BY Zenon, <2>2, <2>3
  <2> QED
    BY Zenon, <2>2, <2>4 DEF e
<1>4. ASSUME Type[b.board] = "VR" PROVE \A e \in 0 .. n : B[e] = e * FixedSize
  <2> DEFINE P(k) == k <= n => B[k] = k * FixedSize
             K == {k \in Nat : P(k)}
  <2>1. P(0)
    BY <1>1
  <2>2. ASSUME NEW k \in Nat, P(k) PROVE P(k + 1)
    <3>1. SUFFICES ASSUME k + 1 <= n PROVE B[k + 1] = (k + 1) * FixedSize
      OBVIOUS
    <3>2. B[k] = k * FixedSize
      BY <1>1, <2>2, <3>1
    <3>3. B[k + 1] = B[k] + z[k + 1] /\ z[k + 1] = FixedSize
      BY Zenon, <1>2, <1>3, <1>4, <3>1
    <3> QED
      BY <1>1, <3>2, <3>3
  <2>3. Nat \subseteq K
    <3> HIDE DEF P
    <3>1. 0 \in K /\ \A k \in Nat : k \in K => k + 1 \in K
      BY <2>1, <2>2
    <3> HIDE DEF K
    <3> QED
      BY <3>1, Naturals
  <2> QED
    BY <1>1, <2>3
<1>5. ASSUME Type[b.board] = "ZS" PROVE \E s \in Sizes : B[n] <= n * s
  <2> DEFINE P(k) == k + 1 <= n => \E s \in Sizes : B[k + 1] <= (k + 1) * s
             K == {k \in Nat : P(k)}
  <2>1. P(0)
    <3>1. B[1] = z[1] /\ z[1] \in Sizes /\ z[1] \in Nat
      <4>1. 0 + 1 = 1 /\ 0 \in Nat /\ 1 <= n /\ 1 \in 1 .. n
        BY <1>1
      <4>2. B[0 + 1] = B[0] + z[0 + 1] /\ z[1] \in Sizes /\ z[0 + 1] \in Nat
        BY Zenon, <1>2, <1>3, <1>5, <4>1
      <4> QED
        BY <1>1, <4>2
    <3>2. B[0 + 1] <= (0 + 1) * z[1]
      BY <3>1
    <3> QED
      BY <3>1, <3>2
  <2>2. ASSUME NEW k \in Nat, P(k) PROVE P(k + 1)
    <3> DEFINE m == k + 1
    <3>0. m \in Nat
      OBVIOUS
    <3>1. SUFFICES ASSUME m + 1 <= n PROVE \E s \in Sizes : B[m + 1] <= (m + 1) * s
      OBVIOUS
    <3>2. m <= n
      BY <1>1, <3>0, <3>1
    <3>3. PICK s \in Sizes : B[m] <= m * s
      BY Zenon, <2>2, <3>2
    <3> HIDE DEF m
    <3>4. B[m] \in Nat /\ B[m + 1] = B[m] + z[m + 1] /\ z[m + 1] \in Sizes
      BY Zenon, <1>2, <1>3, <1>5, <3>0, <3>1
    <3>5. s \in Nat /\ z[m + 1] \in Nat
      BY Zenon, <1>1, <3>4
    <3> DEFINE r == z[m + 1]
    <3> HIDE DEF r
    <3>6. CASE r <= s
      <4>1. (m + 1) * s = m * s + s /\ m * s \in Nat
        BY <3>0, <3>5
      <4>2. B[m + 1] <= (m + 1) * s
        BY <3>3, <3>4, <3>5, <3>6, <4>1 DEF r
      <4> QED
        BY <4>2
    <3>7. CASE s < r
      <4>1. m * s <= m * r
        BY <3>0, <3>5, <3>7 DEF r
      <4>2. (m + 1) * r = m * r + r /\ m * s \in Nat /\ m * r \in Nat
        BY <3>0, <3>5 DEF r
      <4>3. B[m + 1] <= (m + 1) * r
        BY <3>3, <3>4, <3>5, <4>1, <4>2 DEF r
      <4> QED
        BY <3>4, <4>3 DEF r
    <3> QED
      BY <3>5, <3>6, <3>7 DEF r
  <2>3. Nat \subseteq K
    <3> HIDE DEF P
    <3>1. 0 \in K /\ \A k \in Nat : k \in K => k + 1 \in K
      BY <2>1, <2>2
    <3> HIDE DEF K
    <3> QED
      BY <3>1, Naturals
  <2>4. n - 1 \in Nat /\ n - 1 + 1 = n /\ n <= n
    BY <1>1
  <2>5. P(n - 1)
    <3> HIDE DEF P
    <3> QED
      BY Zenon, <2>3, <2>4
  <2> QED
    BY Zenon, <2>4, <2>5
<1>6. \A e \in 0 .. n : B[e] = Before(b, e)
  BY Zenon DEF B
<1> QED
  BY Zenon, <1>1, <1>4, <1>5, <1>6 DEF n

(* No block is as long as a broken header says.                            *)
LEMMA Broken ==
    ASSUME EventDataAssumption, NEW b, IsBlock(b), Type[b.board] = "ZS"
    PROVE  BadSize > Len(b.words)
<1>1. PICK s \in Sizes : Len(b.words) <= b.n * s
  BY Sums
<1>2. s \in Nat /\ BadSize \in Nat /\ BadSize > MaxEvents * s /\ MaxEvents \in Nat
  BY DEF EventDataAssumption
<1>3. b.n \in Nat /\ b.n <= MaxEvents /\ Len(b.words) = Before(b, b.n) /\ b.n \in 1 .. b.n
  BY Offsets, EventDataAssumption DEF EventDataAssumption
<1>4. Before(b, b.n) \in Nat
  BY Zenon, <1>3, Offsets
<1> DEFINE n == b.n
           l == Len(b.words)
<1> HIDE DEF n, l
<1>5. n * s <= MaxEvents * s
  BY <1>2, <1>3 DEF n
<1>6. n * s \in Nat /\ MaxEvents * s \in Nat /\ l \in Nat /\ l <= n * s
  BY <1>1, <1>2, <1>3, <1>4 DEF n, l
<1> QED
  BY <1>2, <1>5, <1>6 DEF l

(* The events that can be cut.                                             *)
LEMMA WholeIs ==
    ASSUME EventDataAssumption, NEW b, IsBlock(b)
    PROVE  LET n == IF b.bad = 0 THEN b.n ELSE b.bad - 1 IN
           /\ n \in Nat /\ n <= b.n /\ Len(Whole(b)) = n
           /\ Whole(b) \in Seq(Seq(WordsOf(b.nr)))
           /\ \A e \in 1 .. n : Whole(b)[e] = Events(b.nr, b.sizes)[e] /\ e # b.bad
<1> DEFINE n == IF b.bad = 0 THEN b.n ELSE b.bad - 1
           ev == Events(b.nr, b.sizes)
           W == WordsOf(b.nr)
<1>1. b.n \in Nat /\ b.bad \in 0 .. b.n
  BY Zenon, BlockShape
<1>2. n \in Nat /\ n <= b.n /\ (\A e \in 1 .. n : e # b.bad)
  BY <1>1
<1>3. ev \in Seq(Seq(W)) /\ Len(ev) = b.n
  BY Zenon, EventShape
<1> HIDE DEF ev, n, W
<1>4. /\ SubSeq(ev, 1, n) \in Seq(Seq(W)) /\ Len(SubSeq(ev, 1, n)) = n
      /\ \A e \in 1 .. n : SubSeq(ev, 1, n)[e] = ev[e]
  BY <1>1, <1>2, <1>3
<1>5. Whole(b) = SubSeq(ev, 1, n)
  BY Zenon DEF Whole, ev, n
<1> QED
  BY Zenon, <1>2, <1>4, <1>5 DEF n, ev, W

(* The word the loop is at, in the e-th event from 0, with p words of it   *)
(* cut.                                                                    *)
LEMMA AtWord ==
    ASSUME EventDataAssumption, IsBlock(given),
           NEW e \in 0 .. given.n - 1, NEW p \in 0 .. given.sizes[e + 1] - 1, CutAt(e, p)
    PROVE  LET ev == Events(given.nr, given.sizes)[e + 1]
               s  == given.sizes[e + 1] IN
           /\ e \in Nat /\ p \in Nat /\ given.n \in Nat /\ s \in Nat \ {0, 1}
           /\ Before(given, e) \in Nat /\ Before(given, e + 1) = Before(given, e) + s
           /\ cut.cWordIndex = Before(given, e) + p /\ cut.cWordIndex < Len(given.words)
           /\ s <= Len(given.words) /\ Len(given.words) \in Nat
           /\ p = 0 => Word.size = IF e + 1 = given.bad THEN BadSize ELSE s
           /\ Len(fEventList) = e
           /\ e + 1 # given.bad => /\ e < Len(Whole(given))
                                   /\ WithWord = SubSeq(ev, 1, p + 1)
                                   /\ Append(fEventList, ev) = SubSeq(Whole(given), 1, e + 1)
                                   /\ Len(Append(fEventList, ev)) = e + 1
                                   /\ SubSeq(ev, 1, s) = ev
           /\ e + 1 = given.bad => p = 0 /\ fEventList = Whole(given)
           /\ SubSeq(Whole(given), 1, given.n) = Whole(given) \/ Len(Whole(given)) < given.n
<1> DEFINE evs == Events(given.nr, given.sizes)
           ev == evs[e + 1]
           s == given.sizes[e + 1]
           wh == Whole(given)
           fr == Framed(given)
           W == WordsOf(given.nr)
           B == Before(given, e)
           w == given.words
           bad == given.bad
           n == given.n
<1>0. n \in Nat /\ e \in Nat /\ e < n /\ e + 1 \in 1 .. n /\ e + 1 - 1 = e /\ bad \in 0 .. n
  <2>1. n \in Nat /\ bad \in 0 .. n
    BY Zenon, BlockShape
  <2> QED
    BY <2>1
<1>1. /\ wh \in Seq(Seq(W)) /\ Len(wh) = IF bad = 0 THEN n ELSE bad - 1
      /\ \A i \in 1 .. Len(wh) : wh[i] = evs[i]
      /\ Len(wh) \in Nat /\ Len(wh) <= n
  BY Zenon, WholeIs
<1>2. /\ e <= Len(wh) /\ (p > 0 => e < Len(wh))
      /\ fEventList = SubSeq(wh, 1, e)
      /\ cut.lvec = SubSeq(ev, 1, p)
      /\ cut.cWordIndex = B + p
  BY Zenon DEF CutAt
<1>3. /\ Before(given, e + 1) = B + s /\ B \in Nat /\ s \in Nat \ {0, 1}
      /\ Before(given, e + 1) \in Nat /\ Before(given, e + 1) <= Len(w)
      /\ \A q \in 1 .. s : w[B + q] = fr[e + 1][q]
  <2> DEFINE x == e + 1
  <2>x. x \in 1 .. n /\ x - 1 = e
    BY <1>0
  <2> HIDE DEF x
  <2>y. \A y : y = e => Before(given, y) = B
    OBVIOUS
  <2>1. x \in 1 .. n /\ Before(given, x - 1) = B
    BY Zenon, <2>x, <2>y
  <2>z. \A i \in 1 .. given.n :
          /\ Before(given, i) = Before(given, i - 1) + given.sizes[i]
          /\ Before(given, i - 1) \in Nat /\ given.sizes[i] \in Nat \ {0, 1} /\ Before(given, i) \in Nat
          /\ Before(given, i) <= Len(given.words)
          /\ \A q \in 1 .. given.sizes[i] : given.words[Before(given, i - 1) + q] = Framed(given)[i][q]
    BY Offsets
  <2> HIDE DEF B
  <2>2. /\ Before(given, x) = Before(given, x - 1) + given.sizes[x]
        /\ Before(given, x - 1) \in Nat /\ given.sizes[x] \in Nat \ {0, 1} /\ Before(given, x) \in Nat
        /\ Before(given, x) <= Len(given.words)
        /\ \A q \in 1 .. given.sizes[x] : given.words[Before(given, x - 1) + q] = Framed(given)[x][q]
    BY Zenon, <2>1, <2>z
  <2> QED
    BY Zenon, <2>1, <2>2 DEF x
<1>4. /\ Len(fr[e + 1]) = s /\ Len(ev) = s /\ ev \in Seq(W)
      /\ e + 1 # bad => fr[e + 1] = ev
      /\ fr[e + 1][1].size = IF e + 1 = bad THEN BadSize ELSE s
  <2>1. /\ Len(fr[e + 1]) = s /\ Len(ev) = s
        /\ e + 1 # bad => fr[e + 1] = ev
        /\ fr[e + 1][1].size = IF e + 1 = bad THEN BadSize ELSE s
    BY Zenon, <1>0, EventShape
  <2>2. evs \in Seq(Seq(W)) /\ Len(evs) = n
    BY Zenon, EventShape
  <2>3. ev \in Seq(W)
    <3> HIDE DEF evs, n, W
    <3> QED
      BY <1>0, <2>2
  <2> QED
    BY Zenon, <2>1, <2>3
<1>5. Len(w) \in Nat
  <2>1. Len(w) = Before(given, n) /\ n \in 1 .. n
    BY <1>0, Offsets
  <2> QED
    BY Zenon, <2>1, Offsets
<1>6. Word = w[cut.cWordIndex + 1]
  BY Zenon DEF Word
<1>7. WithWord = Append(cut.lvec, Word)
  BY Zenon DEF WithWord
<1> DEFINE b1 == Before(given, e + 1)
           f == fr[e + 1]
           ix == cut.cWordIndex
           lv == cut.lvec
<1>8. p \in Nat /\ p < s /\ p + 1 \in 1 .. s
  BY <1>3
<1> HIDE DEF evs, ev, s, wh, fr, W, B, w, bad, n, b1, f, ix, lv
<1>9. ix = B + p /\ ix < Len(w) /\ ix + 1 = B + (p + 1) /\ s <= Len(w)
  <2>1. ix = B + p
    BY Zenon, <1>2 DEF ix
  <2>2. b1 = B + s /\ B \in Nat /\ s \in Nat \ {0, 1} /\ b1 <= Len(w)
    BY Zenon, <1>3 DEF b1
  <2> QED
    BY <1>5, <1>8, <2>1, <2>2
<1>10. Word = f[p + 1]
  BY Zenon, <1>3, <1>6, <1>8, <1>9 DEF f, ix
<1>11. ASSUME p = 0 PROVE Word.size = IF e + 1 = bad THEN BadSize ELSE s
  <2>1. p + 1 = 1
    BY <1>11
  <2> QED
    BY Zenon, <1>4, <1>10, <2>1 DEF f
<1>12. Len(fEventList) = e
  BY <1>0, <1>1, <1>2
<1>13. ASSUME e + 1 # bad
       PROVE  /\ e < Len(wh)
              /\ WithWord = SubSeq(ev, 1, p + 1)
              /\ Append(fEventList, ev) = SubSeq(wh, 1, e + 1)
              /\ Len(Append(fEventList, ev)) = e + 1
              /\ SubSeq(ev, 1, s) = ev
  <2>1. e < Len(wh)
    BY <1>0, <1>1, <1>2, <1>13
  <2>2. Word = ev[p + 1] /\ lv = SubSeq(ev, 1, p)
    BY Zenon, <1>2, <1>4, <1>10, <1>13 DEF f, lv
  <2>3. Len(ev) = s /\ ev \in Seq(W)
    BY Zenon, <1>4
  <2>4. s \in Nat
    BY <1>3
  <2>5. Append(SubSeq(ev, 1, p), ev[p + 1]) = SubSeq(ev, 1, p + 1)
    BY <1>8, <2>3, <2>4
  <2>6. WithWord = SubSeq(ev, 1, p + 1)
    BY Zenon, <1>7, <2>2, <2>5 DEF lv
  <2>7. e + 1 \in 1 .. Len(wh)
    BY <1>0, <1>1, <2>1
  <2>8. wh[e + 1] = ev
    BY Zenon, <1>1, <2>7 DEF ev
  <2>9. Append(SubSeq(wh, 1, e), wh[e + 1]) = SubSeq(wh, 1, e + 1) /\ Len(SubSeq(wh, 1, e + 1)) = e + 1
    BY <1>0, <1>1, <2>1, <2>7
  <2>10. Append(fEventList, ev) = SubSeq(wh, 1, e + 1) /\ Len(Append(fEventList, ev)) = e + 1
    BY Zenon, <1>2, <2>8, <2>9
  <2>11. SubSeq(ev, 1, s) = ev
    BY <2>3, <2>4
  <2> QED
    BY Zenon, <2>1, <2>6, <2>10, <2>11
<1>14. ASSUME e + 1 = bad PROVE p = 0 /\ fEventList = wh
  <2>1. Len(wh) = e
    BY <1>0, <1>1, <1>14
  <2>2. p = 0
    BY <1>0, <1>2, <1>8, <2>1
  <2>3. SubSeq(wh, 1, e) = wh
    BY <1>0, <1>1, <2>1
  <2> QED
    BY Zenon, <1>2, <2>2, <2>3
<1>15. SubSeq(wh, 1, n) = wh \/ Len(wh) < n
  <2>1. CASE Len(wh) = n
    BY <1>1, <2>1
  <2> QED
    BY <1>0, <1>1, <2>1
<1> QED
  BY Zenon, <1>0, <1>3, <1>5, <1>8, <1>9, <1>11, <1>12, <1>13, <1>14, <1>15
     DEF evs, ev, s, wh, B, w, bad, n, ix

(* A quotient and a remainder are the only ones.                           *)
LEMMA Quotient ==
    ASSUME NEW E \in Nat \ {0}, NEW a \in Nat, NEW q \in Nat, NEW r \in Nat,
           r < E, a = E * q + r
    PROVE  a \div E = q /\ a % E = r
OBVIOUS

(* The words whose number is a multiple of the size are the last of an     *)
(* event.                                                                  *)
LEMMA FixedEnd ==
    ASSUME NEW F \in Nat \ {0, 1}, NEW e \in Nat, NEW p \in Nat, p < F
    PROVE  (e * F + p > 0 /\ (e * F + p + 1) % F = 0) <=> p + 1 = F
<1>1. e * F \in Nat /\ F * (e + 1) = e * F + F /\ F * e = e * F
  OBVIOUS
<1> DEFINE m == e * F
<1>2. CASE p + 1 = F
  <2>1. m + p + 1 = F * (e + 1) + 0 /\ m + p + 1 \in Nat /\ e + 1 \in Nat /\ m + p > 0
    BY <1>1, <1>2
  <2>2. (m + p + 1) % F = 0
    BY <2>1, Quotient
  <2> QED
    BY <1>2, <2>1, <2>2
<1>3. CASE p + 1 # F
  <2>1. m + p + 1 = F * e + (p + 1) /\ m + p + 1 \in Nat /\ p + 1 \in Nat /\ p + 1 < F
    BY <1>1, <1>3
  <2>2. (m + p + 1) % F = p + 1
    BY <2>1, Quotient
  <2> QED
    BY <1>3, <2>2
<1> QED
  BY <1>2, <1>3

(* An event is complete, or a word of it is kept.                          *)
LEMMA PushCuts ==
    ASSUME EventDataAssumption, IsBlock(given), task = "loop",
           NEW e \in 0 .. given.n - 1, NEW p \in 0 .. given.sizes[e + 1] - 1, CutAt(e, p),
           p + 1 = given.sizes[e + 1], e + 1 # given.bad, PushEvent, UNCHANGED taskRest
    PROVE  IF task' = "loop" THEN Cutting'
           ELSE task' = "done" /\ fEventList' = Whole(given') /\ fCurrentEvent' = 0
<1> DEFINE ev == Events(given.nr, given.sizes)[e + 1]
           s  == given.sizes[e + 1]
           wh == Whole(given)
<1>1. /\ e \in Nat /\ p \in Nat /\ given.n \in Nat /\ s \in Nat \ {0, 1}
      /\ Before(given, e) \in Nat /\ Before(given, e + 1) = Before(given, e) + s
      /\ cut.cWordIndex = Before(given, e) + p
      /\ e < Len(wh) /\ WithWord = SubSeq(ev, 1, p + 1)
      /\ Append(fEventList, ev) = SubSeq(wh, 1, e + 1) /\ Len(Append(fEventList, ev)) = e + 1
      /\ SubSeq(ev, 1, s) = ev
      /\ SubSeq(wh, 1, given.n) = wh \/ Len(wh) < given.n
  BY Zenon, AtWord
<1>2. /\ given' = given /\ fCurrentEvent' = fCurrentEvent /\ fCurrentEvent = 0
      /\ cut.cZSWordIndex \in Nat
      /\ Type[given.board] = "ZS" /\ p > 0 => cut.cZSWordIndex = p /\ cut.fZSEventSize = s
  BY Zenon DEF taskRest, CutAt
<1>3. /\ Len(wh) \in Nat /\ Len(wh) <= given.n
      /\ \A i \in 1 .. given.n : given.sizes[i] \in Nat \ {0, 1}
  BY WholeIs, Offsets
<1>4. fEventList' = SubSeq(wh, 1, e + 1) /\ Len(fEventList') = e + 1
  <2>1. fEventList' = Append(fEventList, WithWord) /\ WithWord = ev
    BY Zenon, <1>1 DEF PushEvent
  <2> QED
    BY Zenon, <1>1, <2>1
<1> HIDE DEF ev, s, wh
<1>5. CASE e + 1 >= given.n
  <2>1. e + 1 = given.n /\ ~(Len(wh) < given.n)
    BY <1>1, <1>3, <1>5
  <2>2. fEventList' = wh
    BY Zenon, <1>1, <1>4, <2>1
  <2>3. task' = "done"
    BY <1>4, <1>5 DEF PushEvent
  <2> QED
    BY <1>2, <2>2, <2>3 DEF wh
<1>6. CASE ~(e + 1 >= given.n)
  <2>1. /\ task' = "loop"
        /\ cut' = [cut EXCEPT !.lvec = <<>>, !.cWordIndex = @ + 1, !.cZSWordIndex = @ + 1]
    BY <1>4, <1>6 DEF PushEvent
  <2> DEFINE x == e + 1
             ev2 == Events(given.nr, given.sizes)[x + 1]
  <2>2. x \in 0 .. given.n - 1 /\ x <= Len(wh) /\ x + 1 \in 1 .. given.n
    BY <1>1, <1>3, <1>6
  <2>3. 0 \in 0 .. given.sizes[x + 1] - 1
    BY <1>3, <2>2
  <2>4. CutAt(x, 0)'
    <3>1. /\ cut'.lvec = <<>> /\ cut'.cWordIndex = cut.cWordIndex + 1
          /\ cut'.cZSWordIndex = cut.cZSWordIndex + 1 /\ cut'.fZSEventSize = cut.fZSEventSize
          /\ DOMAIN cut' = DOMAIN cut
      <4>1. DOMAIN cut = {"lvec", "cWordIndex", "cZSWordIndex", "fZSEventSize"}
        BY DEF CutAt, LoopStart
      <4> QED
        BY <2>1, <4>1
    <3>2. <<>> = SubSeq(ev2, 1, 0)
      OBVIOUS
    <3>3. cut'.cWordIndex = Before(given, x) + 0
      BY <1>1, <3>1 DEF s
    <3>4. Type[given.board] = "ZS" => cut'.cZSWordIndex = cut'.fZSEventSize
      BY <1>1, <1>2, <3>1 DEF s
    <3>5. cut'.cZSWordIndex \in Nat
      BY <1>2, <3>1
    <3>6. ~(0 > 0)
      OBVIOUS
    <3>7. DOMAIN cut' = DOMAIN LoopStart
      BY Zenon, <3>1 DEF CutAt
    <3> HIDE DEF x
    <3> QED
      BY Zenon, <1>2, <1>4, <2>2, <3>1, <3>2, <3>3, <3>4, <3>5, <3>6, <3>7 DEF CutAt, x, wh
  <2>5. Cutting'
    <3> HIDE DEF x
    <3>1. x \in 0 .. given'.n - 1 /\ 0 \in 0 .. given'.sizes[x + 1] - 1
      BY Zenon, <1>2, <2>2, <2>3
    <3> QED
      BY Zenon, <2>4, <3>1 DEF Cutting
  <2> QED
    BY <2>1, <2>5
<1> QED
  BY <1>5, <1>6

(* A word is kept.                                                         *)
LEMMA KeepCuts ==
    ASSUME EventDataAssumption, IsBlock(given), task = "loop",
           NEW e \in 0 .. given.n - 1, NEW p \in 0 .. given.sizes[e + 1] - 1, CutAt(e, p),
           p + 1 # given.sizes[e + 1], e + 1 # given.bad, NEW size, NEW index \in Nat,
           Type[given.board] = "ZS" => size = given.sizes[e + 1] /\ index = p,
           KeepWord(size, index), UNCHANGED taskRest
    PROVE  task' = "loop" /\ Cutting'
<1> DEFINE ev == Events(given.nr, given.sizes)[e + 1]
           s  == given.sizes[e + 1]
           wh == Whole(given)
           q  == p + 1
<1>1. /\ e \in Nat /\ p \in Nat /\ given.n \in Nat /\ s \in Nat \ {0, 1}
      /\ Before(given, e) \in Nat /\ cut.cWordIndex = Before(given, e) + p
      /\ e < Len(wh) /\ WithWord = SubSeq(ev, 1, p + 1)
  BY Zenon, AtWord
<1>2. /\ given' = given /\ fCurrentEvent' = fCurrentEvent /\ fCurrentEvent = 0
      /\ e <= Len(wh) /\ fEventList = SubSeq(wh, 1, e)
  BY Zenon DEF taskRest, CutAt
<1>3. /\ cut' = [lvec |-> WithWord, cWordIndex |-> cut.cWordIndex + 1,
                 cZSWordIndex |-> index + 1, fZSEventSize |-> size]
      /\ fEventList' = fEventList /\ task' = task
  BY Zenon DEF KeepWord
<1>4. /\ cut'.lvec = WithWord /\ cut'.cWordIndex = cut.cWordIndex + 1
      /\ cut'.cZSWordIndex = index + 1 /\ cut'.fZSEventSize = size
      /\ DOMAIN cut' = DOMAIN LoopStart
  BY <1>3 DEF LoopStart
<1>a. p < s /\ p + 1 # s
  BY <1>1
<1> HIDE DEF ev, s, wh
<1>5. q \in 0 .. s - 1 /\ q > 0 /\ q # 0 /\ cut'.cWordIndex = Before(given, e) + q
      /\ cut'.cZSWordIndex \in Nat
  <2>1. q \in 0 .. s - 1 /\ q > 0 /\ q # 0
    BY <1>1, <1>a
  <2>2. cut'.cWordIndex = Before(given, e) + q
    BY <1>1, <1>4
  <2>3. cut'.cZSWordIndex \in Nat
    BY <1>4
  <2> QED
    BY <2>1, <2>2, <2>3
<1>6. Type[given.board] = "ZS" => cut'.cZSWordIndex = q /\ cut'.fZSEventSize = s
  BY <1>4 DEF s
<1>7. WithWord = SubSeq(ev, 1, q)
  BY Zenon, <1>1
<1> HIDE DEF q
<1>8. CutAt(e, q)'
  BY Zenon, <1>1, <1>2, <1>3, <1>4, <1>5, <1>6, <1>7 DEF CutAt, ev, s, wh
<1>9. e \in 0 .. given'.n - 1 /\ q \in 0 .. given'.sizes[e + 1] - 1
  BY Zenon, <1>2, <1>5 DEF s
<1> QED
  BY Zenon, <1>3, <1>8, <1>9 DEF Cutting

(* Every step of the loop.                                                 *)
LEMMA LoopCuts ==
    ASSUME EventDataAssumption, IsBlock(given), task = "loop", Cutting,
           FixedWord \/ ZSWord \/ TaskDone
    PROVE  IF task' = "loop" THEN Cutting'
           ELSE task' = "done" /\ fEventList' = Whole(given') /\ fCurrentEvent' = 0
<1>1. PICK e \in 0 .. given.n - 1 : \E p \in 0 .. given.sizes[e + 1] - 1 : CutAt(e, p)
  BY Zenon DEF Cutting
<1>2. PICK p \in 0 .. given.sizes[e + 1] - 1 : CutAt(e, p)
  BY Zenon, <1>1
<1> DEFINE s  == given.sizes[e + 1]
           wh == Whole(given)
<1>3. /\ e \in Nat /\ p \in Nat /\ given.n \in Nat /\ s \in Nat \ {0, 1}
      /\ cut.cWordIndex = Before(given, e) + p /\ cut.cWordIndex < Len(given.words)
      /\ s <= Len(given.words) /\ Len(given.words) \in Nat
      /\ p = 0 => Word.size = IF e + 1 = given.bad THEN BadSize ELSE s
      /\ e + 1 = given.bad => p = 0 /\ fEventList = wh
  BY Zenon, <1>2, AtWord
<1>4. MoreWords
  BY <1>3 DEF MoreWords
<1>5. CASE TaskDone
  BY <1>4, <1>5 DEF TaskDone
<1> HIDE DEF s, wh
<1>6. CASE FixedWord
  <2>1. Type[given.board] = "VR"
    BY Zenon, <1>6 DEF FixedWord
  <2>2. /\ given.bad = 0 /\ \A i \in 1 .. given.n : given.sizes[i] = FixedSize
        /\ \A i \in 0 .. given.n : Before(given, i) = i * FixedSize
    BY Zenon, <2>1, BlockShape, Sums
  <2>3. e + 1 \in 1 .. given.n /\ e \in 0 .. given.n /\ given.n \in 0 .. given.n /\ given.n # 0
        /\ e + 1 # 0
    BY <1>3
  <2>4. s = FixedSize /\ Before(given, e) = e * FixedSize
        /\ Len(given.words) = given.n * FixedSize
    <3>1. Len(given.words) = Before(given, given.n)
      BY Zenon, Offsets
    <3> QED
      BY Zenon, <2>2, <2>3, <3>1 DEF s
  <2> DEFINE F == FixedSize
             n == given.n
             z == Len(given.words) \div n
  <2>5. F \in Nat \ {0, 1} /\ n \in Nat \ {0} /\ p < F
    BY <1>3, <2>3, <2>4 DEF s
  <2>6. z = F
    <3> HIDE DEF F, n
    <3>1. n * F = n * F + 0 /\ n * F \in Nat /\ 0 < n
      BY <2>5
    <3>2. (n * F) \div n = F
      BY <2>5, <3>1, Quotient
    <3> QED
      BY Zenon, <2>4, <3>2 DEF F, n
  <2>7. (e * F + p > 0 /\ (e * F + p + 1) % F = 0) <=> p + 1 = F
    <3>1. e \in Nat /\ p \in Nat
      BY Zenon, <1>3
    <3> HIDE DEF F, n, z
    <3> QED
      BY Zenon, <2>5, <3>1, FixedEnd
  <2>8. /\ UNCHANGED taskRest
        /\ IF cut.cWordIndex > 0 /\ (cut.cWordIndex + 1) % z = 0 THEN PushEvent
           ELSE KeepWord(cut.fZSEventSize, cut.cZSWordIndex)
    BY Zenon, <1>6 DEF FixedWord
  <2>9. IF p + 1 = s THEN PushEvent ELSE KeepWord(cut.fZSEventSize, cut.cZSWordIndex)
    <3> HIDE DEF z, F
    <3>1. cut.cWordIndex = e * F + p
      BY Zenon, <1>3, <2>4 DEF F
    <3> QED
      BY Zenon, <2>4, <2>6, <2>7, <2>8, <3>1 DEF F, z
  <2>10. cut.cZSWordIndex \in Nat
    BY Zenon, <1>2 DEF CutAt
  <2>11. e + 1 # given.bad
    BY <2>2, <2>3
  <2>12. Type[given.board] # "ZS"
    BY <2>1
  <2>13. CASE p + 1 = s
    BY Zenon, <1>2, <2>8, <2>9, <2>11, <2>13, PushCuts DEF s
  <2>14. CASE p + 1 # s
    <3>1. task' = "loop" /\ Cutting'
      BY Zenon, <1>2, <2>8, <2>9, <2>10, <2>11, <2>12, <2>14, KeepCuts DEF s
    <3> QED
      BY Zenon, <3>1
  <2> QED
    BY <2>13, <2>14
<1>7. CASE ZSWord
  <2>1. Type[given.board] = "ZS" /\ UNCHANGED taskRest
    BY Zenon, <1>7 DEF ZSWord
  <2>2. /\ cut.cZSWordIndex \in Nat
        /\ p = 0 => cut.cZSWordIndex = cut.fZSEventSize
        /\ p > 0 => cut.cZSWordIndex = p /\ cut.fZSEventSize = s
    BY Zenon, <1>2, <2>1 DEF CutAt, s
  <2>3. p < s
    BY <1>3 DEF s
  <2>4. CASE e + 1 = given.bad
    <3>1. p = 0 /\ Word.size = BadSize /\ BadSize > Len(given.words) /\ fEventList = wh
      BY Zenon, <1>3, <2>1, <2>4, Broken
    <3>2. BadSize \in Nat
      BY DEF EventDataAssumption
    <3>3. IsHeader /\ ~IsLast /\ ~(Word.size <= Len(given.words))
      BY <1>3, <2>2, <3>1, <3>2 DEF IsHeader, IsLast
    <3>4. task' = "done" /\ UNCHANGED <<fEventList, cut>>
      BY Zenon, <1>7, <3>3 DEF ZSWord
    <3>5. given' = given /\ fCurrentEvent' = 0
      BY Zenon, <1>2, <2>1 DEF taskRest, CutAt
    <3>6. fEventList' = Whole(given')
      BY Zenon, <3>1, <3>4, <3>5 DEF wh
    <3>7. task' # "loop"
      BY <3>4
    <3> QED
      BY Zenon, <3>4, <3>5, <3>6, <3>7
  <2>5. CASE e + 1 # given.bad /\ p = 0
    <3>1. IsHeader /\ ~IsLast
      BY <2>2, <2>5 DEF IsHeader, IsLast
    <3>2. Word.size = s /\ ~(Word.size > Len(given.words))
      BY <1>3, <2>5
    <3>3. KeepWord(s, 0)
      BY Zenon, <1>7, <3>1, <3>2 DEF ZSWord
    <3>4. p + 1 # s /\ 0 \in Nat /\ 0 = p
      BY <1>3, <2>5
    <3>5. task' = "loop" /\ Cutting'
      BY Zenon, <1>2, <2>1, <2>5, <3>3, <3>4, KeepCuts DEF s
    <3> QED
      BY Zenon, <3>5
  <2>6. CASE e + 1 # given.bad /\ p # 0
    <3>1. p > 0 /\ cut.cZSWordIndex = p /\ cut.fZSEventSize = s /\ s # 0
      BY <1>3, <2>2, <2>6
    <3>2. ~IsHeader /\ (IsLast <=> p + 1 = s)
      BY <1>3, <2>3, <3>1 DEF IsHeader, IsLast
    <3>3. CASE p + 1 = s
      <4>1. PushEvent
        BY Zenon, <1>7, <3>2, <3>3 DEF ZSWord
      <4> QED
        BY Zenon, <1>2, <2>1, <2>6, <3>3, <4>1, PushCuts DEF s
    <3>4. CASE p + 1 # s
      <4>1. KeepWord(s, p)
        BY Zenon, <1>7, <3>1, <3>2, <3>4 DEF ZSWord
      <4>2. task' = "loop" /\ Cutting'
        BY Zenon, <1>2, <1>3, <2>1, <2>6, <3>4, <4>1, KeepCuts DEF s
      <4> QED
        BY Zenon, <4>2
    <3> QED
      BY <3>3, <3>4
  <2> QED
    BY <2>4, <2>5, <2>6
<1> QED
  BY <1>5, <1>6, <1>7

(* What is delivered is a block of whole events.                           *)
LEMMA DeliverBlock ==
    ASSUME NEW b \in BoardSet, NEW n \in 1 .. MaxEvents, Deliver(b, n)
    PROVE  IsBlock(block')
<1>1. PICK sizes \in SizeLists(b, n) :
         \E bad \in IF Type[b] = "ZS" THEN 0 .. n ELSE {0} : block' = Block(b, sent + 1, sizes, bad)
  BY Zenon DEF Deliver
<1>2. PICK bad \in IF Type[b] = "ZS" THEN 0 .. n ELSE {0} : block' = Block(b, sent + 1, sizes, bad)
  BY Zenon, <1>1
<1>3. block'.nr = sent + 1
  BY <1>2 DEF Block
<1>4. block' = Block(b, block'.nr, sizes, bad)
  BY Zenon, <1>2, <1>3
<1> QED
  BY Zenon, <1>4 DEF IsBlock

(* The initial state satisfies EventInv.                                   *)
LEMMA InitEvent == Init => EventInv
<1> SUFFICES ASSUME Init PROVE EventInv
  OBVIOUS
<1>1. IInv
  BY InitInv
<1>2. CallInv
  BY DEF Init, CallInv, NoCall, Reads
<1>3. CutInv
  BY DEF Init, CutInv
<1>4. Fetched
  BY DEF Init, Fetched, LastRead
<1> QED
  BY <1>1, <1>2, <1>3, <1>4 DEF EventInv

(* A call that begins names boards and numbers of events there are.        *)
LEMMA BeginReadCalls ==
    ASSUME EventInv, pc = "idle", NEW op \in Reads, NEW b \in BoardSet, NEW w,
           NEW n, op \in {"ReadNEvents", "setData"} => n \in 1 .. MaxEvents,
           NEW r \in Seq(BoardSet), BeginRead(op, b, w, n, r)
    PROVE  CallInv' /\ CutInv' /\ fetched' = Nothing
<1>1. /\ call' = [op |-> op, board |-> b, pWait |-> w, n |-> n] /\ rest' = r
      /\ block' = NoBlock /\ fetched' = Nothing /\ pc' \in {"delete", "join"}
      /\ task' = task /\ given' = given
  BY DEF BeginRead, taskVars
<1>2. call'.op = op /\ call'.board = b /\ call'.n = n /\ DOMAIN call' = DOMAIN NoCall
  BY <1>1 DEF NoCall
<1>3. op # "GetNextEvent"
  BY DEF Reads
<1>4. task' \in {"deferred", "started", "loop"} => IsBlock(given')
  BY Zenon, <1>1 DEF EventInv, CallInv
<1>5. CallInv'
  BY Zenon, <1>1, <1>2, <1>3, <1>4 DEF CallInv
<1>6. CutInv'
  BY <1>1 DEF CutInv
<1> QED
  BY <1>1, <1>5, <1>6

(* Before the first word of the block.                                     *)
LEMMA ResetCuts ==
    ASSUME EventDataAssumption, IsBlock(given), TaskReset
    PROVE  Cutting'
<1>1. /\ fEventList' = <<>> /\ fCurrentEvent' = 0 /\ cut' = LoopStart /\ given' = given
  BY DEF TaskReset
<1>2. cut'.lvec = <<>> /\ cut'.cWordIndex = 0 /\ cut'.cZSWordIndex = 0 /\ cut'.fZSEventSize = 0
  BY <1>1 DEF LoopStart
<1>3. given.n \in Nat /\ given.n # 0 /\ Before(given, 0) = 0 /\ 1 \in 1 .. given.n
  <2>1. given.n \in 1 .. MaxEvents /\ given.n \in Nat /\ Before(given, 0) = 0
    BY Zenon, Offsets
  <2> QED
    BY <2>1
<1>4. given.sizes[1] \in Nat \ {0, 1}
  BY Zenon, <1>3, Offsets
<1>5. Len(Whole(given)) \in Nat
  <2>1. LET n == IF given.bad = 0 THEN given.n ELSE given.bad - 1 IN
        n \in Nat /\ Len(Whole(given)) = n
    BY Zenon, WholeIs
  <2> QED
    BY Zenon, <2>1
<1> DEFINE z == 0
           ev == Events(given.nr, given.sizes)[z + 1]
           wh == Whole(given)
<1>6. /\ z <= Len(wh) /\ ~(z > 0)
      /\ z \in 0 .. given.n - 1 /\ z \in 0 .. given.sizes[z + 1] - 1 /\ z \in Nat
  BY <1>3, <1>4, <1>5
<1>7. SubSeq(wh, 1, z) = <<>> /\ SubSeq(ev, 1, z) = <<>>
  OBVIOUS
<1>8. cut'.cWordIndex = Before(given, z) + z
  BY <1>2, <1>3
<1>9. fCurrentEvent' = 0 /\ cut'.cZSWordIndex = z /\ cut'.fZSEventSize = z
  BY <1>1, <1>2
<1>10. DOMAIN cut' = DOMAIN LoopStart
  BY Zenon, <1>1
<1> HIDE DEF z
<1>11. CutAt(z, z)'
  BY Zenon, <1>1, <1>2, <1>6, <1>7, <1>8, <1>9, <1>10 DEF CutAt
<1>12. z \in 0 .. given'.n - 1 /\ z \in 0 .. given'.sizes[z + 1] - 1
  BY Zenon, <1>1, <1>6
<1> QED
  BY Zenon, <1>11, <1>12 DEF Cutting

(* What the tool has forgotten or never had is in no answer.               *)
LEMMA NothingFetched ==
    ASSUME IInv', fetched' = Nothing
    PROVE  Fetched'
BY DEF Fetched, LastRead

(* The tool holds an answer only when the task is done and the future      *)
(* taken.                                                                  *)
LEMMA AnswerKept ==
    ASSUME EventInv, IInv', UNCHANGED <<fetched, call, given>>
    PROVE  Fetched'
<1>1. LastRead'
  BY DEF IInv, FutureInv, RouteInv, LastRead
<1>2. Whole(given') = Whole(given)
  BY Zenon
<1>3. fetched' # Nothing =>
          fetched' = IF call'.op = "GetEvents" THEN Whole(given') ELSE <<Whole(given')[call'.n + 1]>>
  BY Zenon, <1>2 DEF EventInv, Fetched
<1> QED
  BY Zenon, <1>1, <1>3 DEF Fetched

(* A getter's call.                                                        *)
LEMMA GetEvent ==
    ASSUME EventInv, IInv', NEW op \in Getters, NEW i, op = "GetNextEvent" => i = 0, CallGet(op, i)
    PROVE  EventInv'
<1>1. /\ pc = "idle" /\ pc' \in {"get", "ended"} /\ fetched' = Nothing
      /\ call' = [NoCall EXCEPT !.op = op, !.board = call.board, !.n = i]
      /\ (task' = task \/ (task = "deferred" /\ task' = "started"))
      /\ UNCHANGED <<listVars, fFuture, cut, given, rest, block>>
  <2>1. CASE fFuture
    BY <2>1 DEF CallGet
  <2>2. CASE ~fFuture
    BY <2>2 DEF CallGet
  <2> QED
    BY <2>1, <2>2
<1>2. call'.op = op /\ call'.n = i /\ DOMAIN call' = DOMAIN NoCall
  BY <1>1 DEF NoCall
<1>3. op \notin Reads \cup {"ReadNEvents", "setData"}
  BY DEF Getters, Reads
<1>4. CallInv'
  BY Zenon, <1>1, <1>2, <1>3 DEF EventInv, CallInv
<1>5. /\ task' = "loop" => Cutting'
      /\ task' = "done" /\ fFuture' => fEventList' = Whole(given') /\ fCurrentEvent' = 0
  <2>1. /\ task = "loop" => Cutting
        /\ task = "done" /\ fFuture => fEventList = Whole(given) /\ fCurrentEvent = 0
    BY <1>1 DEF EventInv, CutInv
  <2>2. UNCHANGED <<fEventList, fCurrentEvent, cut, given, fFuture>>
    BY Zenon, <1>1 DEF listVars
  <2>3. Cutting => Cutting'
    BY Zenon, <2>2 DEF Cutting, CutAt
  <2>4. task' = "loop" => task = "loop"
    BY <1>1
  <2>5. task' = "done" => task = "done"
    BY <1>1
  <2> QED
    BY Zenon, <2>1, <2>2, <2>3, <2>4, <2>5
<1>6. CutInv'
  BY Zenon, <1>5 DEF CutInv
<1> QED
  BY Zenon, <1>1, <1>4, <1>6, NothingFetched DEF EventInv

(* The future comes back with the events of the whole block.               *)
LEMMA ReturnEvent ==
    ASSUME EventInv, IInv', Return
    PROVE  EventInv'
<1>1. /\ pc = "get" /\ task = "done" /\ pc' = "idle" /\ fFuture' = FALSE
      /\ UNCHANGED <<fEventList, task, given, call, rest, block>>
      /\ \/ call.op = "GetEvents" /\ fetched' = fEventList
         \/ call.op # "GetEvents" /\ fetched' = Nothing
         \/ call.op # "GetEvents" /\ fetched' = <<fEventList[Answer + 1]>>
  BY DEF Return, FutureReady, toolVars
<1>2. fEventList = Whole(given) /\ fCurrentEvent = 0
  BY <1>1 DEF EventInv, IInv, FutureInv, CutInv
<1>3. call.op = "GetNextEvent" => call.n = 0
  BY DEF EventInv, CallInv
<1>4. Answer = call.n
  BY Zenon, <1>2, <1>3 DEF Answer
<1>5. LastRead'
  BY DEF IInv, FutureInv, RouteInv, LastRead
<1>6. fetched' # Nothing =>
          fetched' = IF call'.op = "GetEvents" THEN Whole(given') ELSE <<Whole(given')[call'.n + 1]>>
  BY Zenon, <1>1, <1>2, <1>4
<1>7. Fetched'
  BY Zenon, <1>5, <1>6 DEF Fetched
<1>8. CallInv'
  BY Zenon, <1>1 DEF EventInv, CallInv
<1>9. CutInv'
  BY <1>1 DEF CutInv
<1> QED
  BY Zenon, <1>7, <1>8, <1>9 DEF EventInv

(* The call of Read is about a board of the controller, which is asked.    *)
LEMMA ReadEvent ==
    ASSUME EventInv, IInv', Read
    PROVE  EventInv'
<1>1. /\ pc = "read" /\ pc' = "set"
      /\ UNCHANGED <<task, given, call, rest, fetched>>
      /\ \/ /\ call.op = "ReadData" /\ SetBoard(call.board)
            /\ \/ \E n \in 1 .. MaxEvents : Deliver(fBoardFW', n)
               \/ block' = block
         \/ call.op = "ReadNEvents" /\ SetBoard(call.board) /\ Deliver(fBoardFW', call.n)
         \/ call.op = "setData" /\ Deliver(call.board, call.n)
  BY DEF Read, taskVars
<1>2. call.op \in Reads => call.board \in BoardSet
  BY DEF EventInv, CallInv
<1>3. call.op \in {"ReadNEvents", "setData"} => call.n \in 1 .. MaxEvents
  BY DEF EventInv, CallInv
<1>4. SetBoard(call.board) => fBoardFW' = call.board
  BY DEF SetBoard, EventInv, IInv, RouteInv
<1>5. block' = NoBlock \/ IsBlock(block')
  <2>1. block = NoBlock
    BY <1>1 DEF EventInv, IInv, RouteInv
  <2>2. CASE call.op = "ReadData" /\ SetBoard(call.board) /\ \E n \in 1 .. MaxEvents : Deliver(fBoardFW', n)
    <3>1. PICK n \in 1 .. MaxEvents : Deliver(fBoardFW', n)
      BY Zenon, <2>2
    <3>2. fBoardFW' \in BoardSet
      BY <1>2, <1>4, <2>2 DEF Reads
    <3> QED
      BY <3>1, <3>2, DeliverBlock
  <2>3. CASE call.op = "ReadNEvents" /\ SetBoard(call.board) /\ Deliver(fBoardFW', call.n)
    <3>1. fBoardFW' \in BoardSet /\ call.n \in 1 .. MaxEvents
      BY <1>2, <1>3, <1>4, <2>3 DEF Reads
    <3> QED
      BY <2>3, <3>1, DeliverBlock
  <2>4. CASE call.op = "setData" /\ Deliver(call.board, call.n)
    <3>1. call.board \in BoardSet /\ call.n \in 1 .. MaxEvents
      BY <1>2, <1>3, <2>4 DEF Reads
    <3> QED
      BY <2>4, <3>1, DeliverBlock
  <2> QED
    BY Zenon, <1>1, <2>1, <2>2, <2>3, <2>4
<1>6. CallInv'
  BY Zenon, <1>1, <1>5 DEF EventInv, CallInv
<1>7. CutInv'
  BY <1>1 DEF CutInv
<1>8. Fetched'
  BY Zenon, <1>1, AnswerKept
<1> QED
  BY Zenon, <1>6, <1>7, <1>8 DEF EventInv

(* A block goes to its task whole; an all-board read takes its next board. *)
LEMMA SetEvent ==
    ASSUME EventDataAssumption, EventInv, IInv', Set
    PROVE  EventInv'
<1>1. pc = "set" /\ block' = NoBlock /\ fetched' = fetched /\ Onward
  BY DEF Set
<1>2. fetched = Nothing /\ ~fFuture /\ task \notin {"deferred", "started", "loop"}
  BY <1>1 DEF EventInv, IInv, FutureInv
<1>3. /\ task' # "loop" /\ ~(task' = "done" /\ fFuture')
      /\ task' \in {"deferred", "started", "loop"} => IsBlock(given')
  <2>1. CASE block.words = <<>>
    <3>1. UNCHANGED taskVars
      BY <2>1 DEF Set
    <3> QED
      BY <1>2, <3>1 DEF taskVars
  <2>2. CASE block.words # <<>>
    <3>1. task' \in {"started", "deferred"} /\ given' = block
      BY <2>2 DEF Set
    <3>2. block # NoBlock
      BY <2>2 DEF NoBlock
    <3>3. IsBlock(block)
      BY <3>2 DEF EventInv, CallInv
    <3>4. IsBlock(given')
      BY Zenon, <3>1, <3>3
    <3> QED
      BY <3>1, <3>4
  <2> QED
    BY <2>1, <2>2
<1>4. /\ rest \in Seq(BoardSet) /\ DOMAIN call = DOMAIN NoCall
      /\ call.op \in Reads => call.board \in BoardSet
      /\ call.op \in {"ReadNEvents", "setData"} => call.n \in 1 .. MaxEvents
      /\ call.op = "GetNextEvent" => call.n = 0
  BY DEF EventInv, CallInv
<1>5. /\ rest' \in Seq(BoardSet) /\ DOMAIN call' = DOMAIN NoCall
      /\ call'.op \in Reads => call'.board \in BoardSet
      /\ call'.op \in {"ReadNEvents", "setData"} => call'.n \in 1 .. MaxEvents
      /\ call'.op = "GetNextEvent" => call'.n = 0
  <2>1. CASE rest = <<>>
    <3>1. call' = call /\ rest' = rest
      BY <1>1, <2>1 DEF Onward
    <3> QED
      BY <1>4, <3>1
  <2>2. CASE rest # <<>>
    <3>1. call' = [call EXCEPT !.board = Head(rest)] /\ rest' = Tail(rest)
      BY <1>1, <2>2 DEF Onward
    <3>2. Head(rest) \in BoardSet /\ Tail(rest) \in Seq(BoardSet)
      BY <1>4, <2>2
    <3>3. DOMAIN call = {"op", "board", "pWait", "n"}
      BY <1>4 DEF NoCall
    <3>4. call'.op = call.op /\ call'.n = call.n /\ call'.board = Head(rest) /\ DOMAIN call' = DOMAIN call
      BY <3>1, <3>3
    <3> QED
      BY <1>4, <3>1, <3>2, <3>4
  <2> QED
    BY <2>1, <2>2
<1>6. CallInv'
  BY Zenon, <1>1, <1>3, <1>5 DEF CallInv
<1>7. CutInv'
  BY <1>3 DEF CutInv
<1>8. Fetched'
  BY <1>1, <1>2, NothingFetched
<1> QED
  BY Zenon, <1>6, <1>7, <1>8 DEF EventInv

(* A step of the task.                                                     *)
LEMMA TaskEvent ==
    ASSUME EventDataAssumption, EventInv, IInv', TaskStep
    PROVE  EventInv'
<1>1. /\ UNCHANGED <<given, fFuture, pc, fetched, call, rest, block>>
      /\ task \in {"started", "loop"} /\ task' \in {"started", "loop", "done"}
  <2>1. CASE TaskReset
    BY <2>1 DEF TaskReset, toolVars
  <2>2. CASE FixedWord
    BY <2>2 DEF FixedWord, MoreWords, PushEvent, KeepWord, taskRest, toolVars
  <2>3. CASE ZSWord
    BY <2>3 DEF ZSWord, MoreWords, PushEvent, KeepWord, taskRest, toolVars
  <2>4. CASE TaskDone
    BY <2>4 DEF TaskDone, taskRest, toolVars
  <2> QED
    BY <2>1, <2>2, <2>3, <2>4 DEF TaskStep
<1>2. IsBlock(given)
  BY <1>1 DEF EventInv, CallInv
<1>3. IsBlock(given')
  BY Zenon, <1>1, <1>2
<1>4. CallInv'
  BY Zenon, <1>1, <1>3 DEF EventInv, CallInv
<1>5. Fetched'
  BY Zenon, <1>1, AnswerKept
<1>6. ASSUME pc \in {"idle", "get"}
      PROVE  /\ task' = "loop" => Cutting'
             /\ task' = "done" /\ fFuture' => fEventList' = Whole(given') /\ fCurrentEvent' = 0
  <2>1. CASE TaskReset
    <3>1. task' = "loop" /\ task' # "done"
      BY <2>1 DEF TaskReset
    <3> QED
      BY Zenon, <1>2, <2>1, <3>1, ResetCuts
  <2>2. CASE FixedWord \/ ZSWord \/ TaskDone
    <3>1. task = "loop"
      BY <2>2 DEF FixedWord, ZSWord, TaskDone, MoreWords
    <3>2. Cutting
      BY <1>6, <3>1 DEF EventInv, CutInv
    <3>3. IF task' = "loop" THEN Cutting'
          ELSE task' = "done" /\ fEventList' = Whole(given') /\ fCurrentEvent' = 0
      BY Zenon, <1>2, <2>2, <3>1, <3>2, LoopCuts
    <3>4. task' = "done" => task' # "loop"
      OBVIOUS
    <3> QED
      BY Zenon, <3>3, <3>4
  <2> QED
    BY <2>1, <2>2 DEF TaskStep
<1>7. CutInv'
  BY Zenon, <1>1, <1>6 DEF CutInv
<1> QED
  BY Zenon, <1>4, <1>5, <1>7 DEF EventInv

(* Every step keeps EventInv.                                              *)
LEMMA NextEvent == EventInv /\ [Next]_vars => EventInv'
<1> SUFFICES ASSUME EventInv, [Next]_vars PROVE EventInv'
  OBVIOUS
<1> USE EventDataAssumption
<1>0. IInv'
  BY NextInv DEF EventInv
<1>a. ASSUME CallInv', CutInv', fetched' = Nothing PROVE EventInv'
  BY Zenon, <1>0, <1>a, NothingFetched DEF EventInv
<1>b. <<>> \in Seq(BoardSet)
  OBVIOUS
<1>1. ASSUME NEW b \in BoardSet, NEW w \in BOOLEAN, CallReadData(b, w)
      PROVE  EventInv'
  <2>1. "ReadData" \in Reads /\ "ReadData" \notin {"ReadNEvents", "setData"}
    BY DEF Reads
  <2>2. pc = "idle" /\ BeginRead("ReadData", b, w, 0, <<>>)
    BY <1>1 DEF CallReadData
  <2> QED
    BY Zenon, <1>a, <1>b, <2>1, <2>2, BeginReadCalls
<1>2. ASSUME NEW b \in BoardSet, NEW n \in 1..MaxEvents,
             CallReadNEvents(b, n) \/ CallSetData(b, n)
      PROVE  EventInv'
  <2>1. "ReadNEvents" \in Reads /\ "setData" \in Reads
    BY DEF Reads
  <2>2. pc = "idle" /\ \E op \in {"ReadNEvents", "setData"} : BeginRead(op, b, TRUE, n, <<>>)
    BY <1>2 DEF CallReadNEvents, CallSetData
  <2>3. PICK op \in {"ReadNEvents", "setData"} : BeginRead(op, b, TRUE, n, <<>>)
    BY <2>2
  <2>4. op \in Reads
    BY <2>1
  <2> QED
    BY Zenon, <1>a, <1>b, <2>2, <2>3, <2>4, BeginReadCalls
<1>3. ASSUME NEW op \in Reads, NEW w, NEW n, CallReadAll(op, w, n),
             op \in {"ReadNEvents", "setData"} => n \in 1 .. MaxEvents
      PROVE  EventInv'
  <2>1. Head(Boards) \in BoardSet /\ Tail(Boards) \in Seq(BoardSet)
    <3> DEFINE S == BoardSet
    <3>1. Boards \in Seq(S \ {"none"}) /\ Boards # <<>>
      BY <1>3 DEF EventDataAssumption, CallReadAll
    <3> HIDE DEF S
    <3>2. Head(Boards) \in S /\ Tail(Boards) \in Seq(S)
      BY <3>1
    <3> QED
      BY Zenon, <3>2 DEF S
  <2>2. pc = "idle" /\ BeginRead(op, Head(Boards), w, n, Tail(Boards))
    BY <1>3 DEF CallReadAll
  <2> QED
    BY Zenon, <1>3, <1>a, <2>1, <2>2, BeginReadCalls
<1>4. ASSUME NEW op \in Getters, NEW i, op = "GetNextEvent" => i = 0, CallGet(op, i)
      PROVE  EventInv'
  BY Zenon, <1>0, <1>4, GetEvent
<1>5. CASE CallDestroy
  <2>1. /\ call' = [NoCall EXCEPT !.op = "Destroy"] /\ fetched' = Nothing
        /\ pc' \in {"delete", "destroyed"} /\ UNCHANGED <<task, given, rest, block>>
    BY <1>5 DEF CallDestroy, taskVars
  <2>2. call'.op = "Destroy" /\ DOMAIN call' = DOMAIN NoCall
    BY <2>1 DEF NoCall
  <2>3. CallInv'
    <3>1. "Destroy" \notin Reads \cup {"ReadNEvents", "setData", "GetNextEvent"}
      BY DEF Reads
    <3> QED
      BY Zenon, <2>1, <2>2, <3>1 DEF EventInv, CallInv
  <2>4. CutInv'
    BY <2>1 DEF CutInv
  <2> QED
    BY <1>a, <2>1, <2>3, <2>4
<1>6. CASE DeleteEvents \/ NewData \/ Destroyed
  <2>1. /\ pc \in {"delete", "join"} /\ pc' \in {"join", "ended", "read", "destroyed"}
        /\ UNCHANGED <<call, rest, block, fetched>>
        /\ (task' = task /\ given' = given) \/ task' = "none"
    BY <1>6 DEF DeleteEvents, NewData, Destroyed, taskVars, toolVars
  <2>2. fetched' = Nothing
    BY <2>1 DEF EventInv, IInv, FutureInv
  <2>3. task' \in {"deferred", "started", "loop"} => IsBlock(given')
    <3>1. CASE task' = task /\ given' = given
      BY Zenon, <3>1 DEF EventInv, CallInv
    <3>2. CASE task' = "none"
      BY <3>2
    <3> QED
      BY <2>1, <3>1, <3>2
  <2>4. CallInv'
    BY Zenon, <2>1, <2>3 DEF EventInv, CallInv
  <2>5. CutInv'
    BY <2>1 DEF CutInv
  <2> QED
    BY <1>a, <2>2, <2>4, <2>5
<1>7. CASE Read
  BY Zenon, <1>0, <1>7, ReadEvent
<1>8. CASE Set
  BY Zenon, <1>0, <1>8, SetEvent
<1>9. CASE Return
  BY Zenon, <1>0, <1>9, ReturnEvent
<1>10. CASE TaskStep
  BY Zenon, <1>0, <1>10, TaskEvent
<1>11. CASE UNCHANGED vars
  <2>1. UNCHANGED <<fEventList, fCurrentEvent, fFuture, task, cut, given, call, rest, block, pc, fetched>>
    BY <1>11 DEF vars, listVars, taskVars, toolVars
  <2>2. CallInv'
    BY Zenon, <2>1 DEF EventInv, CallInv
  <2>3. CutInv'
    BY Zenon, <2>1 DEF EventInv, CutInv, Cutting, CutAt
  <2>4. Fetched'
    BY Zenon, <1>0, <2>1, AnswerKept
  <2> QED
    BY Zenon, <1>0, <2>2, <2>3, <2>4 DEF EventInv
<1>12. CASE ToolCall
  <2>1. "ReadData" \in Reads /\ "ReadNEvents" \in Reads /\ "ReadData" \notin {"ReadNEvents", "setData"}
    BY DEF Reads
  <2>2. /\ "GetEvents" \in Getters /\ "GetEvent" \in Getters /\ "GetNextEvent" \in Getters
        /\ "GetEvents" # "GetNextEvent" /\ "GetEvent" # "GetNextEvent"
    BY DEF Getters
  <2> QED
    BY Zenon, <1>1, <1>2, <1>3, <1>4, <1>5, <1>12, <2>1, <2>2 DEF ToolCall
<1> QED
  BY Zenon, <1>6, <1>7, <1>8, <1>9, <1>10, <1>11, <1>12 DEF Next, ToolStep

(* The events in the list, the words the loop has of the next one and the  *)
(* block they are cut from agree in every reachable state.                 *)
THEOREM EventsInvariance == Spec => []EventInv
<1>1. QED
  BY InitEvent, NextEvent, PTL DEF Spec

(* What a getter gives is what the last read brought, in the form its      *)
(* board sent it: every event of the block with all its words, in order,   *)
(* up to one whose header is broken, or the one of them that was asked     *)
(* for.  The loop of privateSet() cuts them there whatever the sizes of    *)
(* the events, be they of one size or named in their headers.              *)
THEOREM EventsAreWhole == Spec => []Fetched
<1>1. EventInv => Fetched
  BY DEF EventInv
<1>2. QED
  BY <1>1, EventsInvariance, PTL
=============================================================================
