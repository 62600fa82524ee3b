-------------------------- MODULE UringWalkProofs --------------------------
(***************************************************************************)
(* Proofs about UringWalk, for any tree, any number of workers, any size   *)
(* of the ring and any kernel.                                             *)
(*                                                                         *)
(* Most of what the workers do they do as those of ParallelWalk.  Seen     *)
(* without its ring, a worker that has a batch in hand is reading a        *)
(* directory, the records of the batch are among its records, and one that *)
(* has found room below the ceiling has still to look at it.  Under        *)
(* this view (Std) each step but two is a step of ParallelWalk or none, so *)
(* that what ParallelWalkProofs shows of a step holds here.  The two are   *)
(* OpenAt, which takes the ids of a whole directory at once, and Handle,   *)
(* which fills in a record that has been there since.                      *)
(***************************************************************************)
EXTENDS UringWalk, DataLemmas

Batching == {"batch", "wait", "reap", "comp"}

UPc == (Pc \ {"stat"}) \cup {"open", "batch", "wait", "reap", "comp", "panic"}

StdPc == [t \in Workers |-> IF pc[t] \in Batching THEN "entry"
                            ELSE IF pc[t] = "panic" THEN "own"
                            ELSE IF pc[t] = "open" THEN "guard" ELSE pc[t]]

StdLocal == [t \in Workers |-> local[t] \cup ToSet(batch[t].rl)]

Std == INSTANCE ParallelWalkProofs WITH pc <- StdPc, local <- StdLocal

LEMMA StdAssumptions ==
  Std!FileTreeAssumption /\ Std!TreeAssumption /\ Std!WorkersAssumption /\ Std!InodeAssumption
BY FileTreeAssumption, TreeAssumption, WorkersAssumption, InodeAssumption
   DEF FileTreeAssumption, Std!FileTreeAssumption, TreeAssumption, Std!TreeAssumption,
       WorkersAssumption, Std!WorkersAssumption, InodeAssumption, Std!InodeAssumption,
       Dirs, Std!Dirs, MetaType, Std!MetaType, CfgType, Std!CfgType,
       IsFiniteSet, Std!IsFiniteSet, Cardinality, Std!Cardinality

\* What has the same meaning in both views.
LEMMA SameMeaning ==
  /\ Std!Workers = Workers /\ Std!Item = Item /\ Std!Rec = Rec /\ Std!Node = Node
  /\ Std!RootItem = RootItem /\ Std!CfgType = CfgType
  /\ \A s : Std!ToSet(s) = ToSet(s) /\ (Std!IsInjective(s) <=> IsInjective(s))
  /\ \A d : Std!Children(d) = Children(d)
  /\ \A e : (Std!MultiLinked(e) <=> MultiLinked(e)) /\ Std!Inode(e) = Inode(e)
BY DEF Workers, Std!Workers, Item, Std!Item, Rec, Std!Rec, Node, Std!Node, RootItem, Std!RootItem,
       CfgType, Std!CfgType, ToSet, Std!ToSet, IsInjective, Std!IsInjective, Children, Std!Children,
       MultiLinked, Std!MultiLinked, Inode, Std!Inode

\* Without its ring a worker has no entry in its hands.
NoTodo ==
  /\ todo = [t \in Workers |-> <<>>]
  /\ id = [t \in Workers |-> 0]

UType == RingTypeOK /\ NoTodo /\ Std!TypeInv /\ local \in [Workers -> SUBSET Rec]

\* A batch that is not at work holds nothing.
AtRest(t) == pc[t] \notin Batching => batch[t].rl = <<>>

-----------------------------------------------------------------------------
(* The steps that are those of ParallelWalk.                               *)

LEMMA GetDirectoryIsStd ==
  ASSUME pc \in [Workers -> UPc], NEW t \in Workers, GetDirectory(t)
  PROVE  Std!WorkerStep(t)
<1>. UNCHANGED <<local, batch>>
  BY DEF GetDirectory, PopOwn, Steal, CheckActive, uring, shared
<1>. StdLocal' = StdLocal
  BY DEF StdLocal
<1>1. CASE PopOwn(t)
  <2>. pc[t] = "own" /\ StdPc[t] = "own"
    BY <1>1 DEF PopOwn, StdPc, Batching
  <2>. \A c \in {"steal", "guard"} : pc' = [pc EXCEPT ![t] = c] => StdPc' = [StdPc EXCEPT ![t] = c]
    BY DEF StdPc, Batching
  <2>1. Std!PopOwn(t)
    BY <1>1 DEF PopOwn, Std!PopOwn, Last, Front, Std!Last, Std!Front
  <2>. QED  BY <2>1 DEF Std!WorkerStep
<1>2. CASE Steal(t)
  <2>. pc[t] = "steal" /\ StdPc[t] = "steal"
    BY <1>2 DEF Steal, StdPc, Batching
  <2>. /\ pc' = [pc EXCEPT ![t] = "guard"] => StdPc' = [StdPc EXCEPT ![t] = "guard"]
       /\ pc' = pc => StdPc' = StdPc
    BY DEF StdPc, Batching
  <2>1. Std!Steal(t)
    BY <1>2 DEF Steal, Std!Steal, TriedAll, Std!TriedAll, Victim, Std!Victim
  <2>. QED  BY <2>1 DEF Std!WorkerStep
<1>3. CASE CheckActive(t)
  <2>. pc[t] = "steal" /\ StdPc[t] = "steal"
    BY <1>3 DEF CheckActive, StdPc, Batching
  <2>. \A c \in {"publish", "own"} : pc' = [pc EXCEPT ![t] = c] => StdPc' = [StdPc EXCEPT ![t] = c]
    BY DEF StdPc, Batching
  <2>1. Std!CheckActive(t)
    BY <1>3 DEF CheckActive, Std!CheckActive, TriedAll, Std!TriedAll, shared, Std!shared
  <2>. QED  BY <2>1 DEF Std!WorkerStep
<1>. QED  BY <1>1, <1>2, <1>3 DEF GetDirectory

\* A worker that finds room is seen as one that has not looked yet; one that
\* does not, as one of ParallelWalk that is refused.
LEMMA CheckLimitsIsStd ==
  ASSUME pc \in [Workers -> UPc], NEW t \in Workers, CheckLimits(t)
  PROVE  IF MayDescend(t) THEN UNCHANGED Std!vars ELSE Std!OpenDir(t)
<1>1. /\ UNCHANGED <<shared, off, item, todo, id, childdirs, local, batch>> /\ pc[t] = "guard"
      /\ pc' = [pc EXCEPT ![t] = IF MayDescend(t) THEN "open" ELSE "entry"]
  BY DEF CheckLimits, uring
<1>2. StdLocal' = StdLocal /\ StdPc[t] = "guard"
  BY <1>1 DEF StdLocal, StdPc, Batching
<1>3. CASE MayDescend(t)
  <2>1. StdPc' = StdPc
    BY <1>1, <1>3 DEF StdPc, Batching
  <2>. QED  BY <1>1, <1>2, <1>3, <2>1 DEF Std!vars, Std!shared, Std!worker, shared
<1>4. CASE ~MayDescend(t)
  <2>1. StdPc' = [StdPc EXCEPT ![t] = "entry"]
    BY <1>1, <1>4 DEF StdPc, Batching
  <2>2. ~Std!MayDescend(t)
    BY <1>4 DEF MayDescend, Std!MayDescend
  <2>. QED  BY <1>1, <1>2, <1>4, <2>1, <2>2 DEF Std!OpenDir, Std!shared, shared
<1>. QED  BY <1>3, <1>4

LEMMA FinishDirectoryIsStd ==
  ASSUME pc \in [Workers -> UPc], local \in [Workers -> SUBSET Rec],
         NEW t \in Workers, AtRest(t), FinishDirectory(t)
  PROVE  Std!WorkerStep(t)
<1>. batch' = batch
  BY DEF FinishDirectory, uring
<1>1. CASE PushChildren(t)
  <2>. pc[t] = "entry" /\ StdPc[t] = "entry" /\ pc' = [pc EXCEPT ![t] = "add"] /\ local' = local
    BY <1>1 DEF PushChildren, PushTo, StdPc, Batching
  <2>. StdPc' = [StdPc EXCEPT ![t] = "add"] /\ StdLocal' = StdLocal
    BY DEF StdPc, StdLocal, Batching
  <2>1. Std!PushChildren(t)
    BY <1>1 DEF PushChildren, Std!PushChildren, PushTo, Std!PushTo
  <2>. QED  BY <2>1 DEF Std!WorkerStep
<1>2. CASE AddActive(t)
  <2>. pc[t] = "add" /\ StdPc[t] = "add" /\ pc' = [pc EXCEPT ![t] = "sub"] /\ local' = local
    BY <1>2 DEF AddActive, StdPc, Batching
  <2>. StdPc' = [StdPc EXCEPT ![t] = "sub"] /\ StdLocal' = StdLocal
    BY DEF StdPc, StdLocal, Batching
  <2>1. Std!AddActive(t)
    BY <1>2 DEF AddActive, Std!AddActive, ChildrenQueued, Std!ChildrenQueued
  <2>. QED  BY <2>1 DEF Std!WorkerStep
<1>3. CASE SubActive(t)
  <2>. pc[t] = "sub" /\ StdPc[t] = "sub" /\ pc' = [pc EXCEPT ![t] = "own"] /\ local' = local
    BY <1>3 DEF SubActive, StdPc, Batching
  <2>. StdPc' = [StdPc EXCEPT ![t] = "own"] /\ StdLocal' = StdLocal
    BY DEF StdPc, StdLocal, Batching
  <2>1. Std!SubActive(t)
    BY <1>3, SameMeaning DEF SubActive, Std!SubActive, OneLess, Std!OneLess
  <2>. QED  BY <2>1 DEF Std!WorkerStep
<1>4. CASE Publish(t)
  <2>. pc[t] = "publish" /\ StdPc[t] = "publish" /\ pc' = [pc EXCEPT ![t] = "exit"]
    BY <1>4 DEF Publish, StdPc, Batching
  <2>. StdPc' = [StdPc EXCEPT ![t] = "exit"]
    BY DEF StdPc, Batching
  <2>1. ToSet(batch[t].rl) = {}
    BY DEF AtRest, Batching, ToSet
  <2>2. StdLocal[t] = local[t]
    BY <2>1 DEF StdLocal
  <2>3. StdLocal' = [StdLocal EXCEPT ![t] = {}]
    BY <1>4, <2>1 DEF StdLocal, Publish
  <2>4. Std!Publish(t)
    BY <1>4, <2>2, <2>3 DEF Publish, Std!Publish
  <2>. QED  BY <2>4 DEF Std!WorkerStep
<1>. QED  BY <1>1, <1>2, <1>3, <1>4 DEF FinishDirectory

LEMMA AssembleIsStd ==
  ASSUME Assemble, UNCHANGED uring
  PROVE  Std!Assemble
<1>1. \A t \in Workers : pc[t] = "exit" /\ StdPc[t] = "exit"
  BY DEF Assemble, StdPc, Batching
<1>2. StdPc' = StdPc /\ StdLocal' = StdLocal
  BY DEF Assemble, StdPc, StdLocal, worker, uring
<1>. QED
  BY <1>1, <1>2, Zenon DEF Assemble, Std!Assemble, worker, Std!worker, uring, AllRecs, Std!AllRecs,
     EmptyNode, Std!EmptyNode, RootNode, Std!RootNode, NodeOf, Std!NodeOf, Workers, Std!Workers

LEMMA StutterIsStd ==
  ASSUME RingTypeOK, NEW t \in Workers,
         \/ Setup(t) \/ Queue(t) \/ Enter(t) \/ Complete(t) \/ Reap(t) \/ AllHandled(t)
  PROVE  UNCHANGED Std!vars
<1> USE DEF RingTypeOK
<1>1. UNCHANGED <<shared, off, item, todo, id, childdirs, local>>
  BY DEF Setup, Queue, Enter, Complete, Reap, AllHandled, vars, shared, worker
<1>2. StdPc' = StdPc
  BY DEF Setup, Queue, Enter, Complete, Reap, AllHandled, vars, shared, worker, StdPc, Batching
<1>3. \A u \in Workers : batch'[u].rl = batch[u].rl
  <2>1. \A b \in BatchType : QueuedBatch(b).rl = b.rl /\ AfterEnter(b).rl = b.rl
                             /\ AfterEnter(QueuedBatch(b)).rl = b.rl
    BY DEF BatchType, QueuedBatch, AfterEnter
  <2>2. \A u \in Workers : batch[u] \in BatchType
    OBVIOUS
  <2>3. CASE Setup(t) \/ Complete(t) \/ AllHandled(t)
    BY <2>3 DEF Setup, Complete, AllHandled, uring
  <2>4. CASE Queue(t) \/ Enter(t)
    BY <2>1, <2>2, <2>4 DEF Queue, Enter
  <2>5. CASE Reap(t)
    BY <2>2, <2>5 DEF Reap, BatchType
  <2>. QED  BY <2>3, <2>4, <2>5
<1>4. StdLocal' = StdLocal
  BY <1>1, <1>3 DEF StdLocal
<1>. QED  BY <1>1, <1>2, <1>4 DEF Std!vars, Std!shared, Std!worker, shared

LEMMA CloseDirIsStd ==
  ASSUME RingTypeOK, local \in [Workers -> SUBSET Rec], NEW t \in Workers, CloseDir(t)
  PROVE  UNCHANGED Std!vars
<1> USE DEF RingTypeOK
<1>1. UNCHANGED <<shared, off, item, todo, id, childdirs>>
  BY DEF CloseDir, shared
<1>2. StdPc' = StdPc
  BY DEF CloseDir, StdPc, Batching
<1>3. StdLocal' = StdLocal
  <2>1. ToSet(<<>>) = {}
    BY DEF ToSet
  <2>2. batch'[t].rl = <<>> /\ \A u \in Workers \ {t} : batch'[u] = batch[u]
    BY DEF CloseDir, EmptyBatch
  <2>3. /\ local'[t] = local[t] \cup ToSet(batch[t].rl)
        /\ \A u \in Workers \ {t} : local'[u] = local[u]
    BY DEF CloseDir
  <2>. QED  BY <2>1, <2>2, <2>3 DEF StdLocal
<1>. QED  BY <1>1, <1>2, <1>3 DEF Std!vars, Std!shared, Std!worker, shared

LEMMA UnchangedIsStd ==
  ASSUME UNCHANGED uvars
  PROVE  UNCHANGED Std!vars
BY DEF uvars, uring, vars, shared, worker, Std!vars, Std!shared, Std!worker, StdPc, StdLocal

(***************************************************************************)
(* A step of the io_uring backend is one of the std backend, or it opens a *)
(* directory or handles a completion.                                      *)
(***************************************************************************)
LEMMA StepIsStd ==
  ASSUME RingTypeOK, local \in [Workers -> SUBSET Rec], \A t \in Workers : AtRest(t),
         [UNext]_uvars
  PROVE  \/ [Std!Next]_Std!vars
         \/ \E t \in Workers : OpenAt(t) \/ Handle(t)
<1>1. pc \in [Workers -> UPc]
  BY DEF RingTypeOK, UPc
<1>2. ASSUME NEW t \in Workers, GetDirectory(t) \/ FinishDirectory(t) PROVE Std!Next
  <2>1. Std!WorkerStep(t)
    BY <1>1, <1>2, GetDirectoryIsStd, FinishDirectoryIsStd
  <2>. QED  BY <2>1, SameMeaning DEF Std!Next
<1>3. ASSUME NEW t \in Workers, UWorkerStep(t) \/ Complete(t), ~OpenAt(t), ~Handle(t)
      PROVE  [Std!Next]_Std!vars
  <2>1. CASE GetDirectory(t) \/ FinishDirectory(t)
    BY <1>2, <2>1
  <2>2. CASE CheckLimits(t)
    BY <1>1, <2>2, CheckLimitsIsStd, SameMeaning DEF Std!Next, Std!WorkerStep
  <2>3. CASE ~(GetDirectory(t) \/ FinishDirectory(t) \/ CheckLimits(t))
    BY <1>3, <2>3, StutterIsStd, CloseDirIsStd DEF UWorkerStep
  <2>. QED  BY <2>1, <2>2, <2>3
<1>4. CASE Assemble /\ UNCHANGED uring
  BY <1>4, AssembleIsStd DEF Std!Next
<1>5. CASE UNCHANGED uvars
  BY <1>5, UnchangedIsStd
<1>. QED  BY <1>3, <1>4, <1>5 DEF UNext, Stopped

-----------------------------------------------------------------------------
(* The types of the rings and the batches.                                 *)

\* A batch and a ring, written out.
LEMMA BatchFields ==
  ASSUME NEW b \in BatchType
  PROVE  b = [rl |-> b.rl, next |-> b.next, done |-> b.done, to_submit |-> b.to_submit,
              comp |-> b.comp, slot_entry |-> b.slot_entry, free |-> b.free]
BY DEF BatchType

LEMMA RingFields ==
  ASSUME NEW r \in RingType
  PROVE  r = [up |-> r.up, sqe |-> r.sqe, sq |-> r.sq, inflight |-> r.inflight, cq |-> r.cq,
              buf |-> r.buf]
BY DEF RingType

\* Setting several fields is setting them one after the other.
LEMMA SetTwoOfRing ==
  ASSUME NEW r \in RingType, NEW x, NEW y
  PROVE  /\ [r EXCEPT !.sqe = x, !.sq = y] =
              [up |-> r.up, sqe |-> x, sq |-> y, inflight |-> r.inflight, cq |-> r.cq,
               buf |-> r.buf]
         /\ [r EXCEPT !.sq = x, !.inflight = y] =
              [up |-> r.up, sqe |-> r.sqe, sq |-> x, inflight |-> y, cq |-> r.cq, buf |-> r.buf]
<1>0. PICK a1, a2, a3, a4, a5, a6 :
        r = [up |-> a1, sqe |-> a2, sq |-> a3, inflight |-> a4, cq |-> a5, buf |-> a6]
  BY RingFields
<1>1. [r EXCEPT !.sqe = x] =
        [up |-> a1, sqe |-> x, sq |-> a3, inflight |-> a4, cq |-> a5, buf |-> a6]
  BY ONLY <1>0
<1>2. [r EXCEPT !.sq = x] =
        [up |-> a1, sqe |-> a2, sq |-> x, inflight |-> a4, cq |-> a5, buf |-> a6]
  BY ONLY <1>0
<1>3. [r EXCEPT !.sqe = x, !.sq = y] = [[r EXCEPT !.sqe = x] EXCEPT !.sq = y]
  BY ONLY <1>0
<1>4. [r EXCEPT !.sq = x, !.inflight = y] = [[r EXCEPT !.sq = x] EXCEPT !.inflight = y]
  BY ONLY <1>0
<1>5. [[up |-> a1, sqe |-> x, sq |-> a3, inflight |-> a4, cq |-> a5, buf |-> a6]
         EXCEPT !.sq = y] =
      [up |-> a1, sqe |-> x, sq |-> y, inflight |-> a4, cq |-> a5, buf |-> a6]
  BY ONLY <1>0
<1>6. [[up |-> a1, sqe |-> a2, sq |-> x, inflight |-> a4, cq |-> a5, buf |-> a6]
         EXCEPT !.inflight = y] =
      [up |-> a1, sqe |-> a2, sq |-> x, inflight |-> y, cq |-> a5, buf |-> a6]
  BY ONLY <1>0
<1>. QED  BY ONLY <1>0, <1>1, <1>2, <1>3, <1>4, <1>5, <1>6

\* The results of the operations on a batch and on a ring, written out.
LEMMA QueuedBatchIs ==
  ASSUME NEW b \in BatchType, MayQueue(b)
  PROVE  /\ QueuedBatch(b) = [rl |-> b.rl, next |-> b.next + 1, done |-> b.done,
                              to_submit |-> b.to_submit + 1, comp |-> b.comp,
                              slot_entry |-> [b.slot_entry EXCEPT ![Last(b.free)] = b.next + 1],
                              free |-> Front(b.free)]
         /\ Last(b.free) \in Slot /\ Front(b.free) \in Seq(Slot)
         /\ b.next + 1 \in 1 .. Len(b.rl) /\ b.next + 1 \in Nat
         /\ b.rl[b.next + 1] \in Rec /\ b.rl[b.next + 1].entry \in Entry
<1>1. b.free \in Seq(Slot) /\ b.free # <<>> /\ b.rl \in Seq(Rec) /\ b.next \in Nat /\ b.next < Len(b.rl)
  BY DEF BatchType, MayQueue
<1>2. Last(b.free) \in Slot /\ Front(b.free) \in Seq(Slot)
  BY <1>1, EndsOfSeq
<1>3. Len(b.rl) \in Nat
  BY <1>1, LenProperties
<1>4. b.next + 1 \in 1 .. Len(b.rl) /\ b.next + 1 \in Nat
  BY <1>1, <1>3
<1>5. b.rl[b.next + 1] \in Rec
  BY <1>1, <1>4, ElementOfSeq
<1>6. b.rl[b.next + 1].entry \in Entry
  BY <1>5 DEF Rec
<1>7. QueuedBatch(b) = [rl |-> b.rl, next |-> b.next + 1, done |-> b.done,
                        to_submit |-> b.to_submit + 1, comp |-> b.comp,
                        slot_entry |-> [b.slot_entry EXCEPT ![Last(b.free)] = b.next + 1],
                        free |-> Front(b.free)]
  <2> DEFINE f == Front(b.free)
             se == [b.slot_entry EXCEPT ![Last(b.free)] = b.next + 1]
             n == b.next + 1
             m == b.to_submit + 1
  <2>1. QueuedBatch(b) = [b EXCEPT !.free = f, !.slot_entry = se, !.next = n, !.to_submit = m]
    BY DEF QueuedBatch
  <2> HIDE DEF f, se, n, m
  <2>2. [b EXCEPT !.free = f, !.slot_entry = se, !.next = n, !.to_submit = m] =
           [rl |-> b.rl, next |-> n, done |-> b.done, to_submit |-> m, comp |-> b.comp,
            slot_entry |-> se, free |-> f]
    <3>0. PICK a1, a2, a3, a4, a5, a6, a7 :
            b = [rl |-> a1, next |-> a2, done |-> a3, to_submit |-> a4, comp |-> a5,
                 slot_entry |-> a6, free |-> a7]
      BY BatchFields
    <3>1. [b EXCEPT !.free = f] = [rl |-> a1, next |-> a2, done |-> a3, to_submit |-> a4,
                                   comp |-> a5, slot_entry |-> a6, free |-> f]
      BY ONLY <3>0
    <3>2. [[rl |-> a1, next |-> a2, done |-> a3, to_submit |-> a4, comp |-> a5,
            slot_entry |-> a6, free |-> f] EXCEPT !.slot_entry = se] =
          [rl |-> a1, next |-> a2, done |-> a3, to_submit |-> a4, comp |-> a5,
           slot_entry |-> se, free |-> f]
      BY ONLY <3>0
    <3>3. [[rl |-> a1, next |-> a2, done |-> a3, to_submit |-> a4, comp |-> a5,
            slot_entry |-> se, free |-> f] EXCEPT !.next = n] =
          [rl |-> a1, next |-> n, done |-> a3, to_submit |-> a4, comp |-> a5,
           slot_entry |-> se, free |-> f]
      BY ONLY <3>0
    <3>4. [[rl |-> a1, next |-> n, done |-> a3, to_submit |-> a4, comp |-> a5,
            slot_entry |-> se, free |-> f] EXCEPT !.to_submit = m] =
          [rl |-> a1, next |-> n, done |-> a3, to_submit |-> m, comp |-> a5,
           slot_entry |-> se, free |-> f]
      BY ONLY <3>0
    <3>5. [b EXCEPT !.free = f, !.slot_entry = se, !.next = n, !.to_submit = m] =
          [[[[b EXCEPT !.free = f] EXCEPT !.slot_entry = se] EXCEPT !.next = n] EXCEPT !.to_submit = m]
      BY ONLY <3>0
    <3>. QED  BY ONLY <3>0, <3>1, <3>2, <3>3, <3>4, <3>5, Zenon
  <2>. QED  BY <2>1, <2>2 DEF f, se, n, m
<1>. QED  BY <1>2, <1>4, <1>5, <1>6, <1>7

LEMMA AfterEnterIs ==
  ASSUME NEW b \in BatchType
  PROVE  AfterEnter(b) = [rl |-> b.rl, next |-> b.next, done |-> b.done, to_submit |-> 0,
                          comp |-> b.comp, slot_entry |-> b.slot_entry, free |-> b.free]
<1>1. b = [rl |-> b.rl, next |-> b.next, done |-> b.done, to_submit |-> b.to_submit,
           comp |-> b.comp, slot_entry |-> b.slot_entry, free |-> b.free]
  BY BatchFields
<1>. QED  BY ONLY <1>1 DEF AfterEnter

LEMMA QueuedRingIs ==
  ASSUME NEW r \in RingType, NEW s \in Slot, NEW e \in Entry
  PROVE  /\ QueuedRing(r, s, e) = [up |-> TRUE, sqe |-> [r.sqe EXCEPT ![s] = e],
                                   sq |-> Append(r.sq, s), inflight |-> r.inflight,
                                   cq |-> r.cq, buf |-> r.buf]
         /\ QueuedRing(r, s, e) \in RingType
<1>1. QueuedRing(r, s, e) = [up |-> TRUE, sqe |-> [r.sqe EXCEPT ![s] = e],
                             sq |-> Append(r.sq, s), inflight |-> r.inflight,
                             cq |-> r.cq, buf |-> r.buf]
  <2> DEFINE a == [r.sqe EXCEPT ![s] = e]
             q == Append(r.sq, s)
  <2>1. QueuedRing(r, s, e) = [r EXCEPT !.sqe = a, !.sq = q]
    BY DEF QueuedRing
  <2> HIDE DEF a, q
  <2>2. [r EXCEPT !.sqe = a, !.sq = q] = [up |-> r.up, sqe |-> a, sq |-> q,
           inflight |-> r.inflight, cq |-> r.cq, buf |-> r.buf]
    BY SetTwoOfRing, Zenon
  <2>3. r.up = TRUE
    BY DEF RingType
  <2>. QED  BY <2>1, <2>2, <2>3 DEF a, q
<1>2. Append(r.sq, s) \in Seq(Slot) /\ [r.sqe EXCEPT ![s] = e] \in [Slot -> Entry]
  BY AppendProperties DEF RingType
<1>. QED  BY <1>1, <1>2 DEF RingType

\* What the kernel takes of the queue.
LEMMA TakenIs ==
  ASSUME NEW r \in RingType, NEW submit \in Nat, NEW n \in Taken(r, submit)
  PROVE  n \in 0 .. Len(r.sq) /\ n <= submit
<1> DEFINE len == Len(r.sq)
           most == Min({submit, len})
<1>1. len \in Nat
  BY LenProperties DEF RingType
<1>2. most \in {submit, len} /\ \A y \in {submit, len} : most <= y
  <2>1. \E x \in {submit, len} : \A y \in {submit, len} : x <= y
    BY <1>1
  <2> HIDE DEF len
  <2>. QED  BY <2>1 DEF Min
<1>3. n \in 0 .. most
  BY <1>1, <1>2 DEF Taken
<1> HIDE DEF len, most
<1>4. n \in 0 .. len /\ n <= submit
  BY <1>1, <1>2, <1>3
<1>. QED  BY <1>4 DEF len

LEMMA SubmittedRingIs ==
  ASSUME NEW r \in RingType, NEW n \in 0 .. Len(r.sq)
  PROVE  /\ SubmittedRing(r, n) =
              [up |-> TRUE, sqe |-> r.sqe, sq |-> SubSeq(r.sq, n + 1, Len(r.sq)),
               inflight |-> r.inflight \cup {<<r.sq[j], r.sqe[r.sq[j]]>> : j \in 1 .. n},
               cq |-> r.cq, buf |-> r.buf]
         /\ SubmittedRing(r, n) \in RingType
<1> DEFINE more == {<<r.sq[j], r.sqe[r.sq[j]]>> : j \in 1 .. n}
           rest == SubSeq(r.sq, n + 1, Len(r.sq))
<1>1. r.sq \in Seq(Slot) /\ Len(r.sq) \in Nat /\ \A j \in 1 .. Len(r.sq) : r.sq[j] \in Slot
  BY LenProperties, ElementOfSeq DEF RingType
<1>2. more \subseteq Slot \X Entry
  BY <1>1 DEF RingType
<1>3. rest \in Seq(Slot)
  BY <1>1, SubSeqProperties
<1>4. SubmittedRing(r, n) = [up |-> TRUE, sqe |-> r.sqe, sq |-> rest,
                             inflight |-> r.inflight \cup more, cq |-> r.cq, buf |-> r.buf]
  <2> DEFINE taken == r.inflight \cup more
  <2>1. SubmittedRing(r, n) = [r EXCEPT !.sq = rest, !.inflight = taken]
    BY DEF SubmittedRing
  <2> HIDE DEF taken, rest
  <2>2. [r EXCEPT !.sq = rest, !.inflight = taken] = [up |-> r.up, sqe |-> r.sqe, sq |-> rest,
           inflight |-> taken, cq |-> r.cq, buf |-> r.buf]
    BY SetTwoOfRing, Zenon
  <2>3. r.up = TRUE
    BY DEF RingType
  <2>. QED  BY <2>1, <2>2, <2>3 DEF taken
<1> HIDE DEF more, rest
<1>5. SubmittedRing(r, n) \in RingType
  BY <1>2, <1>3, <1>4 DEF RingType
<1>. QED  BY <1>4, <1>5 DEF more, rest

\* What the batch loop leaves after an enter, or without one.
LEMMA QueueTypes ==
  ASSUME NEW b \in BatchType, MayQueue(b)
  PROVE  /\ b.to_submit + 1 < SubmitAt => QueuedBatch(b) \in BatchType
         /\ AfterEnter(QueuedBatch(b)) \in BatchType
         /\ AfterEnter(QueuedBatch(b)) =
              [rl |-> b.rl, next |-> b.next + 1, done |-> b.done, to_submit |-> 0, comp |-> b.comp,
               slot_entry |-> [b.slot_entry EXCEPT ![Last(b.free)] = b.next + 1],
               free |-> Front(b.free)]
<1> DEFINE se == [b.slot_entry EXCEPT ![Last(b.free)] = b.next + 1]
<1>1. se \in [Slot -> Nat]
  BY QueuedBatchIs DEF BatchType
<1>2. AfterEnter(QueuedBatch(b)) =
              [rl |-> b.rl, next |-> b.next + 1, done |-> b.done, to_submit |-> 0, comp |-> b.comp,
               slot_entry |-> se, free |-> Front(b.free)]
  BY QueuedBatchIs DEF AfterEnter
<1>3. 0 \in 0 .. SubmitAt - 1
  BY UringAssumption
<1>4. b.to_submit + 1 < SubmitAt => b.to_submit + 1 \in 0 .. SubmitAt - 1
  BY UringAssumption DEF BatchType
<1>5. QueuedBatch(b) = [rl |-> b.rl, next |-> b.next + 1, done |-> b.done,
                        to_submit |-> b.to_submit + 1, comp |-> b.comp,
                        slot_entry |-> se, free |-> Front(b.free)]
  BY QueuedBatchIs
<1>6. b.next + 1 \in Nat /\ Front(b.free) \in Seq(Slot)
  BY QueuedBatchIs
<1> HIDE DEF se
<1>7. AfterEnter(QueuedBatch(b)) \in BatchType
  BY <1>1, <1>2, <1>3, <1>6 DEF BatchType
<1>8. b.to_submit + 1 < SubmitAt => QueuedBatch(b) \in BatchType
  BY <1>1, <1>4, <1>5, <1>6 DEF BatchType
<1>. QED  BY <1>2, <1>7, <1>8 DEF se

LEMMA EmptyTypes ==
  /\ EmptyRing \in RingType /\ EmptyBatch \in BatchType
  /\ EmptyBatch.free \in Seq(Slot) /\ IsInjective(EmptyBatch.free) /\ Len(EmptyBatch.free) = QD
<1>1. QD \in Nat /\ Slot = 0 .. QD - 1
  BY UringAssumption DEF Slot
<1> DEFINE free == [j \in 1 .. QD |-> QD - j]
<1>2. free \in [1 .. QD -> Slot]
  BY <1>1
<1>3. free \in Seq(Slot) /\ IsInjective(free) /\ Len(free) = QD
  BY <1>1, <1>2, SeqDef, LenProperties DEF IsInjective
<1>4. EmptyBatch = [rl |-> <<>>, next |-> 0, done |-> 0, to_submit |-> 0, comp |-> <<>>,
                    slot_entry |-> [s \in Slot |-> 0], free |-> free]
  BY DEF EmptyBatch
<1>5. 0 \in 0 .. SubmitAt - 1
  BY UringAssumption
<1> HIDE DEF free
<1>6. EmptyBatch \in BatchType /\ EmptyBatch.free = free
  BY <1>3, <1>4, <1>5, EmptySeq DEF BatchType
<1>7. EmptyRing \in RingType
  BY FileTreeAssumption, EmptySeq DEF EmptyRing, RingType
<1>. QED  BY <1>3, <1>6, <1>7

Call == [slot : Slot, ok : BOOLEAN]

LEMMA SetThreeOfRing ==
  ASSUME NEW r \in RingType, NEW x, NEW y, NEW z
  PROVE  [r EXCEPT !.inflight = x, !.cq = y, !.buf = z] =
           [up |-> r.up, sqe |-> r.sqe, sq |-> r.sq, inflight |-> x, cq |-> y, buf |-> z]
<1>0. PICK a1, a2, a3, a4, a5, a6 :
        r = [up |-> a1, sqe |-> a2, sq |-> a3, inflight |-> a4, cq |-> a5, buf |-> a6]
  BY RingFields
<1>1. [r EXCEPT !.inflight = x] =
        [up |-> a1, sqe |-> a2, sq |-> a3, inflight |-> x, cq |-> a5, buf |-> a6]
  BY ONLY <1>0
<1>2. [[up |-> a1, sqe |-> a2, sq |-> a3, inflight |-> x, cq |-> a5, buf |-> a6]
         EXCEPT !.cq = y] =
      [up |-> a1, sqe |-> a2, sq |-> a3, inflight |-> x, cq |-> y, buf |-> a6]
  BY ONLY <1>0
<1>3. [[up |-> a1, sqe |-> a2, sq |-> a3, inflight |-> x, cq |-> y, buf |-> a6]
         EXCEPT !.buf = z] =
      [up |-> a1, sqe |-> a2, sq |-> a3, inflight |-> x, cq |-> y, buf |-> z]
  BY ONLY <1>0
<1>4. [r EXCEPT !.inflight = x, !.cq = y, !.buf = z] =
      [[[r EXCEPT !.inflight = x] EXCEPT !.cq = y] EXCEPT !.buf = z]
  BY ONLY <1>0
<1>. QED  BY ONLY <1>0, <1>1, <1>2, <1>3, <1>4

LEMMA AnsweredIs ==
  ASSUME NEW r \in RingType, NEW op \in Slot \X Entry, NEW ok \in BOOLEAN
  PROVE  /\ Answered(r, op, ok) =
              [up |-> TRUE, sqe |-> r.sqe, sq |-> r.sq, inflight |-> r.inflight \ {op},
               cq |-> Append(r.cq, [slot |-> op[1], ok |-> ok]),
               buf |-> [r.buf EXCEPT ![op[1]] = IF ok THEN op[2] ELSE @]]
         /\ Answered(r, op, ok) \in RingType
         /\ [slot |-> op[1], ok |-> ok] \in Call
<1> DEFINE c == [slot |-> op[1], ok |-> ok]
           x == r.inflight \ {op}
           y == Append(r.cq, c)
           z == [r.buf EXCEPT ![op[1]] = IF ok THEN op[2] ELSE r.buf[op[1]]]
<1>1. c \in Call
  <2>1. op[1] \in Slot
    OBVIOUS
  <2>. QED  BY <2>1, Zenon DEF Call
<1>2. x \subseteq Slot \X Entry
  BY DEF RingType
<1> HIDE DEF c
<1>3. y \in Seq(Call)
  BY <1>1, AppendProperties DEF RingType, Call
<1>4. z \in [Slot -> Entry]
  BY DEF RingType
<1>5. Answered(r, op, ok) = [r EXCEPT !.inflight = x, !.cq = y, !.buf = z]
  BY DEF Answered, c
<1>6. r.up = TRUE
  BY DEF RingType
<1> HIDE DEF x, y, z
<1>7. [r EXCEPT !.inflight = x, !.cq = y, !.buf = z] =
        [up |-> r.up, sqe |-> r.sqe, sq |-> r.sq, inflight |-> x, cq |-> y, buf |-> z]
  BY SetThreeOfRing, Zenon
<1>8. Answered(r, op, ok) =
        [up |-> TRUE, sqe |-> r.sqe, sq |-> r.sq, inflight |-> x, cq |-> y, buf |-> z]
  BY <1>5, <1>6, <1>7
<1>9. Answered(r, op, ok) \in RingType
  BY <1>2, <1>3, <1>4, <1>8 DEF RingType, Call
<1>. QED  BY <1>1, <1>8, <1>9 DEF c, x, y, z

LEMMA SetThreeOfBatch ==
  ASSUME NEW b \in BatchType, NEW x, NEW y, NEW z
  PROVE  [b EXCEPT !.comp = x, !.free = y, !.done = z] =
           [rl |-> b.rl, next |-> b.next, done |-> z, to_submit |-> b.to_submit, comp |-> x,
            slot_entry |-> b.slot_entry, free |-> y]
<1>0. PICK a1, a2, a3, a4, a5, a6, a7 :
        b = [rl |-> a1, next |-> a2, done |-> a3, to_submit |-> a4, comp |-> a5,
             slot_entry |-> a6, free |-> a7]
  BY BatchFields
<1>1. [b EXCEPT !.comp = x] = [rl |-> a1, next |-> a2, done |-> a3, to_submit |-> a4,
                               comp |-> x, slot_entry |-> a6, free |-> a7]
  BY ONLY <1>0
<1>2. [[rl |-> a1, next |-> a2, done |-> a3, to_submit |-> a4, comp |-> x,
        slot_entry |-> a6, free |-> a7] EXCEPT !.free = y] =
      [rl |-> a1, next |-> a2, done |-> a3, to_submit |-> a4, comp |-> x,
       slot_entry |-> a6, free |-> y]
  BY ONLY <1>0
<1>3. [[rl |-> a1, next |-> a2, done |-> a3, to_submit |-> a4, comp |-> x,
        slot_entry |-> a6, free |-> y] EXCEPT !.done = z] =
      [rl |-> a1, next |-> a2, done |-> z, to_submit |-> a4, comp |-> x,
       slot_entry |-> a6, free |-> y]
  BY ONLY <1>0
<1>4. [b EXCEPT !.comp = x, !.free = y, !.done = z] =
      [[[b EXCEPT !.comp = x] EXCEPT !.free = y] EXCEPT !.done = z]
  BY ONLY <1>0
<1>. QED  BY ONLY <1>0, <1>1, <1>2, <1>3, <1>4

LEMMA HandledIs ==
  ASSUME NEW b \in BatchType, b.comp # <<>>, NEW c, c = Head(b.comp)
  PROVE  /\ Handled(b, c) =
              [rl |-> b.rl, next |-> b.next, done |-> b.done + 1, to_submit |-> b.to_submit,
               comp |-> Tail(b.comp), slot_entry |-> b.slot_entry, free |-> Append(b.free, c.slot)]
         /\ Handled(b, c) \in BatchType
         /\ c \in Call
<1> DEFINE x == Tail(b.comp)
           y == Append(b.free, c.slot)
           z == b.done + 1
<1>1. c \in Call /\ x \in Seq(Call)
  BY EndsOfSeq DEF BatchType, Call
<1>2. c.slot \in Slot
  BY <1>1 DEF Call
<1>3. y \in Seq(Slot) /\ z \in Nat
  BY <1>2, AppendProperties DEF BatchType
<1>4. Handled(b, c) = [b EXCEPT !.comp = x, !.free = y, !.done = z]
  BY DEF Handled, Completed
<1> HIDE DEF x, y, z
<1>5. [b EXCEPT !.comp = x, !.free = y, !.done = z] =
        [rl |-> b.rl, next |-> b.next, done |-> z, to_submit |-> b.to_submit, comp |-> x,
         slot_entry |-> b.slot_entry, free |-> y]
  BY SetThreeOfBatch, Zenon
<1>6. Handled(b, c) = [rl |-> b.rl, next |-> b.next, done |-> z, to_submit |-> b.to_submit,
                       comp |-> x, slot_entry |-> b.slot_entry, free |-> y]
  BY <1>4, <1>5
<1>7. Handled(b, c) \in BatchType
  BY <1>1, <1>3, <1>6 DEF BatchType, Call
<1>. QED  BY <1>1, <1>6, <1>7 DEF x, y, z

LEMMA FilledInIs ==
  ASSUME NEW r \in Rec, NEW e \in Entry
  PROVE  /\ FilledIn(r, e) = [id |-> r.id, parent |-> r.parent, entry |-> r.entry,
                              own |-> IF Dedup(e) THEN 0 ELSE Meta[e].own,
                              is_dir |-> Meta[e].is_dir]
         /\ FilledIn(r, e) \in Rec
<1> DEFINE x == IF Dedup(e) THEN 0 ELSE Meta[e].own
           y == Meta[e].is_dir
<1>1. Meta[e].own \in Nat /\ y \in BOOLEAN
  BY FileTreeAssumption DEF MetaType
<1>2. x \in Nat
  BY <1>1
<1>3. FilledIn(r, e) = [r EXCEPT !.own = x, !.is_dir = y]
  BY DEF FilledIn
<1> HIDE DEF x, y
<1>4. [r EXCEPT !.own = x, !.is_dir = y] =
        [id |-> r.id, parent |-> r.parent, entry |-> r.entry, own |-> x, is_dir |-> y]
  <2>0. PICK a1, a2, a3, a4, a5 :
          r = [id |-> a1, parent |-> a2, entry |-> a3, own |-> a4, is_dir |-> a5]
    BY DEF Rec
  <2>1. [r EXCEPT !.own = x] = [id |-> a1, parent |-> a2, entry |-> a3, own |-> x, is_dir |-> a5]
    BY ONLY <2>0
  <2>2. [[id |-> a1, parent |-> a2, entry |-> a3, own |-> x, is_dir |-> a5] EXCEPT !.is_dir = y] =
        [id |-> a1, parent |-> a2, entry |-> a3, own |-> x, is_dir |-> y]
    BY ONLY <2>0
  <2>3. [r EXCEPT !.own = x, !.is_dir = y] = [[r EXCEPT !.own = x] EXCEPT !.is_dir = y]
    BY ONLY <2>0
  <2>. QED  BY ONLY <2>0, <2>1, <2>2, <2>3
<1>5. FilledIn(r, e) =
        [id |-> r.id, parent |-> r.parent, entry |-> r.entry, own |-> x, is_dir |-> y]
  BY <1>3, <1>4
<1>6. FilledIn(r, e) \in Rec
  <2>1. r.id \in Nat /\ r.parent \in Nat /\ r.entry \in Entry
    BY DEF Rec
  <2>. QED  BY <1>1, <1>2, <1>5, <2>1 DEF Rec
<1>. QED  BY <1>5, <1>6 DEF x, y

-----------------------------------------------------------------------------
(* The rings and the batches keep their types.                             *)

\* Worker t has set its ring up.
Ready(t) == ring[t] \in RingType

\* A worker without a ring has never done anything.
RingFirst(t) == ring[t] = NoRing => pc[t] \in {"own", "panic"} /\ batch[t] = EmptyBatch

LEMMA RingUp ==
  ASSUME RingTypeOK, NEW t \in Workers
  PROVE  (ring[t].up <=> Ready(t)) /\ (~Ready(t) <=> ring[t] = NoRing)
<1>1. ring[t] \in RingType \/ ring[t] = NoRing
  BY DEF RingTypeOK
<1>2. ring[t] \in RingType => ring[t].up
  BY DEF RingType
<1>3. ring[t] = NoRing => ~ring[t].up
  BY DEF NoRing
<1>. QED  BY <1>1, <1>2, <1>3 DEF Ready

LEMMA AfterEnterType ==
  ASSUME NEW b \in BatchType
  PROVE  AfterEnter(b) \in BatchType
<1>1. 0 \in 0 .. SubmitAt - 1
  BY UringAssumption
<1>2. AfterEnter(b) = [rl |-> b.rl, next |-> b.next, done |-> b.done, to_submit |-> 0,
                       comp |-> b.comp, slot_entry |-> b.slot_entry, free |-> b.free]
  BY AfterEnterIs
<1>. QED  BY <1>1, <1>2 DEF BatchType

LEMMA QueueIs ==
  ASSUME RingTypeOK, NEW t \in Workers, RingFirst(t), Queue(t)
  PROVE  LET b == batch[t]
             r == QueuedRing(ring[t], Last(b.free), b.rl[b.next + 1].entry)
         IN /\ Ready(t) /\ b \in BatchType /\ MayQueue(b) /\ r \in RingType /\ UNCHANGED vars
            /\ \/ /\ ring' = [ring EXCEPT ![t] = r]
                  /\ batch' = [batch EXCEPT ![t] = QueuedBatch(b)]
                  /\ QueuedBatch(b) \in BatchType
               \/ \E n \in 0 .. Len(r.sq) :
                    /\ ring' = [ring EXCEPT ![t] = SubmittedRing(r, n)]
                    /\ batch' = [batch EXCEPT ![t] = AfterEnter(QueuedBatch(b))]
                    /\ SubmittedRing(r, n) \in RingType
                    /\ AfterEnter(QueuedBatch(b)) \in BatchType
<1> DEFINE b == batch[t]
           e == b.rl[b.next + 1].entry
           r == QueuedRing(ring[t], Last(b.free), e)
           submit == b.to_submit + 1
<1>1. b \in BatchType /\ MayQueue(b) /\ pc[t] = "batch" /\ UNCHANGED vars
  BY DEF Queue, RingTypeOK
<1>2. Ready(t)
  BY <1>1, RingUp DEF RingFirst
<1>3. r \in RingType /\ submit \in Nat
  <2>1. Last(b.free) \in Slot /\ e \in Entry
    BY <1>1, QueuedBatchIs
  <2>2. b.to_submit \in Nat
    BY <1>1, UringAssumption DEF BatchType
  <2> HIDE DEF e, b
  <2>3. submit \in Nat
    BY <2>2
  <2>. QED  BY <1>2, <2>1, <2>3, QueuedRingIs DEF Ready
<1>4. /\ submit < SubmitAt => QueuedBatch(b) \in BatchType
      /\ AfterEnter(QueuedBatch(b)) \in BatchType
  BY <1>1, QueueTypes
<1>5. SubmitAt \in Nat
  BY UringAssumption
<1>6. CASE submit >= SubmitAt
  <2>1. PICK n \in Taken(r, submit) :
          /\ ring' = [ring EXCEPT ![t] = SubmittedRing(r, n)]
          /\ batch' = [batch EXCEPT ![t] = AfterEnter(QueuedBatch(b))]
    BY <1>6 DEF Queue
  <2> HIDE DEF r, submit
  <2>2. n \in 0 .. Len(r.sq)
    BY <1>3, TakenIs
  <2>3. SubmittedRing(r, n) \in RingType
    BY <1>3, <2>2, SubmittedRingIs
  <2>. QED  BY <1>1, <1>2, <1>3, <1>4, <2>1, <2>2, <2>3 DEF r
<1>7. CASE ~(submit >= SubmitAt)
  <2>1. submit < SubmitAt
    BY <1>3, <1>5, <1>7
  <2>2. ring' = [ring EXCEPT ![t] = r] /\ batch' = [batch EXCEPT ![t] = QueuedBatch(b)]
    BY <1>7 DEF Queue
  <2>. QED  BY <1>1, <1>2, <1>3, <1>4, <2>1, <2>2
<1>. QED  BY <1>6, <1>7

LEMMA EnterIs ==
  ASSUME RingTypeOK, NEW t \in Workers, RingFirst(t), Enter(t)
  PROVE  /\ Ready(t) /\ batch[t] \in BatchType
         /\ \E n \in 0 .. Len(ring[t].sq) :
              /\ ring' = [ring EXCEPT ![t] = SubmittedRing(ring[t], n)]
              /\ SubmittedRing(ring[t], n) \in RingType
         /\ batch' = [batch EXCEPT ![t] = AfterEnter(batch[t])]
         /\ AfterEnter(batch[t]) \in BatchType
         /\ \E c \in {"reap", "wait"} : pc' = [pc EXCEPT ![t] = c]
         /\ UNCHANGED <<shared, off, item, todo, id, childdirs, local, kernel>>
<1>1. batch[t] \in BatchType /\ pc[t] = "batch"
  BY DEF Enter, RingTypeOK
<1>2. ring[t] \in RingType
  BY <1>1, RingUp DEF RingFirst, Ready
<1>3. batch[t].to_submit \in Nat
  BY <1>1, UringAssumption DEF BatchType
<1>4. PICK n \in Taken(ring[t], batch[t].to_submit) :
        /\ ring' = [ring EXCEPT ![t] = SubmittedRing(@, n)]
        /\ pc' = [pc EXCEPT ![t] = IF n < batch[t].to_submit THEN "reap" ELSE "wait"]
  BY DEF Enter
<1>5. n \in 0 .. Len(ring[t].sq)
  BY <1>2, <1>3, TakenIs
<1>6. SubmittedRing(ring[t], n) \in RingType
  BY <1>2, <1>5, SubmittedRingIs
<1>7. ring' = [ring EXCEPT ![t] = SubmittedRing(ring[t], n)]
  BY <1>4
<1>8. batch' = [batch EXCEPT ![t] = AfterEnter(batch[t])]
  BY DEF Enter
<1>9. AfterEnter(batch[t]) \in BatchType
  BY <1>1, AfterEnterType
<1>10. \E c \in {"reap", "wait"} : pc' = [pc EXCEPT ![t] = c]
  BY <1>4
<1>11. UNCHANGED <<shared, off, item, todo, id, childdirs, local, kernel>>
  BY DEF Enter
<1>. QED  BY <1>1, <1>2, <1>5, <1>6, <1>7, <1>8, <1>9, <1>10, <1>11 DEF Ready

LEMMA CompleteIs ==
  ASSUME RingTypeOK, NEW t \in Workers, Complete(t)
  PROVE  /\ Ready(t)
         /\ \E op \in ring[t].inflight, ok \in BOOLEAN :
              /\ op \in Slot \X Entry
              /\ ok \/ op[2] \in Flaky
              /\ ring' = [ring EXCEPT ![t] = Answered(ring[t], op, ok)]
              /\ Answered(ring[t], op, ok) \in RingType
         /\ UNCHANGED <<vars, kernel, batch>>
<1>1. Ready(t)
  BY RingUp DEF Complete
<1>2. PICK op \in ring[t].inflight, ok \in BOOLEAN :
        /\ ok \/ op[2] \in Flaky
        /\ ring' = [ring EXCEPT ![t] = Answered(@, op, ok)]
  BY DEF Complete
<1>3. op \in Slot \X Entry
  BY <1>1 DEF Ready, RingType
<1>4. Answered(ring[t], op, ok) \in RingType
  BY <1>1, <1>3, AnsweredIs DEF Ready
<1>. QED  BY <1>1, <1>2, <1>3, <1>4 DEF Complete

LEMMA ReapIs ==
  ASSUME RingTypeOK, NEW t \in Workers, RingFirst(t), Reap(t)
  PROVE  LET b == batch[t]
             r == ring[t]
             b2 == [rl |-> b.rl, next |-> b.next, done |-> b.done, to_submit |-> b.to_submit,
                    comp |-> r.cq, slot_entry |-> b.slot_entry, free |-> b.free]
             r2 == [up |-> TRUE, sqe |-> r.sqe, sq |-> r.sq, inflight |-> r.inflight,
                    cq |-> <<>>, buf |-> r.buf]
         IN /\ Ready(t) /\ b \in BatchType /\ pc[t] \in {"wait", "reap"}
            /\ ring' = [ring EXCEPT ![t] = r2] /\ r2 \in RingType
            /\ batch' = [batch EXCEPT ![t] = b2] /\ b2 \in BatchType
            /\ pc' = [pc EXCEPT ![t] = "comp"]
            /\ UNCHANGED <<shared, off, item, todo, id, childdirs, local, kernel>>
<1> DEFINE b == batch[t]
           r == ring[t]
           b2 == [rl |-> b.rl, next |-> b.next, done |-> b.done, to_submit |-> b.to_submit,
                  comp |-> r.cq, slot_entry |-> b.slot_entry, free |-> b.free]
           r2 == [up |-> TRUE, sqe |-> r.sqe, sq |-> r.sq, inflight |-> r.inflight,
                  cq |-> <<>>, buf |-> r.buf]
<1>1. b \in BatchType /\ pc[t] \in {"wait", "reap"}
  BY DEF Reap, RingTypeOK
<1>2. r \in RingType
  BY <1>1, RingUp DEF RingFirst, Ready
<1>3. r2 \in RingType /\ b2 \in BatchType
  <2>1. <<>> \in Seq([slot : Slot, ok : BOOLEAN]) /\ r.cq \in Seq([slot : Slot, ok : BOOLEAN])
    BY <1>2, EmptySeq DEF RingType
  <2>2. r2 \in RingType
    BY <1>2, <2>1 DEF RingType
  <2>3. b2 \in BatchType
    BY <1>1, <2>1 DEF BatchType
  <2>. QED  BY <2>2, <2>3
<1>4. [b EXCEPT !.comp = r.cq] = b2
  <2>1. PICK b0 : b0 = b
    OBVIOUS
  <2>2. PICK x : x = r.cq
    OBVIOUS
  <2>3. b0 = [rl |-> b0.rl, next |-> b0.next, done |-> b0.done, to_submit |-> b0.to_submit,
              comp |-> b0.comp, slot_entry |-> b0.slot_entry, free |-> b0.free]
    BY <1>1, <2>1, BatchFields
  <2>4. [b0 EXCEPT !.comp = x] =
          [rl |-> b0.rl, next |-> b0.next, done |-> b0.done, to_submit |-> b0.to_submit,
           comp |-> x, slot_entry |-> b0.slot_entry, free |-> b0.free]
    BY ONLY <2>3
  <2>. QED  BY <2>1, <2>2, <2>4
<1>5. [r EXCEPT !.cq = <<>>] = r2
  <2>1. PICK r0 : r0 = r
    OBVIOUS
  <2>2. PICK x : x = <<>>
    OBVIOUS
  <2>3. r0 = [up |-> r0.up, sqe |-> r0.sqe, sq |-> r0.sq, inflight |-> r0.inflight,
              cq |-> r0.cq, buf |-> r0.buf]
    BY <1>2, <2>1, RingFields
  <2>4. [r0 EXCEPT !.cq = x] = [up |-> r0.up, sqe |-> r0.sqe, sq |-> r0.sq,
                                inflight |-> r0.inflight, cq |-> x, buf |-> r0.buf]
    BY ONLY <2>3
  <2>5. r0.up = TRUE
    BY <1>2, <2>1 DEF RingType
  <2>. QED  BY <2>1, <2>2, <2>4, <2>5
<1>6. batch' = [batch EXCEPT ![t] = [b EXCEPT !.comp = r.cq]]
  BY DEF Reap
<1>7. ring' = [ring EXCEPT ![t] = [r EXCEPT !.cq = <<>>]]
  BY DEF Reap
<1>8. pc' = [pc EXCEPT ![t] = "comp"]
      /\ UNCHANGED <<shared, off, item, todo, id, childdirs, local, kernel>>
  BY DEF Reap
<1>9. batch' = [batch EXCEPT ![t] = b2] /\ ring' = [ring EXCEPT ![t] = r2]
  BY <1>4, <1>5, <1>6, <1>7, Zenon
<1> HIDE DEF b2, r2
<1>10. /\ Ready(t) /\ b \in BatchType /\ pc[t] \in {"wait", "reap"}
       /\ ring' = [ring EXCEPT ![t] = r2] /\ r2 \in RingType
       /\ batch' = [batch EXCEPT ![t] = b2] /\ b2 \in BatchType
       /\ pc' = [pc EXCEPT ![t] = "comp"]
       /\ UNCHANGED <<shared, off, item, todo, id, childdirs, local, kernel>>
  BY <1>1, <1>2, <1>3, <1>8, <1>9 DEF Ready
<1>. QED  BY <1>10, Zenon DEF b2, r2

\* The records of a batch after the next of its completions has been handled.
RlAfter(b, r) ==
  LET c == Head(b.comp)
      i == b.slot_entry[c.slot]
  IN IF c.ok THEN [b.rl EXCEPT ![i] = FilledIn(b.rl[i], r.buf[c.slot])] ELSE b.rl

BatchAfter(b, r) ==
  [rl |-> RlAfter(b, r), next |-> b.next, done |-> b.done + 1, to_submit |-> b.to_submit,
   comp |-> Tail(b.comp), slot_entry |-> b.slot_entry, free |-> Append(b.free, Head(b.comp).slot)]

LEMMA HandleIs ==
  ASSUME RingTypeOK, NEW t \in Workers, RingFirst(t), Handle(t)
  PROVE  LET b == batch[t]
             r == ring[t]
             c == Head(b.comp)
             i == b.slot_entry[c.slot]
             e == r.buf[c.slot]
         IN /\ Ready(t) /\ b \in BatchType /\ pc[t] = "comp" /\ b.comp # <<>>
            /\ c \in Call /\ e \in Entry /\ i \in Nat
            /\ batch' = [batch EXCEPT ![t] = BatchAfter(b, r)]
            /\ BatchAfter(b, r) \in BatchType
            /\ RlAfter(b, r) \in Seq(Rec) /\ Len(RlAfter(b, r)) = Len(b.rl)
            /\ i \in DOMAIN b.rl => b.rl[i] \in Rec
            /\ UNCHANGED <<cfg, root_dev, counter, active, deque, recs, nodes,
                           pc, off, item, todo, id, local, kernel, ring>>
<1> DEFINE b == batch[t]
           r == ring[t]
           c == Head(b.comp)
           i == b.slot_entry[c.slot]
           e == r.buf[c.slot]
           h == Handled(b, c)
           rl2 == RlAfter(b, r)
<1>1. b \in BatchType /\ pc[t] = "comp" /\ b.comp # <<>>
  BY Zenon DEF Handle, RingTypeOK
<1>2. r \in RingType
  BY <1>1, RingUp DEF RingFirst, Ready
<1>3. /\ h = [rl |-> b.rl, next |-> b.next, done |-> b.done + 1, to_submit |-> b.to_submit,
              comp |-> Tail(b.comp), slot_entry |-> b.slot_entry, free |-> Append(b.free, c.slot)]
      /\ h \in BatchType /\ c \in Call
  BY <1>1, HandledIs
<1>4. c.slot \in Slot /\ e \in Entry /\ i \in Nat
  BY <1>1, <1>2, <1>3 DEF Call, RingType, BatchType
<1>5. b.rl \in Seq(Rec) /\ (i \in DOMAIN b.rl => b.rl[i] \in Rec)
  BY <1>1, ElementOfSeq, LenProperties DEF BatchType
<1>6. rl2 \in Seq(Rec) /\ Len(rl2) = Len(b.rl)
  <2>1. CASE c.ok /\ i \in DOMAIN b.rl
    <3>1. FilledIn(b.rl[i], e) \in Rec
      BY <1>4, <1>5, <2>1, FilledInIs
    <3>2. i \in 1 .. Len(b.rl)
      BY <1>5, <2>1, LenProperties
    <3>. HIDE DEF b, i, e
    <3>3. /\ [b.rl EXCEPT ![i] = FilledIn(b.rl[i], e)] \in Seq(Rec)
          /\ Len([b.rl EXCEPT ![i] = FilledIn(b.rl[i], e)]) = Len(b.rl)
      BY <1>5, <3>1, <3>2, ExceptSeq
    <3>4. rl2 = [b.rl EXCEPT ![i] = FilledIn(b.rl[i], e)]
      BY <2>1 DEF RlAfter, b, i, e
    <3>. QED  BY <3>3, <3>4
  <2>2. CASE ~(c.ok /\ i \in DOMAIN b.rl)
    <3>1. rl2 = b.rl
      BY <1>5, <2>2, LenProperties DEF RlAfter
    <3>. QED  BY <1>5, <3>1
  <2>. QED  BY <2>1, <2>2
<1>7. batch' = [batch EXCEPT ![t] = BatchAfter(b, r)]
  <2>1. CASE c.ok
    <3>1. batch' = [batch EXCEPT ![t] = [h EXCEPT !.rl = [h.rl EXCEPT ![i] = FilledIn(h.rl[i], e)]]]
      BY <2>1, Zenon DEF Handle, ResultOf
    <3>2. [h EXCEPT !.rl = [h.rl EXCEPT ![i] = FilledIn(h.rl[i], e)]] = BatchAfter(b, r)
      <4>1. PICK h0 : h0 = h
        OBVIOUS
      <4>2. PICK x : x = [h.rl EXCEPT ![i] = FilledIn(h.rl[i], e)]
        OBVIOUS
      <4>3. h0 = [rl |-> h0.rl, next |-> h0.next, done |-> h0.done, to_submit |-> h0.to_submit,
                  comp |-> h0.comp, slot_entry |-> h0.slot_entry, free |-> h0.free]
        BY <1>3, <4>1, BatchFields
      <4>4. [h0 EXCEPT !.rl = x] =
              [rl |-> x, next |-> h0.next, done |-> h0.done, to_submit |-> h0.to_submit,
               comp |-> h0.comp, slot_entry |-> h0.slot_entry, free |-> h0.free]
        BY ONLY <4>3
      <4>5. x = rl2 /\ h0.next = b.next /\ h0.done = b.done + 1 /\ h0.to_submit = b.to_submit
            /\ h0.comp = Tail(b.comp) /\ h0.slot_entry = b.slot_entry
            /\ h0.free = Append(b.free, c.slot)
        <5>1. h.rl = b.rl
          BY <1>3
        <5>2. x = rl2
          BY <2>1, <4>2, <5>1, Zenon DEF RlAfter
        <5>3. h0.next = b.next /\ h0.done = b.done + 1 /\ h0.to_submit = b.to_submit
              /\ h0.comp = Tail(b.comp) /\ h0.slot_entry = b.slot_entry
              /\ h0.free = Append(b.free, c.slot)
          <6>. HIDE DEF b, c, h
          <6>. QED  BY ONLY <1>3, <4>1
        <5>. QED  BY <5>2, <5>3
      <4>6. [h0 EXCEPT !.rl = x] = BatchAfter(b, r)
        BY <4>4, <4>5 DEF BatchAfter
      <4>. QED  BY <4>1, <4>2, <4>6, Zenon
    <3>. QED  BY <3>1, <3>2, Zenon
  <2>2. CASE ~c.ok
    <3>1. batch' = [batch EXCEPT ![t] = h]
      BY <2>2 DEF Handle
    <3>2. h = BatchAfter(b, r)
      BY <1>3, <2>2 DEF BatchAfter, RlAfter
    <3>. QED  BY <3>1, <3>2, Zenon
  <2>. QED  BY <2>1, <2>2
<1>8. BatchAfter(b, r) \in BatchType
  <2>1. /\ b.next \in Nat /\ b.done + 1 \in Nat /\ b.to_submit \in 0 .. SubmitAt - 1
        /\ b.slot_entry \in [Slot -> Nat]
    BY <1>1 DEF BatchType
  <2>2. Tail(b.comp) \in Seq([slot : Slot, ok : BOOLEAN]) /\ Append(b.free, c.slot) \in Seq(Slot)
    BY <1>1, <1>4, EndsOfSeq, AppendProperties DEF BatchType
  <2>. HIDE DEF b, r, rl2
  <2>. QED  BY <1>6, <2>1, <2>2 DEF BatchType, BatchAfter, rl2, c
<1>9. UNCHANGED <<cfg, root_dev, counter, active, deque, recs, nodes,
                  pc, off, item, todo, id, local, kernel, ring>>
  BY Zenon DEF Handle
<1>. QED  BY <1>1, <1>2, <1>3, <1>4, <1>5, <1>6, <1>7, <1>8, <1>9 DEF Ready

ClosedBatch(b) ==
  [rl |-> <<>>, next |-> 0, done |-> 0, to_submit |-> 0, comp |-> <<>>,
   slot_entry |-> b.slot_entry, free |-> b.free]

LEMMA CloseDirIs ==
  ASSUME RingTypeOK, NEW t \in Workers, RingFirst(t), CloseDir(t)
  PROVE  /\ Ready(t) /\ batch[t] \in BatchType /\ pc[t] = "batch" /\ AllDone(batch[t])
         /\ batch' = [batch EXCEPT ![t] = ClosedBatch(batch[t])]
         /\ ClosedBatch(batch[t]) \in BatchType
         /\ local' = [local EXCEPT ![t] = @ \cup ToSet(batch[t].rl)]
         /\ pc' = [pc EXCEPT ![t] = "entry"]
         /\ UNCHANGED <<shared, off, item, todo, id, childdirs, kernel, ring>>
<1> DEFINE b == batch[t]
<1>1. b \in BatchType /\ pc[t] = "batch" /\ AllDone(b)
  BY DEF CloseDir, RingTypeOK
<1>2. Ready(t)
  BY <1>1, RingUp DEF RingFirst
<1>3. ClosedBatch(b) \in BatchType
  BY <1>1, UringAssumption, EmptySeq DEF BatchType, ClosedBatch
<1>4. batch' = [batch EXCEPT ![t] = [EmptyBatch EXCEPT !.free = b.free, !.slot_entry = b.slot_entry]]
  BY DEF CloseDir
<1>5. [EmptyBatch EXCEPT !.free = b.free, !.slot_entry = b.slot_entry] = ClosedBatch(b)
  <2>1. PICK b0, x, y : b0 = EmptyBatch /\ x = b.free /\ y = b.slot_entry
    OBVIOUS
  <2>2. PICK s, f : b0 = [rl |-> <<>>, next |-> 0, done |-> 0, to_submit |-> 0, comp |-> <<>>,
                          slot_entry |-> s, free |-> f]
    BY <2>1 DEF EmptyBatch
  <2>3. [b0 EXCEPT !.free = x] = [rl |-> <<>>, next |-> 0, done |-> 0, to_submit |-> 0,
                                  comp |-> <<>>, slot_entry |-> s, free |-> x]
    BY ONLY <2>2
  <2>4. [[rl |-> <<>>, next |-> 0, done |-> 0, to_submit |-> 0, comp |-> <<>>,
          slot_entry |-> s, free |-> x] EXCEPT !.slot_entry = y] =
        [rl |-> <<>>, next |-> 0, done |-> 0, to_submit |-> 0, comp |-> <<>>,
         slot_entry |-> y, free |-> x]
    BY ONLY <2>2
  <2>5. [b0 EXCEPT !.free = x, !.slot_entry = y] =
          [[b0 EXCEPT !.free = x] EXCEPT !.slot_entry = y]
    BY ONLY <2>2
  <2>6. [b0 EXCEPT !.free = x, !.slot_entry = y] = ClosedBatch(b)
    BY <2>1, <2>3, <2>4, <2>5 DEF ClosedBatch
  <2>. QED  BY <2>1, <2>6, Zenon
<1>6. batch' = [batch EXCEPT ![t] = ClosedBatch(b)]
  BY <1>4, <1>5, Zenon
<1>7. /\ local' = [local EXCEPT ![t] = @ \cup ToSet(batch[t].rl)]
      /\ pc' = [pc EXCEPT ![t] = "entry"]
      /\ UNCHANGED <<shared, off, item, todo, id, childdirs, kernel, ring>>
  BY DEF CloseDir
<1>. QED  BY <1>1, <1>2, <1>3, <1>6, <1>7

-----------------------------------------------------------------------------
(* Where the slots of a ring are.                                          *)

\* The five places: a slot is free, its call is queued, taken by the kernel,
\* answered, or reaped and to be handled.
Free(b) == ToSet(b.free)
Pending(r) == ToSet(r.sq)
Flying(r) == {op[1] : op \in r.inflight}
Slots(calls) == {c.slot : c \in ToSet(calls)}

OnePerSlot(calls) ==
  IsInjective(calls) /\ \A c, d \in ToSet(calls) : c.slot = d.slot => c = d

\* Each slot is in one place.
OnePlace(r, b) ==
  /\ IsInjective(b.free) /\ IsInjective(r.sq) /\ OnePerSlot(r.cq) /\ OnePerSlot(b.comp)
  /\ \A s \in Slot :
       /\ s \in Free(b) => s \notin Pending(r) \cup Flying(r) \cup Slots(r.cq) \cup Slots(b.comp)
       /\ s \in Pending(r) => s \notin Flying(r) \cup Slots(r.cq) \cup Slots(b.comp)
       /\ s \in Flying(r) => s \notin Slots(r.cq) \cup Slots(b.comp)
       /\ s \in Slots(r.cq) => s \notin Slots(b.comp)
       /\ s \in Free(b) \cup Pending(r) \cup Flying(r) \cup Slots(r.cq) \cup Slots(b.comp)

EntryAt(b, s) == b.rl[b.slot_entry[s]].entry

Answer(r, b, c) ==
  IF c.ok THEN r.buf[c.slot] = EntryAt(b, c.slot) ELSE EntryAt(b, c.slot) \in Flaky

\* A slot in use belongs to one entry, which is what its call names, and what
\* the kernel wrote there once it has answered.
OneEntry(r, b) ==
  /\ \A s \in Slot \ Free(b) : b.slot_entry[s] \in 1 .. b.next
  /\ \A s, u \in Slot \ Free(b) : b.slot_entry[s] = b.slot_entry[u] => s = u
  /\ \A s \in Pending(r) : r.sqe[s] = EntryAt(b, s)
  /\ \A op \in r.inflight : op[2] = EntryAt(b, op[1])
  /\ \A c \in ToSet(r.cq) \cup ToSet(b.comp) : Answer(r, b, c)

\* What a worker records of an entry.
Truthful(r) ==
  \/ /\ r.is_dir = Meta[r.entry].is_dir
     /\ r.own = Meta[r.entry].own \/ (r.own = 0 /\ MultiLinked(r.entry))
  \/ r.entry \in Flaky /\ r.own = 0 /\ ~r.is_dir

Blank(r) == r.own = 0 /\ ~r.is_dir

\* Entry i waits for its result.
Waits(b, i) == i > b.next \/ \E s \in Slot \ Free(b) : b.slot_entry[s] = i

\* Each entry queued has its result or a slot in use.
Progress(b) ==
  /\ b.next <= Len(b.rl)
  /\ b.done + (QD - Len(b.free)) = b.next
  /\ \A i \in 1 .. Len(b.rl) : IF Waits(b, i) THEN Blank(b.rl[i]) ELSE Truthful(b.rl[i])

SlotsKept(r, b) == OnePlace(r, b) /\ OneEntry(r, b) /\ Progress(b)

LEMMA PlaceTypes ==
  ASSUME NEW r \in RingType, NEW b \in BatchType
  PROVE  /\ Free(b) \subseteq Slot /\ Pending(r) \subseteq Slot /\ Flying(r) \subseteq Slot
         /\ ToSet(r.cq) \subseteq Call /\ ToSet(b.comp) \subseteq Call
         /\ Slots(r.cq) \subseteq Slot /\ Slots(b.comp) \subseteq Slot
         /\ \A i \in 1 .. Len(b.rl) : b.rl[i] \in Rec
         /\ Len(b.rl) \in Nat /\ Len(b.free) \in Nat
         /\ b.next \in Nat /\ b.done \in Nat /\ b.slot_entry \in [Slot -> Nat]
<1>1. /\ b.free \in Seq(Slot) /\ r.sq \in Seq(Slot) /\ r.inflight \subseteq Slot \X Entry
      /\ r.cq \in Seq(Call) /\ b.comp \in Seq(Call) /\ b.rl \in Seq(Rec)
      /\ b.next \in Nat /\ b.done \in Nat /\ b.slot_entry \in [Slot -> Nat]
  BY DEF RingType, BatchType, Call
<1>2. /\ Free(b) \subseteq Slot /\ Pending(r) \subseteq Slot
      /\ ToSet(r.cq) \subseteq Call /\ ToSet(b.comp) \subseteq Call
  BY <1>1, ToSetOfSeq DEF Free, Pending
<1>3. Flying(r) \subseteq Slot
  BY <1>1 DEF Flying
<1>4. Slots(r.cq) \subseteq Slot /\ Slots(b.comp) \subseteq Slot
  BY <1>2 DEF Slots, Call
<1>5. \A i \in 1 .. Len(b.rl) : b.rl[i] \in Rec
  BY <1>1, ElementOfSeq
<1>6. Len(b.rl) \in Nat /\ Len(b.free) \in Nat
  BY <1>1, LenProperties
<1>. QED  BY <1>1, <1>2, <1>3, <1>4, <1>5, <1>6

\* A fresh ring with a fresh batch.
LEMMA EmptyKept == SlotsKept(EmptyRing, EmptyBatch)
<1>1. /\ EmptyRing \in RingType /\ EmptyBatch \in BatchType
      /\ EmptyBatch.free \in Seq(Slot) /\ IsInjective(EmptyBatch.free) /\ Len(EmptyBatch.free) = QD
  BY EmptyTypes
<1>2. /\ EmptyRing.sq = <<>> /\ EmptyRing.inflight = {} /\ EmptyRing.cq = <<>>
      /\ EmptyBatch.rl = <<>> /\ EmptyBatch.next = 0 /\ EmptyBatch.done = 0
      /\ EmptyBatch.comp = <<>>
      /\ EmptyBatch.free = [j \in 1 .. QD |-> QD - j]
  BY DEF EmptyRing, EmptyBatch
<1>3. QD \in Nat /\ Slot = 0 .. QD - 1
  BY UringAssumption DEF Slot
<1>4. \A s \in Slot : s \in Free(EmptyBatch)
  <2> TAKE s \in Slot
  <2>1. QD - s \in 1 .. QD /\ QD - (QD - s) = s
    BY <1>3
  <2>2. DOMAIN EmptyBatch.free = 1 .. QD /\ EmptyBatch.free[QD - s] = s
    BY <1>2, <2>1
  <2>. QED  BY <2>1, <2>2 DEF Free, ToSet
<1>5. /\ ToSet(<<>>) = {} /\ IsInjective(<<>>) /\ Len(<<>>) = 0
  BY EmptySeq DEF ToSet, IsInjective
<1>6. OnePlace(EmptyRing, EmptyBatch)
  BY <1>1, <1>2, <1>4, <1>5 DEF OnePlace, OnePerSlot, Pending, Flying, Slots
<1>7. OneEntry(EmptyRing, EmptyBatch)
  BY <1>2, <1>4, <1>5 DEF OneEntry, Pending
<1>8. Progress(EmptyBatch)
  <2>1. 0 <= 0 /\ 0 + (QD - QD) = 0 /\ 1 .. 0 = {}
    BY <1>3
  <2>. QED  BY <1>1, <1>2, <1>5, <2>1 DEF Progress
<1>. QED  BY <1>6, <1>7, <1>8 DEF SlotsKept

LEMMA FrontLen ==
  ASSUME NEW S, NEW s \in Seq(S), s # <<>>
  PROVE  Len(Front(s)) = Len(s) - 1 /\ Len(s) \in Nat \ {0}
<1>1. Len(s) \in Nat \ {0}
  BY ToSetOfSeq
<1>2. \A i \in 1 .. Len(s) - 1 : s[i] \in S
  BY <1>1, ElementOfSeq
<1>3. /\ 1 \in Nat \ {0} /\ Len(s) - 1 \in Nat /\ \A i \in 1 .. Len(s) - 1 : s[i] \in S
      /\ Len(s) - 1 - 1 + 1 = Len(s) - 1
  BY <1>1, <1>2
<1>4. Len(SubSeq(s, 1, Len(s) - 1)) = IF 1 <= Len(s) - 1 THEN Len(s) - 1 - 1 + 1 ELSE 0
  BY <1>3, SubSeqProperties
<1>5. PICK n, m : n = Len(s) /\ m = Len(Front(s))
  OBVIOUS
<1>6. m = IF 1 <= n - 1 THEN n - 1 - 1 + 1 ELSE 0
  BY <1>4, <1>5, Zenon DEF Front
<1>7. m = n - 1 /\ n \in Nat \ {0}
  <2>1. n \in Nat \ {0}
    BY <1>1, <1>5
  <2>. QED  BY ONLY <1>6, <2>1
<1>. QED  BY <1>5, <1>7

\* queue_statx: the last free slot goes to the next entry.
LEMMA QueueKept ==
  ASSUME NEW r \in RingType, NEW b \in BatchType, MayQueue(b), SlotsKept(r, b),
         NEW r2, NEW b2,
         LET s == Last(b.free) IN
           /\ r2.sqe = [r.sqe EXCEPT ![s] = b.rl[b.next + 1].entry]
           /\ r2.sq = Append(r.sq, s)
           /\ b2.slot_entry = [b.slot_entry EXCEPT ![s] = b.next + 1],
         r2.inflight = r.inflight, r2.cq = r.cq, r2.buf = r.buf,
         b2.rl = b.rl, b2.next = b.next + 1, b2.done = b.done, b2.comp = b.comp,
         b2.free = Front(b.free)
  PROVE  SlotsKept(r2, b2)
<1> DEFINE s0 == Last(b.free)
           e0 == b.rl[b.next + 1].entry
<1>1. /\ OnePlace(r, b) /\ OneEntry(r, b) /\ Progress(b)
  BY DEF SlotsKept
<1>2. /\ Free(b) \subseteq Slot /\ Pending(r) \subseteq Slot /\ Flying(r) \subseteq Slot
      /\ ToSet(r.cq) \subseteq Call /\ ToSet(b.comp) \subseteq Call
      /\ Slots(r.cq) \subseteq Slot /\ Slots(b.comp) \subseteq Slot
      /\ Len(b.rl) \in Nat /\ Len(b.free) \in Nat
      /\ b.next \in Nat /\ b.done \in Nat /\ b.slot_entry \in [Slot -> Nat]
      /\ r.sqe \in [Slot -> Entry] /\ b.free \in Seq(Slot) /\ r.sq \in Seq(Slot) /\ b.free # <<>>
      /\ b.next < Len(b.rl)
  BY PlaceTypes DEF RingType, BatchType, MayQueue
<1>3. /\ IsInjective(b2.free) /\ Free(b2) = Free(b) \ {s0} /\ s0 \in Free(b) /\ s0 \in Slot
      /\ Len(b2.free) = Len(b.free) - 1
  <2>1. IsInjective(b.free)
    BY <1>1 DEF OnePlace
  <2>2. IsInjective(Front(b.free)) /\ ToSet(Front(b.free)) = ToSet(b.free) \ {s0} /\ s0 \in ToSet(b.free)
    BY <1>2, <2>1, TakeAnEnd
  <2>3. Len(Front(b.free)) = Len(b.free) - 1
    BY <1>2, FrontLen
  <2>. QED  BY <1>2, <2>2, <2>3 DEF Free
<1>4. /\ s0 \notin Pending(r) \cup Flying(r) \cup Slots(r.cq) \cup Slots(b.comp)
  BY <1>1, <1>3 DEF OnePlace
<1>5. IsInjective(r2.sq) /\ Pending(r2) = Pending(r) \cup {s0}
  <2>1. IsInjective(r.sq) /\ s0 \notin ToSet(r.sq)
    BY <1>1, <1>4 DEF OnePlace, Pending
  <2>. QED  BY <1>2, <1>3, <2>1, AppendApart DEF Pending
<1>6. /\ Flying(r2) = Flying(r) /\ Slots(r2.cq) = Slots(r.cq) /\ Slots(b2.comp) = Slots(b.comp)
      /\ OnePerSlot(r2.cq) /\ OnePerSlot(b2.comp)
  BY <1>1 DEF Flying, OnePlace
<1>7. OnePlace(r2, b2)
  <2>1. \A s \in Slot :
       /\ s \in Free(b) => s \notin Pending(r) \cup Flying(r) \cup Slots(r.cq) \cup Slots(b.comp)
       /\ s \in Pending(r) => s \notin Flying(r) \cup Slots(r.cq) \cup Slots(b.comp)
       /\ s \in Flying(r) => s \notin Slots(r.cq) \cup Slots(b.comp)
       /\ s \in Slots(r.cq) => s \notin Slots(b.comp)
       /\ s \in Free(b) \cup Pending(r) \cup Flying(r) \cup Slots(r.cq) \cup Slots(b.comp)
    BY <1>1 DEF OnePlace
  <2> HIDE DEF s0
  <2>. QED  BY <1>3, <1>4, <1>5, <1>6, <2>1 DEF OnePlace
<1>8. /\ b2.slot_entry[s0] = b.next + 1
      /\ \A s \in Slot \ {s0} : b2.slot_entry[s] = b.slot_entry[s] /\ r2.sqe[s] = r.sqe[s]
      /\ r2.sqe[s0] = e0
  BY <1>2, <1>3
<1>9. \A s \in Slot \ {s0} : EntryAt(b2, s) = EntryAt(b, s)
  BY <1>8 DEF EntryAt
<1>10. EntryAt(b2, s0) = e0
  BY <1>8 DEF EntryAt
<1>11. Slot \ Free(b2) = (Slot \ Free(b)) \cup {s0}
  BY <1>3
<1>12. \A s \in Slot \ Free(b) : s # s0 /\ b.slot_entry[s] \in 1 .. b.next /\ b.slot_entry[s] # b.next + 1
  <2>1. \A s \in Slot \ Free(b) : s # s0 /\ b.slot_entry[s] \in 1 .. b.next
    BY <1>1, <1>3 DEF OneEntry
  <2>. QED  BY <1>2, <2>1
<1>13. OneEntry(r2, b2)
  <2>1. \A s \in Slot \ Free(b2) : b2.slot_entry[s] \in 1 .. b2.next
    <3>1. b.next + 1 \in 1 .. b.next + 1 /\ 1 .. b.next \subseteq 1 .. b.next + 1
      BY <1>2
    <3>. HIDE DEF s0
    <3>. QED  BY <1>8, <1>11, <1>12, <3>1
  <2>2. ASSUME NEW s \in Slot \ Free(b2), NEW u \in Slot \ Free(b2),
               b2.slot_entry[s] = b2.slot_entry[u]
        PROVE  s = u
    <3> HIDE DEF s0
    <3>1. \A x, y \in Slot \ Free(b) : b.slot_entry[x] = b.slot_entry[y] => x = y
      BY <1>1 DEF OneEntry
    <3>. QED  BY <1>8, <1>11, <1>12, <2>2, <3>1
  <2>3. \A s \in Pending(r2) : r2.sqe[s] = EntryAt(b2, s)
    <3>1. \A s \in Pending(r) : s \in Slot \ {s0} /\ r.sqe[s] = EntryAt(b, s)
      BY <1>1, <1>2, <1>4 DEF OneEntry
    <3>. HIDE DEF s0
    <3>. QED  BY <1>5, <1>8, <1>9, <1>10, <3>1
  <2>4. \A op \in r2.inflight : op[2] = EntryAt(b2, op[1])
    <3>1. \A op \in r.inflight : op[1] \in Slot \ {s0} /\ op[2] = EntryAt(b, op[1])
      BY <1>1, <1>2, <1>4 DEF OneEntry, Flying
    <3>. QED  BY <1>9, <3>1
  <2>5. ASSUME NEW c \in ToSet(r2.cq) \cup ToSet(b2.comp) PROVE Answer(r2, b2, c)
    <3>1. c.slot \in Slots(r.cq) \cup Slots(b.comp)
      BY DEF Slots
    <3>2. c.slot \in Slot \ {s0} /\ Answer(r, b, c)
      BY <1>1, <1>2, <1>4, <3>1 DEF OneEntry
    <3>. QED  BY <1>9, <3>2 DEF Answer
  <2>. QED  BY <2>1, <2>2, <2>3, <2>4, <2>5 DEF OneEntry
<1>14. Progress(b2)
  <2>1. b2.next <= Len(b2.rl) /\ b2.done + (QD - Len(b2.free)) = b2.next
    <3>1. b.done + (QD - Len(b.free)) = b.next
      BY <1>1 DEF Progress
    <3>2. QD \in Nat
      BY UringAssumption
    <3>3. PICK n, m, k, d, f, f2 : /\ n = b.next /\ m = Len(b.rl) /\ k = b2.next /\ d = b.done
                                   /\ f = Len(b.free) /\ f2 = Len(b2.free)
      OBVIOUS
    <3>4. n \in Nat /\ m \in Nat /\ d \in Nat /\ f \in Nat /\ n < m /\ k = n + 1 /\ f2 = f - 1
          /\ d + (QD - f) = n
      BY ONLY <1>2, <1>3, <3>1, <3>3, b2.next = b.next + 1
    <3>5. k <= m /\ d + (QD - f2) = k
      BY ONLY <3>2, <3>4
    <3>. QED  BY ONLY <3>3, <3>5, b2.done = b.done, b2.rl = b.rl
  <2>2. ASSUME NEW i \in 1 .. Len(b2.rl) PROVE Waits(b2, i) <=> Waits(b, i)
    <3>1. CASE i = b.next + 1
      <4>1. Waits(b, i)
        BY <1>2, <3>1 DEF Waits
      <4>2. s0 \in Slot \ Free(b2) /\ b2.slot_entry[s0] = i
        BY <1>3, <1>8, <3>1
      <4>. HIDE DEF s0
      <4>. QED  BY <4>1, <4>2 DEF Waits
    <3>2. CASE i # b.next + 1
      <4>1. i > b2.next <=> i > b.next
        BY <1>2, <3>2
      <4>2. (\E s \in Slot \ Free(b2) : b2.slot_entry[s] = i)
            <=> (\E s \in Slot \ Free(b) : b.slot_entry[s] = i)
        <5> HIDE DEF s0
        <5>. QED  BY <1>8, <1>11, <1>12, <3>2
      <4>. QED  BY <4>1, <4>2 DEF Waits
    <3>. QED  BY <3>1, <3>2
  <2>. QED  BY <1>1, <2>1, <2>2 DEF Progress
<1>. QED  BY <1>7, <1>13, <1>14 DEF SlotsKept

\* What remains of a sequence without its first n elements.
LEMMA CutAfter ==
  ASSUME NEW S, NEW s \in Seq(S), IsInjective(s), NEW n \in 0 .. Len(s)
  PROVE  LET q == SubSeq(s, n + 1, Len(s))
             cut == {s[j] : j \in 1 .. n}
         IN IsInjective(q) /\ ToSet(q) = ToSet(s) \ cut /\ cut \subseteq ToSet(s)
<1> DEFINE q == SubSeq(s, n + 1, Len(s))
           cut == {s[j] : j \in 1 .. n}
<1>1. /\ Len(s) \in Nat /\ DOMAIN s = 1 .. Len(s) /\ n \in Nat /\ n <= Len(s)
      /\ \A i \in 1 .. Len(s) : s[i] \in S
      /\ ToSet(s) = {s[i] : i \in 1 .. Len(s)}
  BY ToSetOfSeq, ElementOfSeq
<1>2. \A i, j \in 1 .. Len(s) : s[i] = s[j] => i = j
  BY <1>1 DEF IsInjective
<1>3. DOMAIN q = 1 .. Len(s) - n /\ \A i \in 1 .. Len(s) - n : q[i] = s[n + i]
  <2>1. /\ q \in Seq(S) /\ Len(q) = (IF n + 1 <= Len(s) THEN Len(s) - (n + 1) + 1 ELSE 0)
        /\ \A i \in 1 .. Len(s) - (n + 1) + 1 : q[i] = s[(n + 1) + i - 1]
    BY <1>1, SubSeqProperties
  <2> HIDE DEF q
  <2>2. DOMAIN q = 1 .. Len(q) /\ Len(q) = Len(s) - n
    <3>1. DOMAIN q = 1 .. Len(q)
      BY <2>1, LenProperties
    <3>2. PICK l, m : l = Len(s) /\ m = Len(q)
      OBVIOUS
    <3>3. m = (IF n + 1 <= l THEN l - (n + 1) + 1 ELSE 0) /\ l \in Nat /\ n \in Nat /\ n <= l
      BY ONLY <1>1, <2>1, <3>2, Zenon
    <3>4. m = l - n
      BY ONLY <3>3
    <3>. QED  BY <3>1, <3>2, <3>4
  <2>3. Len(s) - (n + 1) + 1 = Len(s) - n /\ \A i \in Int : (n + 1) + i - 1 = n + i
    BY <1>1
  <2>4. \A i \in 1 .. Len(s) - n : q[i] = s[n + i]
    <3> TAKE i \in 1 .. Len(s) - n
    <3>1. i \in Int /\ i \in 1 .. Len(s) - (n + 1) + 1
      BY <1>1
    <3>2. (n + 1) + i - 1 = n + i
      BY <2>3, <3>1
    <3>. QED  BY <2>1, <3>1, <3>2
  <2>. QED  BY <2>2, <2>4
<1> HIDE DEF q
<1>4. \A i \in 1 .. Len(s) - n : n + i \in 1 .. Len(s) /\ n + i > n
  BY <1>1
<1>5. IsInjective(q)
  BY <1>1, <1>2, <1>3, <1>4 DEF IsInjective
<1>6. \A x : x \in ToSet(q) <=> \E i \in 1 .. Len(s) : i > n /\ x = s[i]
  <2>1. \A i \in 1 .. Len(s) : i > n => i - n \in 1 .. Len(s) - n /\ n + (i - n) = i
    BY <1>1
  <2>2. ASSUME NEW x, x \in ToSet(q) PROVE \E i \in 1 .. Len(s) : i > n /\ x = s[i]
    <3>1. PICK j \in 1 .. Len(s) - n : x = q[j]
      BY <1>3, <2>2 DEF ToSet
    <3>2. n + j \in 1 .. Len(s) /\ n + j > n /\ x = s[n + j]
      BY <1>3, <1>4, <3>1
    <3>. QED  BY <3>2
  <2>3. ASSUME NEW x, NEW i \in 1 .. Len(s), i > n, x = s[i] PROVE x \in ToSet(q)
    <3>1. i - n \in 1 .. Len(s) - n /\ n + (i - n) = i
      BY <2>1, <2>3
    <3>2. q[i - n] = x
      BY <1>3, <2>3, <3>1
    <3>. QED  BY <1>3, <3>1, <3>2 DEF ToSet
  <2>. QED  BY <2>2, <2>3
<1>7. \A i \in 1 .. n : i \in 1 .. Len(s) /\ ~(i > n)
  BY <1>1
<1>8. \A i \in 1 .. Len(s) : ~(i > n) => i \in 1 .. n
  BY <1>1
<1>9. ToSet(q) = ToSet(s) \ cut /\ cut \subseteq ToSet(s)
  BY <1>1, <1>2, <1>6, <1>7, <1>8
<1>. QED  BY <1>5, <1>9 DEF q

\* enter: the kernel takes the n oldest calls.
LEMMA SubmitKept ==
  ASSUME NEW r \in RingType, NEW b \in BatchType, SlotsKept(r, b), NEW n \in 0 .. Len(r.sq),
         NEW r2, NEW b2,
         r2.sq = SubSeq(r.sq, n + 1, Len(r.sq)),
         r2.inflight = r.inflight \cup {<<r.sq[j], r.sqe[r.sq[j]]>> : j \in 1 .. n},
         r2.sqe = r.sqe, r2.cq = r.cq, r2.buf = r.buf,
         b2.rl = b.rl, b2.next = b.next, b2.done = b.done, b2.comp = b.comp,
         b2.slot_entry = b.slot_entry, b2.free = b.free
  PROVE  SlotsKept(r2, b2)
<1> DEFINE cut == {r.sq[j] : j \in 1 .. n}
<1>1. /\ OnePlace(r, b) /\ OneEntry(r, b) /\ Progress(b)
  BY DEF SlotsKept
<1>2. /\ Pending(r) \subseteq Slot /\ Flying(r) \subseteq Slot
  BY PlaceTypes
<1>3. IsInjective(r2.sq) /\ Pending(r2) = Pending(r) \ cut /\ cut \subseteq Pending(r)
  <2>1. r.sq \in Seq(Slot) /\ IsInjective(r.sq)
    BY <1>1 DEF OnePlace, RingType
  <2>2. LET q == SubSeq(r.sq, n + 1, Len(r.sq))
        IN IsInjective(q) /\ ToSet(q) = ToSet(r.sq) \ cut /\ cut \subseteq ToSet(r.sq)
    BY <2>1, CutAfter
  <2> HIDE DEF cut
  <2>. QED  BY <2>2 DEF Pending
<1>4. Flying(r2) = Flying(r) \cup cut
  <2> DEFINE op(j) == <<r.sq[j], r.sqe[r.sq[j]]>>
  <2>1. \A j \in 1 .. n : op(j)[1] = r.sq[j]
    OBVIOUS
  <2>2. r2.inflight = r.inflight \cup {op(j) : j \in 1 .. n}
    OBVIOUS
  <2> HIDE DEF op
  <2>3. \A j \in 1 .. n : op(j) \in r2.inflight
    BY <2>2
  <2>4. Flying(r2) \subseteq Flying(r) \cup cut
    BY <2>1, <2>2 DEF Flying
  <2>5. Flying(r) \subseteq Flying(r2)
    BY <2>2 DEF Flying
  <2>6. cut \subseteq Flying(r2)
    BY <2>1, <2>3 DEF Flying
  <2>. QED  BY <2>4, <2>5, <2>6
<1>5. /\ Free(b2) = Free(b) /\ Slots(r2.cq) = Slots(r.cq) /\ Slots(b2.comp) = Slots(b.comp)
      /\ OnePerSlot(r2.cq) /\ OnePerSlot(b2.comp) /\ IsInjective(b2.free)
  BY <1>1 DEF Free, OnePlace
<1>6. OnePlace(r2, b2)
  <2>1. \A s \in Slot :
       /\ s \in Free(b) => s \notin Pending(r) \cup Flying(r) \cup Slots(r.cq) \cup Slots(b.comp)
       /\ s \in Pending(r) => s \notin Flying(r) \cup Slots(r.cq) \cup Slots(b.comp)
       /\ s \in Flying(r) => s \notin Slots(r.cq) \cup Slots(b.comp)
       /\ s \in Slots(r.cq) => s \notin Slots(b.comp)
       /\ s \in Free(b) \cup Pending(r) \cup Flying(r) \cup Slots(r.cq) \cup Slots(b.comp)
    BY <1>1 DEF OnePlace
  <2> HIDE DEF cut
  <2>. QED  BY <1>3, <1>4, <1>5, <2>1 DEF OnePlace
<1>7. \A s : EntryAt(b2, s) = EntryAt(b, s)
  BY DEF EntryAt
<1>8. OneEntry(r2, b2)
  <2>1. \A s \in Slot \ Free(b2) : b2.slot_entry[s] \in 1 .. b2.next
    BY <1>1, <1>5 DEF OneEntry
  <2>2. \A s, u \in Slot \ Free(b2) : b2.slot_entry[s] = b2.slot_entry[u] => s = u
    BY <1>1, <1>5 DEF OneEntry
  <2>3. \A s \in Pending(r2) : r2.sqe[s] = EntryAt(b2, s)
    BY <1>1, <1>3, <1>7 DEF OneEntry
  <2>4. ASSUME NEW op \in r2.inflight PROVE op[2] = EntryAt(b2, op[1])
    <3>1. CASE op \in r.inflight
      BY <1>1, <1>7, <3>1 DEF OneEntry
    <3>2. CASE op \notin r.inflight
      <4>1. PICK j \in 1 .. n : op = <<r.sq[j], r.sqe[r.sq[j]]>>
        BY <3>2
      <4>2. r.sq[j] \in Pending(r)
        BY <1>3
      <4>3. r.sqe[r.sq[j]] = EntryAt(b, r.sq[j])
        BY <1>1, <4>2 DEF OneEntry
      <4>4. op[1] = r.sq[j] /\ op[2] = r.sqe[r.sq[j]]
        BY <4>1
      <4>. QED  BY <1>7, <4>3, <4>4
    <3>. QED  BY <3>1, <3>2
  <2>5. \A c \in ToSet(r2.cq) \cup ToSet(b2.comp) : Answer(r2, b2, c)
    BY <1>1, <1>7 DEF OneEntry, Answer
  <2>. QED  BY <2>1, <2>2, <2>3, <2>4, <2>5 DEF OneEntry
<1>9. Progress(b2)
  BY <1>1, <1>5 DEF Progress, Waits
<1>. QED  BY <1>6, <1>8, <1>9 DEF SlotsKept

\* The kernel answers the call op.
LEMMA AnswerKept ==
  ASSUME NEW r \in RingType, NEW b \in BatchType, SlotsKept(r, b),
         NEW op \in r.inflight, NEW ok \in BOOLEAN, ok \/ op[2] \in Flaky,
         NEW r2,
         r2.sqe = r.sqe, r2.sq = r.sq, r2.inflight = r.inflight \ {op},
         r2.cq = Append(r.cq, [slot |-> op[1], ok |-> ok]),
         r2.buf = [r.buf EXCEPT ![op[1]] = IF ok THEN op[2] ELSE @]
  PROVE  SlotsKept(r2, b)
<1> DEFINE s0 == op[1]
           c0 == [slot |-> s0, ok |-> ok]
<1>1. /\ OnePlace(r, b) /\ OneEntry(r, b) /\ Progress(b)
  BY DEF SlotsKept
<1>2. /\ Pending(r) \subseteq Slot /\ Flying(r) \subseteq Slot
      /\ ToSet(r.cq) \subseteq Call /\ ToSet(b.comp) \subseteq Call
      /\ Slots(r.cq) \subseteq Slot /\ Slots(b.comp) \subseteq Slot
      /\ r.cq \in Seq(Call) /\ op \in Slot \X Entry /\ r.buf \in [Slot -> Entry]
  BY PlaceTypes DEF RingType, Call
<1>3. s0 \in Flying(r) /\ s0 \in Slot /\ c0 \in Call
  <2>1. s0 \in Slot
    BY <1>2
  <2>2. c0 \in Call
    BY <2>1, Zenon DEF Call
  <2>. QED  BY <2>1, <2>2 DEF Flying
<1>4. s0 \notin Slots(r.cq) \cup Slots(b.comp) \cup Pending(r) \cup Free(b)
  BY <1>1, <1>3 DEF OnePlace
<1>5. \A o \in r.inflight : o[1] = s0 => o = op
  <2> TAKE o \in r.inflight
  <2>1. o \in Slot \X Entry
    BY DEF RingType
  <2>2. o[2] = EntryAt(b, o[1]) /\ op[2] = EntryAt(b, op[1])
    BY <1>1 DEF OneEntry
  <2>3. o = <<o[1], o[2]>> /\ op = <<op[1], op[2]>>
    BY <1>2, <2>1
  <2>. QED  BY <2>2, <2>3
<1>6. Flying(r2) = Flying(r) \ {s0}
  BY <1>5 DEF Flying
<1>7. c0.slot = s0 /\ (c0.ok <=> ok)
  OBVIOUS
<1>8. /\ ToSet(r2.cq) = ToSet(r.cq) \cup {c0} /\ Slots(r2.cq) = Slots(r.cq) \cup {s0}
      /\ OnePerSlot(r2.cq)
  <2> HIDE DEF c0, s0
  <2>0. r2.cq = Append(r.cq, c0)
    BY DEF c0, s0
  <2>1. \A c \in ToSet(r.cq) : c.slot # s0
    BY <1>4 DEF Slots
  <2>2. c0 \notin ToSet(r.cq)
    BY <1>7, <2>1
  <2>3. IsInjective(r.cq) /\ \A c, d \in ToSet(r.cq) : c.slot = d.slot => c = d
    BY <1>1 DEF OnePlace, OnePerSlot
  <2>4. ToSet(r2.cq) = ToSet(r.cq) \cup {c0} /\ IsInjective(r2.cq)
    BY <1>2, <1>3, <2>0, <2>2, <2>3, AppendApart
  <2>5. Slots(r2.cq) = Slots(r.cq) \cup {s0}
    BY <1>7, <2>4 DEF Slots
  <2>6. \A c, d \in ToSet(r2.cq) : c.slot = d.slot => c = d
    BY <1>7, <2>1, <2>3, <2>4
  <2>. QED  BY <2>4, <2>5, <2>6 DEF OnePerSlot
<1>9. Pending(r2) = Pending(r)
  BY DEF Pending
<1>10. OnePlace(r2, b)
  <2>1. \A s \in Slot :
       /\ s \in Free(b) => s \notin Pending(r) \cup Flying(r) \cup Slots(r.cq) \cup Slots(b.comp)
       /\ s \in Pending(r) => s \notin Flying(r) \cup Slots(r.cq) \cup Slots(b.comp)
       /\ s \in Flying(r) => s \notin Slots(r.cq) \cup Slots(b.comp)
       /\ s \in Slots(r.cq) => s \notin Slots(b.comp)
       /\ s \in Free(b) \cup Pending(r) \cup Flying(r) \cup Slots(r.cq) \cup Slots(b.comp)
    BY <1>1 DEF OnePlace
  <2>2. IsInjective(b.free) /\ IsInjective(r2.sq) /\ OnePerSlot(b.comp)
    BY <1>1 DEF OnePlace
  <2> HIDE DEF s0
  <2>. QED  BY <1>3, <1>4, <1>6, <1>8, <1>9, <2>1, <2>2 DEF OnePlace
<1>11. /\ \A s \in Slot \ {s0} : r2.buf[s] = r.buf[s]
       /\ ok => r2.buf[s0] = op[2]
  BY <1>2, <1>3
<1>12. OneEntry(r2, b)
  <2>1. ASSUME NEW c \in ToSet(r2.cq) \cup ToSet(b.comp) PROVE Answer(r2, b, c)
    <3>1. op[2] = EntryAt(b, s0)
      BY <1>1 DEF OneEntry
    <3>2. CASE c = c0
      <4> HIDE DEF c0, s0
      <4>. QED  BY <1>7, <1>11, <3>1, <3>2 DEF Answer
    <3>3. CASE c # c0
      <4>1. c \in ToSet(r.cq) \cup ToSet(b.comp)
        BY <1>8, <3>3
      <4>2. c.slot \in Slot \ {s0} /\ Answer(r, b, c)
        <5>1. c.slot \in Slots(r.cq) \cup Slots(b.comp)
          BY <4>1 DEF Slots
        <5>. QED  BY <1>1, <1>2, <1>4, <4>1, <5>1 DEF OneEntry
      <4>. QED  BY <1>11, <4>2 DEF Answer
    <3>. QED  BY <3>2, <3>3
  <2>. QED  BY <1>1, <1>9, <2>1 DEF OneEntry
<1>. QED  BY <1>1, <1>10, <1>12 DEF SlotsKept

\* reap drains all completions, when there are none left to be handled.
LEMMA ReapKept ==
  ASSUME NEW r \in RingType, NEW b \in BatchType, SlotsKept(r, b), b.comp = <<>>,
         NEW r2, NEW b2,
         r2.sqe = r.sqe, r2.sq = r.sq, r2.inflight = r.inflight, r2.cq = <<>>, r2.buf = r.buf,
         b2.rl = b.rl, b2.next = b.next, b2.done = b.done, b2.comp = r.cq,
         b2.slot_entry = b.slot_entry, b2.free = b.free
  PROVE  SlotsKept(r2, b2)
<1>1. /\ OnePlace(r, b) /\ OneEntry(r, b) /\ Progress(b)
  BY DEF SlotsKept
<1>2. ToSet(<<>>) = {} /\ IsInjective(<<>>)
  BY EmptySeq DEF ToSet, IsInjective
<1>3. /\ Free(b2) = Free(b) /\ Pending(r2) = Pending(r) /\ Flying(r2) = Flying(r)
      /\ Slots(r2.cq) = {} /\ Slots(b.comp) = {} /\ Slots(b2.comp) = Slots(r.cq)
      /\ ToSet(r2.cq) = {} /\ ToSet(b2.comp) = ToSet(r.cq)
  BY <1>2 DEF Free, Pending, Flying, Slots
<1>4. OnePlace(r2, b2)
  BY <1>1, <1>2, <1>3 DEF OnePlace, OnePerSlot
<1>5. OneEntry(r2, b2)
  BY <1>1, <1>3 DEF OneEntry, EntryAt, Answer
<1>6. Progress(b2)
  BY <1>1, <1>3 DEF Progress, Waits
<1>. QED  BY <1>4, <1>5, <1>6 DEF SlotsKept

\* The entry at the slot of a call that has been answered.
LEMMA AnsweredEntry ==
  ASSUME NEW r \in RingType, NEW b \in BatchType, SlotsKept(r, b), b.comp # <<>>
  PROVE  LET c == Head(b.comp)
             i == b.slot_entry[c.slot]
         IN /\ c \in Call /\ c.slot \in Slot \ Free(b) /\ c.slot \in Slots(b.comp)
            /\ i \in 1 .. b.next /\ i \in 1 .. Len(b.rl) /\ b.rl[i] \in Rec
            /\ c \in ToSet(b.comp) /\ Answer(r, b, c) /\ Blank(b.rl[i])
            /\ IF c.ok THEN r.buf[c.slot] = b.rl[i].entry ELSE b.rl[i].entry \in Flaky
<1> DEFINE c == Head(b.comp)
           i == b.slot_entry[c.slot]
<1>1. /\ OnePlace(r, b) /\ OneEntry(r, b) /\ Progress(b)
  BY DEF SlotsKept
<1>2. b.comp \in Seq(Call) /\ IsInjective(b.comp)
  BY <1>1 DEF BatchType, Call, OnePlace, OnePerSlot
<1>3. c \in ToSet(b.comp)
  BY <1>2, TakeAnEnd
<1>4. c \in Call /\ c.slot \in Slots(b.comp) /\ c.slot \in Slot
  BY <1>3, PlaceTypes DEF Slots
<1> HIDE DEF c
<1>5. c.slot \in Slot \ Free(b)
  BY <1>1, <1>4 DEF OnePlace
<1>6. i \in 1 .. b.next
  BY <1>1, <1>5 DEF OneEntry
<1>7. i \in 1 .. Len(b.rl)
  <2>1. b.next <= Len(b.rl) /\ b.next \in Nat /\ Len(b.rl) \in Nat
    BY <1>1, PlaceTypes DEF Progress
  <2>. QED  BY <1>6, <2>1
<1>8. b.rl[i] \in Rec
  BY <1>7, PlaceTypes
<1>9. Answer(r, b, c)
  BY <1>1, <1>3 DEF OneEntry
<1>10. Waits(b, i)
  BY <1>5 DEF Waits
<1>11. Blank(b.rl[i])
  BY <1>1, <1>7, <1>10 DEF Progress
<1>12. IF c.ok THEN r.buf[c.slot] = b.rl[i].entry ELSE b.rl[i].entry \in Flaky
  BY <1>9 DEF Answer, EntryAt
<1>. QED  BY <1>3, <1>4, <1>5, <1>6, <1>7, <1>8, <1>9, <1>11, <1>12, Zenon DEF c

\* The records after a completion: one of them has its result.
LEMMA RlAfterIs ==
  ASSUME NEW r \in RingType, NEW b \in BatchType, SlotsKept(r, b), b.comp # <<>>
  PROVE  LET c == Head(b.comp)
             i == b.slot_entry[c.slot]
             rl2 == RlAfter(b, r)
         IN /\ rl2 \in Seq(Rec) /\ Len(rl2) = Len(b.rl)
            /\ \A j \in 1 .. Len(b.rl) :
                 /\ j # i => rl2[j] = b.rl[j]
                 /\ rl2[j].id = b.rl[j].id /\ rl2[j].parent = b.rl[j].parent
                 /\ rl2[j].entry = b.rl[j].entry
            /\ Truthful(rl2[i])
            /\ rl2[i] = IF c.ok THEN FilledIn(b.rl[i], b.rl[i].entry) ELSE b.rl[i]
<1> DEFINE c == Head(b.comp)
           i == b.slot_entry[c.slot]
           e == b.rl[i].entry
           rl2 == RlAfter(b, r)
<1>1. /\ i \in 1 .. Len(b.rl) /\ b.rl[i] \in Rec /\ Blank(b.rl[i])
      /\ IF c.ok THEN r.buf[c.slot] = b.rl[i].entry ELSE b.rl[i].entry \in Flaky
  BY AnsweredEntry
<1>2. b.rl \in Seq(Rec) /\ e \in Entry
  BY <1>1 DEF BatchType, Rec
<1>3. CASE c.ok
  <2>1. rl2 = [b.rl EXCEPT ![i] = FilledIn(b.rl[i], e)]
    BY <1>1, <1>3, Zenon DEF RlAfter
  <2>2. /\ FilledIn(b.rl[i], e) = [id |-> b.rl[i].id, parent |-> b.rl[i].parent,
                                   entry |-> b.rl[i].entry,
                                   own |-> IF Dedup(e) THEN 0 ELSE Meta[e].own,
                                   is_dir |-> Meta[e].is_dir]
        /\ FilledIn(b.rl[i], e) \in Rec
    BY <1>1, <1>2, FilledInIs, Zenon
  <2>3. Truthful(FilledIn(b.rl[i], e))
    <3>1. PICK q : q = FilledIn(b.rl[i], e)
      OBVIOUS
    <3>2. /\ q.entry = e /\ q.is_dir = Meta[e].is_dir
          /\ q.own = IF Dedup(e) THEN 0 ELSE Meta[e].own
      <4>. HIDE DEF e, i
      <4>1. b.rl[i].entry = e
        BY DEF e
      <4>. QED  BY <2>2, <3>1, <4>1
    <3>3. Dedup(e) => MultiLinked(e)
      BY Zenon DEF Dedup
    <3>. HIDE DEF e
    <3>4. Truthful(q)
      BY <3>2, <3>3, Zenon DEF Truthful
    <3>. QED  BY <3>1, <3>4
  <2> HIDE DEF rl2, i, e
  <2>4. /\ rl2 \in Seq(Rec) /\ Len(rl2) = Len(b.rl)
        /\ \A j \in 1 .. Len(b.rl) : rl2[j] = IF j = i THEN FilledIn(b.rl[i], e) ELSE b.rl[j]
    BY <1>1, <1>2, <2>1, <2>2, ExceptSeq
  <2>5. \A j \in 1 .. Len(b.rl) :
          /\ j # i => rl2[j] = b.rl[j]
          /\ rl2[j].id = b.rl[j].id /\ rl2[j].parent = b.rl[j].parent
          /\ rl2[j].entry = b.rl[j].entry
    BY <2>2, <2>4
  <2>6. rl2[i] = FilledIn(b.rl[i], e)
    BY <1>1, <2>4
  <2>7. Truthful(rl2[i])
    BY <2>3, <2>6
  <2>. QED  BY <1>3, <2>4, <2>5, <2>6, <2>7, Zenon DEF e, rl2, i
<1>4. CASE ~c.ok
  <2>1. rl2 = b.rl
    BY <1>4 DEF RlAfter
  <2>2. Truthful(b.rl[i])
    BY <1>1, <1>4, Zenon DEF Truthful, Blank
  <2>. QED  BY <1>2, <1>4, <2>1, <2>2
<1>. QED  BY <1>3, <1>4

\* A completion is handled: its slot is free again.
LEMMA HandleKept ==
  ASSUME NEW r \in RingType, NEW b \in BatchType, SlotsKept(r, b), b.comp # <<>>,
         NEW b2, b2 = BatchAfter(b, r)
  PROVE  SlotsKept(r, b2)
<1> DEFINE c0 == Head(b.comp)
           s0 == c0.slot
           i == b.slot_entry[s0]
<1>1. /\ OnePlace(r, b) /\ OneEntry(r, b) /\ Progress(b)
  BY DEF SlotsKept
<1>2. /\ c0 \in Call /\ s0 \in Slot \ Free(b) /\ s0 \in Slots(b.comp) /\ c0 \in ToSet(b.comp)
      /\ i \in 1 .. b.next /\ i \in 1 .. Len(b.rl)
  BY AnsweredEntry
<1>3. /\ Len(b2.rl) = Len(b.rl) /\ Truthful(b2.rl[i])
      /\ \A j \in 1 .. Len(b.rl) : b2.rl[j].entry = b.rl[j].entry /\ (j # i => b2.rl[j] = b.rl[j])
  BY RlAfterIs DEF BatchAfter
<1>4. /\ b2.next = b.next /\ b2.done = b.done + 1 /\ b2.comp = Tail(b.comp)
      /\ b2.slot_entry = b.slot_entry /\ b2.free = Append(b.free, s0)
  BY DEF BatchAfter
<1>5. /\ Free(b) \subseteq Slot /\ Pending(r) \subseteq Slot /\ Flying(r) \subseteq Slot
      /\ ToSet(r.cq) \subseteq Call /\ ToSet(b.comp) \subseteq Call
      /\ Slots(r.cq) \subseteq Slot /\ Slots(b.comp) \subseteq Slot
      /\ Len(b.rl) \in Nat /\ Len(b.free) \in Nat
      /\ b.next \in Nat /\ b.done \in Nat /\ b.slot_entry \in [Slot -> Nat]
      /\ b.free \in Seq(Slot) /\ b.comp \in Seq(Call)
  BY PlaceTypes DEF BatchType, Call
<1> HIDE DEF i, s0
<1>6. IsInjective(b2.free) /\ Free(b2) = Free(b) \cup {s0} /\ Len(b2.free) = Len(b.free) + 1
  <2>1. IsInjective(b.free) /\ s0 \in Slot /\ s0 \notin ToSet(b.free)
    BY <1>1, <1>2 DEF OnePlace, Free
  <2>2. /\ ToSet(Append(b.free, s0)) = ToSet(b.free) \cup {s0}
        /\ IsInjective(Append(b.free, s0)) /\ Len(Append(b.free, s0)) = Len(b.free) + 1
    BY <1>5, <2>1, AppendApart, AppendProperties
  <2>. QED  BY <1>4, <2>2 DEF Free
<1>7. /\ OnePerSlot(b2.comp) /\ ToSet(b2.comp) = ToSet(b.comp) \ {c0}
      /\ Slots(b2.comp) = Slots(b.comp) \ {s0}
  <2>1. IsInjective(b.comp) /\ \A c, d \in ToSet(b.comp) : c.slot = d.slot => c = d
    BY <1>1 DEF OnePlace, OnePerSlot
  <2>2. IsInjective(Tail(b.comp)) /\ ToSet(Tail(b.comp)) = ToSet(b.comp) \ {c0}
    BY <1>5, <2>1, TakeAnEnd
  <2> HIDE DEF c0
  <2>3. \A c \in ToSet(b.comp) : c.slot = s0 <=> c = c0
    BY <1>2, <2>1 DEF s0
  <2>4. Slots(b2.comp) = Slots(b.comp) \ {s0}
    BY <1>4, <2>2, <2>3 DEF Slots
  <2>. QED  BY <1>4, <2>1, <2>2, <2>4 DEF OnePerSlot
<1>8. OnePlace(r, b2)
  <2>1. \A s \in Slot :
       /\ s \in Free(b) => s \notin Pending(r) \cup Flying(r) \cup Slots(r.cq) \cup Slots(b.comp)
       /\ s \in Pending(r) => s \notin Flying(r) \cup Slots(r.cq) \cup Slots(b.comp)
       /\ s \in Flying(r) => s \notin Slots(r.cq) \cup Slots(b.comp)
       /\ s \in Slots(r.cq) => s \notin Slots(b.comp)
       /\ s \in Free(b) \cup Pending(r) \cup Flying(r) \cup Slots(r.cq) \cup Slots(b.comp)
    BY <1>1 DEF OnePlace
  <2>2. IsInjective(r.sq) /\ OnePerSlot(r.cq)
    BY <1>1 DEF OnePlace
  <2>. QED  BY <1>2, <1>6, <1>7, <2>1, <2>2 DEF OnePlace
<1>9. \A s \in Slot \ Free(b) : b.slot_entry[s] \in 1 .. Len(b.rl) /\ EntryAt(b2, s) = EntryAt(b, s)
  <2> TAKE s \in Slot \ Free(b)
  <2>1. b.slot_entry[s] \in 1 .. b.next /\ b.next <= Len(b.rl)
    BY <1>1 DEF OneEntry, Progress
  <2>2. b.slot_entry[s] \in 1 .. Len(b.rl)
    BY <1>5, <2>1
  <2>. QED  BY <1>3, <1>4, <2>2 DEF EntryAt
<1>10. /\ Pending(r) \subseteq Slot \ Free(b) /\ Flying(r) \subseteq Slot \ Free(b)
       /\ \A c \in ToSet(r.cq) \cup ToSet(b.comp) : c.slot \in Slot \ Free(b)
  <2>1. \A c \in ToSet(r.cq) \cup ToSet(b.comp) : c.slot \in Slots(r.cq) \cup Slots(b.comp)
    BY DEF Slots
  <2>. QED  BY <1>1, <1>5, <2>1 DEF OnePlace
<1>11. OneEntry(r, b2)
  <2>1. \A s \in Slot \ Free(b2) : b2.slot_entry[s] \in 1 .. b2.next
    BY <1>1, <1>4, <1>6 DEF OneEntry
  <2>2. \A s, u \in Slot \ Free(b2) : b2.slot_entry[s] = b2.slot_entry[u] => s = u
    BY <1>1, <1>4, <1>6 DEF OneEntry
  <2>3. \A s \in Pending(r) : r.sqe[s] = EntryAt(b2, s)
    BY <1>1, <1>9, <1>10 DEF OneEntry
  <2>4. \A op \in r.inflight : op[2] = EntryAt(b2, op[1])
    <3>1. \A op \in r.inflight : op[1] \in Slot \ Free(b)
      BY <1>10 DEF Flying
    <3>. QED  BY <1>1, <1>9, <3>1 DEF OneEntry
  <2>5. \A c \in ToSet(r.cq) \cup ToSet(b2.comp) : Answer(r, b2, c)
    BY <1>1, <1>7, <1>9, <1>10 DEF OneEntry, Answer
  <2>. QED  BY <2>1, <2>2, <2>3, <2>4, <2>5 DEF OneEntry
<1>12. Progress(b2)
  <2>1. b2.next <= Len(b2.rl) /\ b2.done + (QD - Len(b2.free)) = b2.next
    <3>1. b.done + (QD - Len(b.free)) = b.next /\ b.next <= Len(b.rl)
      BY <1>1 DEF Progress
    <3>2. QD \in Nat
      BY UringAssumption
    <3>3. PICK n, d, f, d2, f2 : /\ n = b.next /\ d = b.done /\ f = Len(b.free)
                                 /\ d2 = b2.done /\ f2 = Len(b2.free)
      OBVIOUS
    <3>4. n \in Nat /\ d \in Nat /\ f \in Nat /\ d2 = d + 1 /\ f2 = f + 1 /\ d + (QD - f) = n
      BY ONLY <1>4, <1>5, <1>6, <3>1, <3>3
    <3>5. d2 + (QD - f2) = n
      BY ONLY <3>2, <3>4
    <3>. QED  BY ONLY <1>3, <1>4, <3>1, <3>3, <3>5
  <2>2. ASSUME NEW j \in 1 .. Len(b2.rl)
        PROVE  IF Waits(b2, j) THEN Blank(b2.rl[j]) ELSE Truthful(b2.rl[j])
    <3>1. CASE j = i
      <4>1. ~(i > b2.next)
        BY <1>2, <1>4, <1>5
      <4>2. \A s \in Slot \ Free(b2) : b2.slot_entry[s] # i
        BY <1>1, <1>2, <1>4, <1>6 DEF OneEntry, i
      <4>3. ~Waits(b2, i)
        BY <4>1, <4>2 DEF Waits
      <4>. QED  BY <1>3, <3>1, <4>3
    <3>2. CASE j # i
      <4>1. Waits(b2, j) <=> Waits(b, j)
        BY <1>2, <1>4, <1>6, <3>2 DEF Waits, i
      <4>2. j \in 1 .. Len(b.rl) /\ b2.rl[j] = b.rl[j]
        BY <1>3, <3>2
      <4>. QED  BY <1>1, <4>1, <4>2 DEF Progress
    <3>. QED  BY <3>1, <3>2
  <2>. QED  BY <2>1, <2>2 DEF Progress
<1>. QED  BY <1>8, <1>11, <1>12 DEF SlotsKept

\* Once each call has been handled, all slots are free.
LEMMA AllFree ==
  ASSUME NEW r \in RingType, NEW b \in BatchType, SlotsKept(r, b), b.next <= b.done
  PROVE  /\ Free(b) = Slot /\ Len(b.free) = QD /\ b.next = b.done
         /\ r.sq = <<>> /\ r.inflight = {} /\ r.cq = <<>> /\ b.comp = <<>>
<1>1. /\ OnePlace(r, b) /\ OneEntry(r, b) /\ Progress(b)
  BY DEF SlotsKept
<1>2. /\ Free(b) \subseteq Slot /\ b.next \in Nat /\ b.done \in Nat /\ Len(b.free) \in Nat
      /\ QD \in Nat /\ Slot = 0 .. QD - 1 /\ b.free \in Seq(Slot)
  BY PlaceTypes, UringAssumption DEF Slot, BatchType
<1>3. IsFiniteSet(Free(b)) /\ Cardinality(Free(b)) = Len(b.free)
  BY <1>1, <1>2, LenIsCardinality DEF Free, OnePlace
<1>4. IsFiniteSet(Slot) /\ Cardinality(Slot) = QD
  <2>1. /\ Cardinality(0 .. QD - 1) = (IF 0 > QD - 1 THEN 0 ELSE QD - 1 - 0 + 1)
        /\ IsFiniteSet(0 .. QD - 1)
    BY <1>2, FS_Interval
  <2>2. (IF 0 > QD - 1 THEN 0 ELSE QD - 1 - 0 + 1) = QD
    BY <1>2
  <2>. QED  BY <1>2, <2>1, <2>2
<1>5. Len(b.free) <= QD
  BY <1>2, <1>3, <1>4, FS_Subset
<1>6. b.done + (QD - Len(b.free)) = b.next
  BY <1>1 DEF Progress
<1>7. Len(b.free) = QD /\ b.next = b.done
  <2>1. PICK n, d, f : n = b.next /\ d = b.done /\ f = Len(b.free)
    OBVIOUS
  <2>2. n \in Nat /\ d \in Nat /\ f \in Nat /\ QD \in Nat /\ f <= QD /\ d + (QD - f) = n /\ n <= d
    BY ONLY <1>2, <1>5, <1>6, <2>1, b.next <= b.done
  <2>3. f = QD /\ n = d
    BY ONLY <2>2
  <2>. QED  BY <2>1, <2>3
<1>8. Free(b) = Slot
  BY <1>2, <1>3, <1>4, <1>7, FS_Subset
<1>9. Pending(r) = {} /\ Flying(r) = {} /\ Slots(r.cq) = {} /\ Slots(b.comp) = {}
  <2>1. \A s \in Slot : s \notin Pending(r) \cup Flying(r) \cup Slots(r.cq) \cup Slots(b.comp)
    BY <1>1, <1>8 DEF OnePlace
  <2>. QED  BY <2>1, PlaceTypes
<1>10. ToSet(r.sq) = {} /\ r.inflight = {} /\ ToSet(r.cq) = {} /\ ToSet(b.comp) = {}
  BY <1>9 DEF Pending, Flying, Slots
<1>11. \A S : \A s \in Seq(S) : ToSet(s) = {} => s = <<>>
  <2> TAKE S
  <2> TAKE s \in Seq(S)
  <2>1. s # <<>> => 1 \in DOMAIN s
    BY ToSetOfSeq
  <2>. QED  BY <2>1 DEF ToSet
<1>12. r.sq \in Seq(Slot) /\ r.cq \in Seq(Call) /\ b.comp \in Seq(Call)
  BY DEF RingType, BatchType, Call
<1>. QED  BY <1>7, <1>8, <1>10, <1>11, <1>12

\* close_fd: all entries have their results.
LEMMA CloseKept ==
  ASSUME NEW r \in RingType, NEW b \in BatchType, SlotsKept(r, b), AllDone(b)
  PROVE  /\ SlotsKept(r, ClosedBatch(b))
         /\ \A x \in ToSet(b.rl) : Truthful(x)
         /\ \A i \in 1 .. Len(b.rl) : ~Waits(b, i)
<1>1. /\ OnePlace(r, b) /\ OneEntry(r, b) /\ Progress(b)
  BY DEF SlotsKept
<1>2. b.next \in Nat /\ b.done \in Nat /\ Len(b.rl) \in Nat /\ b.rl \in Seq(Rec)
  BY PlaceTypes DEF BatchType
<1>3. b.next <= Len(b.rl) /\ b.done >= Len(b.rl)
  BY <1>1 DEF Progress, AllDone
<1>4. b.next <= b.done
  BY <1>2, <1>3
<1>5. /\ Free(b) = Slot /\ Len(b.free) = QD /\ b.next = b.done
      /\ r.sq = <<>> /\ r.inflight = {} /\ r.cq = <<>> /\ b.comp = <<>>
  BY <1>4, AllFree
<1>6. \A i \in 1 .. Len(b.rl) : ~Waits(b, i)
  <2>1. \A i \in 1 .. Len(b.rl) : ~(i > b.next)
    BY <1>2, <1>3, <1>5
  <2>. QED  BY <1>5, <2>1 DEF Waits
<1>7. \A x \in ToSet(b.rl) : Truthful(x)
  <2>1. \A i \in 1 .. Len(b.rl) : Truthful(b.rl[i])
    BY <1>1, <1>6 DEF Progress
  <2>. QED  BY <1>2, <2>1, ToSetOfSeq
<1> DEFINE b2 == ClosedBatch(b)
<1>8. /\ b2.rl = <<>> /\ b2.next = 0 /\ b2.done = 0 /\ b2.comp = <<>>
      /\ b2.slot_entry = b.slot_entry /\ b2.free = b.free
  BY DEF ClosedBatch
<1> HIDE DEF b2
<1>9. OnePlace(r, b2)
  BY <1>1, <1>5, <1>8 DEF OnePlace, Free
<1>10. OneEntry(r, b2)
  <2>1. Slot \ Free(b2) = {} /\ Pending(r) = {} /\ r.inflight = {}
        /\ ToSet(r.cq) \cup ToSet(b2.comp) = {}
    BY <1>5, <1>8 DEF Free, Pending, ToSet
  <2>. QED  BY <2>1 DEF OneEntry
<1>11. Progress(b2)
  <2>1. QD \in Nat /\ Len(<<>>) = 0
    BY UringAssumption, EmptySeq
  <2>2. 0 <= 0 /\ 0 + (QD - QD) = 0 /\ 1 .. 0 = {}
    BY <2>1
  <2>. QED  BY <1>5, <1>8, <2>1, <2>2 DEF Progress
<1>. QED  BY <1>6, <1>7, <1>9, <1>10, <1>11 DEF SlotsKept, b2

\* The records of k entries of a directory, of which nothing is known yet.
OpenedRl(t, k) ==
  [j \in 1 .. k |-> [id |-> counter + j - 1, parent |-> item[t].id,
                     entry |-> Listing[item[t].dir][j], own |-> 0, is_dir |-> FALSE]]

OpenedBatch(b, rl) ==
  [rl |-> rl, next |-> b.next, done |-> b.done, to_submit |-> b.to_submit,
   comp |-> b.comp, slot_entry |-> b.slot_entry, free |-> b.free]

LEMMA OpenKept ==
  ASSUME NEW r \in RingType, NEW b \in BatchType, SlotsKept(r, b),
         b.next = 0, b.done = 0, b.comp = <<>>,
         NEW rl \in Seq(Rec), \A i \in 1 .. Len(rl) : Blank(rl[i])
  PROVE  SlotsKept(r, OpenedBatch(b, rl))
<1>1. /\ OnePlace(r, b) /\ OneEntry(r, b) /\ Progress(b)
  BY DEF SlotsKept
<1>2. /\ Free(b) = Slot /\ Len(b.free) = QD
      /\ r.sq = <<>> /\ r.inflight = {} /\ r.cq = <<>>
  BY AllFree
<1> DEFINE b2 == OpenedBatch(b, rl)
<1>3. /\ b2.rl = rl /\ b2.next = 0 /\ b2.done = 0 /\ b2.comp = <<>>
      /\ b2.slot_entry = b.slot_entry /\ b2.free = b.free
  BY DEF OpenedBatch
<1> HIDE DEF b2
<1>4. OnePlace(r, b2)
  BY <1>1, <1>3 DEF OnePlace, Free
<1>5. OneEntry(r, b2)
  <2>1. Slot \ Free(b2) = {} /\ Pending(r) = {} /\ r.inflight = {}
        /\ ToSet(r.cq) \cup ToSet(b2.comp) = {}
    BY <1>2, <1>3 DEF Free, Pending, ToSet
  <2>. QED  BY <2>1 DEF OneEntry
<1>6. Progress(b2)
  <2>1. QD \in Nat /\ Len(rl) \in Nat
    BY UringAssumption, LenProperties
  <2>2. 0 <= Len(rl) /\ 0 + (QD - QD) = 0 /\ \A i \in 1 .. Len(rl) : i > 0
    BY <2>1
  <2>. QED  BY <1>2, <1>3, <2>2 DEF Progress, Waits
<1>. QED  BY <1>4, <1>5, <1>6 DEF SlotsKept, b2

LEMMA OpenAtIs ==
  ASSUME RingTypeOK, item \in [Workers -> Item], counter \in Nat, NEW t \in Workers,
         RingFirst(t), OpenAt(t)
  PROVE  LET d == item[t].dir IN
         /\ Ready(t) /\ batch[t] \in BatchType /\ pc[t] = "open" /\ d \in Entry
         /\ \/ \E k \in 0 .. Len(Listing[d]) :
                 /\ MayOpen(d)
                 /\ d \notin Flaky => k = Len(Listing[d])
                 /\ counter' = counter + k
                 /\ pc' = [pc EXCEPT ![t] = "batch"]
                 /\ batch' = [batch EXCEPT ![t] = OpenedBatch(batch[t], OpenedRl(t, k))]
                 /\ OpenedBatch(batch[t], OpenedRl(t, k)) \in BatchType
                 /\ OpenedRl(t, k) \in Seq(Rec) /\ Len(OpenedRl(t, k)) = k
                 /\ \A i \in 1 .. k : Blank(OpenedRl(t, k)[i])
            \/ /\ ~MayOpen(d) \/ d \in Flaky
               /\ pc' = [pc EXCEPT ![t] = "entry"]
               /\ UNCHANGED <<counter, batch>>
         /\ UNCHANGED <<cfg, root_dev, active, seen, deque, recs, nodes,
                        off, item, todo, id, childdirs, local, kernel, ring>>
<1> DEFINE d == item[t].dir
<1>1. batch[t] \in BatchType /\ pc[t] = "open" /\ item[t] \in Item /\ d \in Entry
  BY DEF OpenAt, RingTypeOK, Item
<1>2. Ready(t)
  BY <1>1, RingUp DEF RingFirst
<1>3. UNCHANGED <<cfg, root_dev, active, seen, deque, recs, nodes,
                  off, item, todo, id, childdirs, local, kernel, ring>>
  BY DEF OpenAt
<1>4. Listing[d] \in Seq(Entry) /\ Len(Listing[d]) \in Nat
  BY <1>1, FileTreeAssumption, LenProperties
<1>5. CASE /\ ~MayOpen(d) \/ d \in Flaky
           /\ pc' = [pc EXCEPT ![t] = "entry"]
           /\ UNCHANGED <<counter, batch>>
  BY <1>1, <1>2, <1>3, <1>5
<1>6. CASE ~(/\ ~MayOpen(d) \/ d \in Flaky
             /\ pc' = [pc EXCEPT ![t] = "entry"]
             /\ UNCHANGED <<counter, batch>>)
  <2>1. PICK k \in IF d \in Flaky THEN 0 .. Len(Listing[d]) ELSE {Len(Listing[d])} :
          /\ counter' = counter + k
          /\ batch' = [batch EXCEPT ![t].rl =
                  [j \in 1 .. k |-> [id |-> Base(k) + j - 1, parent |-> item[t].id,
                                     entry |-> Listing[d][j], own |-> 0, is_dir |-> FALSE]]]
    BY <1>6, Zenon DEF OpenAt
  <2>2. MayOpen(d) /\ pc' = [pc EXCEPT ![t] = "batch"]
    BY <1>6, Zenon DEF OpenAt
  <2>3. k \in 0 .. Len(Listing[d]) /\ (d \notin Flaky => k = Len(Listing[d]))
    BY <1>4
  <2> DEFINE rl == OpenedRl(t, k)
  <2>4. batch' = [batch EXCEPT ![t] = [batch[t] EXCEPT !.rl = rl]]
    BY <2>1 DEF OpenedRl, Base
  <2>5. rl \in Seq(Rec) /\ Len(rl) = k /\ \A i \in 1 .. k : Blank(rl[i])
    <3> DEFINE rec(j) == [id |-> counter + j - 1, parent |-> item[t].id,
                          entry |-> Listing[d][j], own |-> 0, is_dir |-> FALSE]
    <3>1. k \in Nat /\ \A j \in 1 .. k : j \in 1 .. Len(Listing[d])
      BY <1>4, <2>3
    <3>2. \A j \in 1 .. k : rec(j) \in Rec /\ Blank(rec(j))
      <4> TAKE j \in 1 .. k
      <4>1. Listing[d][j] \in Entry
        BY <1>4, <3>1, ElementOfSeq
      <4>2. counter + j - 1 \in Nat /\ item[t].id \in Nat
        BY <1>1, <3>1 DEF Item
      <4>. QED  BY <4>1, <4>2 DEF Rec, Blank
    <3>3. rl = [j \in 1 .. k |-> rec(j)]
      BY DEF OpenedRl
    <3> HIDE DEF rec, rl
    <3>4. rl \in Seq(Rec) /\ Len(rl) = k
      <4>1. rl \in [1 .. k -> Rec]
        BY <3>2, <3>3
      <4>. QED  BY <3>1, <4>1, SeqDef, LenProperties
    <3>. QED  BY <3>2, <3>3, <3>4
  <2>6. [batch[t] EXCEPT !.rl = rl] = OpenedBatch(batch[t], rl)
    <3>1. PICK b0, x : b0 = batch[t] /\ x = rl
      OBVIOUS
    <3>2. b0 = [rl |-> b0.rl, next |-> b0.next, done |-> b0.done, to_submit |-> b0.to_submit,
                comp |-> b0.comp, slot_entry |-> b0.slot_entry, free |-> b0.free]
      BY <1>1, <3>1, BatchFields
    <3>3. [b0 EXCEPT !.rl = x] =
            [rl |-> x, next |-> b0.next, done |-> b0.done, to_submit |-> b0.to_submit,
             comp |-> b0.comp, slot_entry |-> b0.slot_entry, free |-> b0.free]
      BY ONLY <3>2
    <3>4. [b0 EXCEPT !.rl = x] = OpenedBatch(b0, x)
      BY <3>3 DEF OpenedBatch
    <3>. QED  BY <3>1, <3>4, Zenon
  <2>7. batch' = [batch EXCEPT ![t] = OpenedBatch(batch[t], rl)]
    BY <2>4, <2>6, Zenon
  <2>8. OpenedBatch(batch[t], rl) \in BatchType
    <3> HIDE DEF rl
    <3>. QED  BY <1>1, <2>5 DEF BatchType, OpenedBatch
  <2> HIDE DEF rl
  <2>9. \E k0 \in 0 .. Len(Listing[d]) :
                 /\ MayOpen(d)
                 /\ d \notin Flaky => k0 = Len(Listing[d])
                 /\ counter' = counter + k0
                 /\ pc' = [pc EXCEPT ![t] = "batch"]
                 /\ batch' = [batch EXCEPT ![t] = OpenedBatch(batch[t], OpenedRl(t, k0))]
                 /\ OpenedBatch(batch[t], OpenedRl(t, k0)) \in BatchType
                 /\ OpenedRl(t, k0) \in Seq(Rec) /\ Len(OpenedRl(t, k0)) = k0
                 /\ \A i \in 1 .. k0 : Blank(OpenedRl(t, k0)[i])
    BY <2>1, <2>2, <2>3, <2>5, <2>7, <2>8 DEF rl
  <2>. QED  BY <1>1, <1>2, <1>3, <2>9
<1>. QED  BY <1>5, <1>6

-----------------------------------------------------------------------------
(* The invariant of the rings.                                             *)

\* What is kept of a worker's ring and batch: between two directories the
\* batch is empty, and only what has been reaped waits to be handled.
WorkerRing(t) ==
  /\ RingFirst(t)
  /\ Ready(t) => SlotsKept(ring[t], batch[t])
  /\ pc[t] \notin Batching => batch[t].rl = <<>> /\ batch[t].next = 0 /\ batch[t].done = 0
  /\ pc[t] # "comp" => batch[t].comp = <<>>

RingInv == RingTypeOK /\ \A t \in Workers : WorkerRing(t)

LEMMA RingInit == UInit => RingInv
<1> SUFFICES ASSUME UInit PROVE RingInv
  OBVIOUS
<1>1. pc = [t \in Workers |-> "own"]
  BY DEF UInit, Init
<1>2. /\ ring = [t \in Workers |-> NoRing] /\ batch = [t \in Workers |-> EmptyBatch]
      /\ kernel \in Kernels
  BY DEF UInit
<1>3. kernel \in KernelType
  BY <1>2, UringAssumption
<1>4. EmptyBatch \in BatchType
  BY EmptyTypes
<1>5. RingTypeOK
  BY <1>1, <1>2, <1>3, <1>4 DEF RingTypeOK, Pc
<1>6. ASSUME NEW t \in Workers PROVE WorkerRing(t)
  <2>1. ~Ready(t)
    BY <1>2, <1>5, RingUp
  <2>2. EmptyBatch.rl = <<>> /\ EmptyBatch.next = 0 /\ EmptyBatch.done = 0 /\ EmptyBatch.comp = <<>>
    BY DEF EmptyBatch
  <2>. QED  BY <1>1, <1>2, <2>1, <2>2 DEF WorkerRing, RingFirst
<1>. QED  BY <1>5, <1>6 DEF RingInv

\* A step of worker t that leaves the others' rings and batches alone.
LEMMA OthersKept ==
  ASSUME RingInv, NEW t \in Workers, NEW r, NEW b, NEW c,
         c \in UPc, r \in RingType, b \in BatchType,
         kernel' = kernel,
         ring' = [ring EXCEPT ![t] = r], batch' = [batch EXCEPT ![t] = b],
         pc' = [pc EXCEPT ![t] = c],
         SlotsKept(r, b),
         c \notin Batching => b.rl = <<>> /\ b.next = 0 /\ b.done = 0,
         c # "comp" => b.comp = <<>>
  PROVE  RingInv'
<1>1. RingTypeOK'
  BY DEF RingInv, RingTypeOK, UPc
<1>2. ring'[t] = r /\ batch'[t] = b /\ pc'[t] = c
  BY DEF RingInv, RingTypeOK
<1>3. \A u \in Workers \ {t} : ring'[u] = ring[u] /\ batch'[u] = batch[u] /\ pc'[u] = pc[u]
  BY DEF RingInv, RingTypeOK
<1>4. WorkerRing(t)'
  <2>1. r # NoRing
    <3>1. r.up
      BY DEF RingType
    <3>2. ~NoRing.up
      BY DEF NoRing
    <3>. QED  BY <3>1, <3>2
  <2>. QED  BY <1>2, <2>1 DEF WorkerRing, RingFirst, Ready
<1>5. ASSUME NEW u \in Workers \ {t} PROVE WorkerRing(u)'
  <2>1. WorkerRing(u)
    BY DEF RingInv
  <2>. QED  BY <1>3, <2>1 DEF WorkerRing, RingFirst, Ready
<1>. QED  BY <1>1, <1>4, <1>5 DEF RingInv

\* A step that leaves the rings and the batches alone.
LEMMA PcStep ==
  ASSUME RingInv, NEW t \in Workers, NEW c \in UPc, UNCHANGED uring,
         pc[t] \notin Batching \/ (batch[t].comp = <<>> /\ c = "batch"),
         c \notin Batching \/ (batch[t].comp = <<>> /\ c = "batch"),
         (RingFirst(t) /\ ring[t] # NoRing) \/ c = "own" \/ c = "panic",
         pc' = [pc EXCEPT ![t] = c]
  PROVE  RingInv'
<1>1. RingTypeOK'
  BY DEF RingInv, RingTypeOK, UPc, uring
<1>2. ring'[t] = ring[t] /\ batch'[t] = batch[t] /\ pc'[t] = c
  BY DEF RingInv, RingTypeOK, uring
<1>3. \A u \in Workers \ {t} : ring'[u] = ring[u] /\ batch'[u] = batch[u] /\ pc'[u] = pc[u]
  BY DEF RingInv, RingTypeOK, uring
<1>4. WorkerRing(t)'
  <2>1. WorkerRing(t)
    BY DEF RingInv
  <2>2. RingFirst(t)'
    BY <1>2, <2>1 DEF WorkerRing, RingFirst
  <2>. QED  BY <1>2, <2>1, <2>2 DEF WorkerRing, Ready, Batching
<1>5. ASSUME NEW u \in Workers \ {t} PROVE WorkerRing(u)'
  <2>1. WorkerRing(u)
    BY DEF RingInv
  <2>. QED  BY <1>3, <2>1 DEF WorkerRing, RingFirst, Ready
<1>. QED  BY <1>1, <1>4, <1>5 DEF RingInv

LEMMA RingStep ==
  ASSUME RingInv, Std!TypeInv, [UNext]_uvars
  PROVE  RingInv'
<1>1. /\ RingTypeOK /\ pc \in [Workers -> UPc]
      /\ \A t \in Workers : /\ WorkerRing(t) /\ RingFirst(t)
                            /\ Ready(t) => SlotsKept(ring[t], batch[t])
  BY DEF RingInv, RingTypeOK, UPc, WorkerRing
<1>2. item \in [Workers -> Item] /\ counter \in Nat
  BY SameMeaning DEF Std!TypeInv, Std!TypeOK
<1>3. ASSUME NEW t \in Workers, Setup(t) PROVE RingInv'
  <2>1. pc[t] = "own" /\ ~ring[t].up /\ UNCHANGED <<kernel, batch>>
    BY <1>3 DEF Setup
  <2>2. ring[t] = NoRing /\ batch[t] = EmptyBatch /\ batch[t] \in BatchType
    BY <1>1, <2>1, RingUp, EmptyTypes DEF RingFirst
  <2>3. CASE ring' = [ring EXCEPT ![t] = EmptyRing] /\ UNCHANGED pc
    <3>1. batch' = [batch EXCEPT ![t] = EmptyBatch] /\ pc' = [pc EXCEPT ![t] = "own"]
      BY <1>1, <2>1, <2>2, <2>3 DEF RingTypeOK
    <3>2. EmptyRing \in RingType /\ SlotsKept(EmptyRing, EmptyBatch) /\ EmptyBatch \in BatchType
      BY EmptyTypes, EmptyKept
    <3>3. EmptyBatch.rl = <<>> /\ EmptyBatch.next = 0 /\ EmptyBatch.done = 0 /\ EmptyBatch.comp = <<>>
      BY DEF EmptyBatch
    <3>4. "own" \in UPc
      BY DEF UPc, Pc
    <3>. HIDE DEF RingInv
    <3>. QED  BY <2>1, <2>3, <3>1, <3>2, <3>3, <3>4, OthersKept
  <2>4. CASE pc' = [pc EXCEPT ![t] = "panic"] /\ UNCHANGED ring
    <3>1. "panic" \in UPc /\ pc[t] \notin Batching /\ "panic" \notin Batching
      BY <2>1 DEF UPc, Batching
    <3>2. UNCHANGED uring
      BY <2>1, <2>4 DEF uring
    <3>. QED  BY <2>4, <3>1, <3>2, PcStep
  <2>. QED  BY <1>3, <2>3, <2>4 DEF Setup
<1>4. ASSUME NEW t \in Workers, GetDirectory(t) PROVE RingInv'
  <2>1. UNCHANGED uring /\ ring[t] # NoRing /\ RingFirst(t)
    BY <1>1, <1>4, RingUp DEF GetDirectory
  <2>2. /\ pc[t] \in {"own", "steal"}
        /\ \E c \in {"steal", "guard", "publish", "own"} : pc' = [pc EXCEPT ![t] = c]
    <3>1. CASE PopOwn(t)
      BY <3>1 DEF PopOwn
    <3>2. CASE Steal(t)
      <4>1. pc' = [pc EXCEPT ![t] = "guard"] \/ pc' = [pc EXCEPT ![t] = "steal"]
        BY <1>1, <3>2 DEF Steal
      <4>. QED  BY <3>2, <4>1 DEF Steal
    <3>3. CASE CheckActive(t)
      BY <3>3 DEF CheckActive
    <3>. QED  BY <1>4, <3>1, <3>2, <3>3 DEF GetDirectory
  <2>3. PICK c \in {"steal", "guard", "publish", "own"} : pc' = [pc EXCEPT ![t] = c]
    BY <2>2
  <2>4. c \in UPc /\ c \notin Batching /\ pc[t] \notin Batching
    BY <2>2 DEF UPc, Pc, Batching
  <2>. QED  BY <2>1, <2>3, <2>4, PcStep
<1>5. ASSUME NEW t \in Workers, FinishDirectory(t) PROVE RingInv'
  <2>1. /\ pc[t] \in {"entry", "add", "sub", "publish"} /\ UNCHANGED uring
        /\ \E c \in {"add", "sub", "own", "exit"} : pc' = [pc EXCEPT ![t] = c]
    BY <1>5 DEF FinishDirectory, PushChildren, PushTo, AddActive, SubActive, Publish
  <2>2. PICK c \in {"add", "sub", "own", "exit"} : pc' = [pc EXCEPT ![t] = c]
    BY <2>1
  <2>3. c \in UPc /\ c \notin Batching /\ pc[t] \notin Batching
    BY <2>1 DEF UPc, Pc, Batching
  <2>4. ring[t] # NoRing /\ RingFirst(t)
    BY <1>1, <2>1 DEF RingFirst
  <2>. QED  BY <2>1, <2>2, <2>3, <2>4, PcStep
<1>6. ASSUME NEW t \in Workers, AllHandled(t) PROVE RingInv'
  <2>1. /\ pc[t] = "comp" /\ batch[t].comp = <<>> /\ UNCHANGED uring
        /\ pc' = [pc EXCEPT ![t] = "batch"]
    BY <1>6 DEF AllHandled
  <2>2. ring[t] # NoRing /\ RingFirst(t)
    BY <1>1, <2>1 DEF RingFirst
  <2>3. "batch" \in UPc
    BY DEF UPc
  <2>. QED  BY <2>1, <2>2, <2>3, PcStep
<1>17. ASSUME NEW t \in Workers, CheckLimits(t) PROVE RingInv'
  <2>1. /\ pc[t] = "guard" /\ UNCHANGED uring
        /\ \E c \in {"open", "entry"} : pc' = [pc EXCEPT ![t] = c]
    BY <1>17 DEF CheckLimits
  <2>2. PICK c \in {"open", "entry"} : pc' = [pc EXCEPT ![t] = c]
    BY <2>1
  <2>3. c \in UPc /\ c \notin Batching /\ pc[t] \notin Batching
    BY <2>1 DEF UPc, Pc, Batching
  <2>4. ring[t] # NoRing /\ RingFirst(t)
    BY <1>1, <2>1 DEF RingFirst
  <2>. QED  BY <2>1, <2>2, <2>3, <2>4, PcStep
<1>7. ASSUME NEW t \in Workers, OpenAt(t) PROVE RingInv'
  <2> DEFINE d == item[t].dir
  <2>1. /\ Ready(t) /\ batch[t] \in BatchType /\ pc[t] = "open"
        /\ UNCHANGED <<kernel, ring>>
    BY <1>1, <1>2, <1>7, OpenAtIs
  <2>2. batch[t].next = 0 /\ batch[t].done = 0 /\ batch[t].comp = <<>> /\ batch[t].rl = <<>>
    BY <1>1, <2>1 DEF WorkerRing, Batching
  <2>3. CASE pc' = [pc EXCEPT ![t] = "entry"] /\ UNCHANGED batch
    <3>1. "entry" \in UPc /\ "entry" \notin Batching /\ pc[t] \notin Batching
      BY <2>1 DEF UPc, Pc, Batching
    <3>2. UNCHANGED uring /\ ring[t] # NoRing
      BY <1>1, <2>1, <2>3, RingUp DEF uring
    <3>. QED  BY <1>1, <2>3, <3>1, <3>2, PcStep
  <2>4. CASE ~(pc' = [pc EXCEPT ![t] = "entry"] /\ UNCHANGED batch)
    <3>1. PICK k \in 0 .. Len(Listing[d]) :
            /\ pc' = [pc EXCEPT ![t] = "batch"]
            /\ batch' = [batch EXCEPT ![t] = OpenedBatch(batch[t], OpenedRl(t, k))]
            /\ OpenedBatch(batch[t], OpenedRl(t, k)) \in BatchType
            /\ OpenedRl(t, k) \in Seq(Rec) /\ Len(OpenedRl(t, k)) = k
            /\ \A i \in 1 .. k : Blank(OpenedRl(t, k)[i])
      BY <1>1, <1>2, <1>7, <2>4, OpenAtIs
    <3> DEFINE b2 == OpenedBatch(batch[t], OpenedRl(t, k))
    <3>2. SlotsKept(ring[t], b2)
      BY <1>1, <2>1, <2>2, <3>1, OpenKept DEF Ready
    <3>3. b2.comp = <<>>
      BY <2>2 DEF OpenedBatch
    <3>4. "batch" \in UPc /\ "batch" \in Batching
      BY DEF UPc, Batching
    <3>5. ring' = [ring EXCEPT ![t] = ring[t]]
      BY <1>1, <2>1 DEF RingTypeOK
    <3>6. ring[t] \in RingType /\ kernel' = kernel /\ b2 \in BatchType
      BY <2>1, <3>1 DEF Ready
    <3>7. batch' = [batch EXCEPT ![t] = b2] /\ pc' = [pc EXCEPT ![t] = "batch"]
      BY <3>1
    <3> HIDE DEF b2
    <3>. QED  BY <3>2, <3>3, <3>4, <3>5, <3>6, <3>7, OthersKept
  <2>. QED  BY <2>3, <2>4
<1>8. ASSUME NEW t \in Workers, Queue(t) PROVE RingInv'
  <2> DEFINE b == batch[t]
             r == QueuedRing(ring[t], Last(b.free), b.rl[b.next + 1].entry)
             b2 == QueuedBatch(b)
  <2>1. /\ Ready(t) /\ b \in BatchType /\ MayQueue(b) /\ r \in RingType /\ UNCHANGED vars
        /\ pc[t] = "batch" /\ UNCHANGED kernel
    BY <1>1, <1>8, QueueIs DEF Queue
  <2>2. b.comp = <<>> /\ SlotsKept(ring[t], b) /\ ring[t] \in RingType
    BY <1>1, <2>1 DEF WorkerRing, Ready
  <2>3. pc' = [pc EXCEPT ![t] = "batch"] /\ "batch" \in UPc /\ "batch" \in Batching
    BY <1>1, <2>1 DEF vars, worker, UPc, Batching
  <2>4. /\ b2 = [rl |-> b.rl, next |-> b.next + 1, done |-> b.done,
                              to_submit |-> b.to_submit + 1, comp |-> b.comp,
                              slot_entry |-> [b.slot_entry EXCEPT ![Last(b.free)] = b.next + 1],
                              free |-> Front(b.free)]
        /\ AfterEnter(b2) = [rl |-> b.rl, next |-> b.next + 1, done |-> b.done,
                              to_submit |-> 0, comp |-> b.comp,
                              slot_entry |-> [b.slot_entry EXCEPT ![Last(b.free)] = b.next + 1],
                              free |-> Front(b.free)]
        /\ Last(b.free) \in Slot /\ b.rl[b.next + 1].entry \in Entry
    BY <2>1, QueuedBatchIs, QueueTypes
  <2>5. r = [up |-> TRUE, sqe |-> [ring[t].sqe EXCEPT ![Last(b.free)] = b.rl[b.next + 1].entry],
             sq |-> Append(ring[t].sq, Last(b.free)), inflight |-> ring[t].inflight,
             cq |-> ring[t].cq, buf |-> ring[t].buf]
    BY <2>2, <2>4, QueuedRingIs
  <2> HIDE DEF r, b2
  <2>6. /\ b2.rl = b.rl /\ b2.next = b.next + 1 /\ b2.done = b.done /\ b2.comp = b.comp
        /\ b2.slot_entry = [b.slot_entry EXCEPT ![Last(b.free)] = b.next + 1]
        /\ b2.free = Front(b.free)
    BY ONLY <2>4
  <2>7. LET b3 == AfterEnter(b2) IN
        /\ b3.rl = b.rl /\ b3.next = b.next + 1 /\ b3.done = b.done /\ b3.comp = b.comp
        /\ b3.slot_entry = [b.slot_entry EXCEPT ![Last(b.free)] = b.next + 1]
        /\ b3.free = Front(b.free)
    BY ONLY <2>4
  <2>8. /\ r.sqe = [ring[t].sqe EXCEPT ![Last(b.free)] = b.rl[b.next + 1].entry]
        /\ r.sq = Append(ring[t].sq, Last(b.free)) /\ r.inflight = ring[t].inflight
        /\ r.cq = ring[t].cq /\ r.buf = ring[t].buf
    BY ONLY <2>5
  <2>9. SlotsKept(r, b2) /\ SlotsKept(r, AfterEnter(b2))
    <3>1. SlotsKept(r, b2)
      BY <2>1, <2>2, <2>6, <2>8, QueueKept
    <3>2. SlotsKept(r, AfterEnter(b2))
      BY <2>1, <2>2, <2>7, <2>8, QueueKept
    <3>. QED  BY <3>1, <3>2
  <2>10. CASE /\ ring' = [ring EXCEPT ![t] = r]
              /\ batch' = [batch EXCEPT ![t] = b2] /\ b2 \in BatchType
    BY <2>1, <2>2, <2>3, <2>6, <2>9, <2>10, OthersKept
  <2>11. ASSUME NEW n \in 0 .. Len(r.sq),
                ring' = [ring EXCEPT ![t] = SubmittedRing(r, n)],
                batch' = [batch EXCEPT ![t] = AfterEnter(b2)],
                SubmittedRing(r, n) \in RingType, AfterEnter(b2) \in BatchType
         PROVE  RingInv'
    <3> DEFINE r3 == SubmittedRing(r, n)
               b3 == AfterEnter(b2)
    <3>1. r3 = [up |-> TRUE, sqe |-> r.sqe, sq |-> SubSeq(r.sq, n + 1, Len(r.sq)),
                inflight |-> r.inflight \cup {<<r.sq[j], r.sqe[r.sq[j]]>> : j \in 1 .. n},
                cq |-> r.cq, buf |-> r.buf]
      BY <2>1, <2>11, SubmittedRingIs
    <3>2. ring' = [ring EXCEPT ![t] = r3] /\ batch' = [batch EXCEPT ![t] = b3]
          /\ r3 \in RingType /\ b3 \in BatchType /\ SlotsKept(r, b3) /\ b3.comp = <<>>
      BY <2>2, <2>7, <2>9, <2>11
    <3> HIDE DEF r3, b3
    <3>3. /\ r3.sqe = r.sqe /\ r3.sq = SubSeq(r.sq, n + 1, Len(r.sq))
          /\ r3.inflight = r.inflight \cup {<<r.sq[j], r.sqe[r.sq[j]]>> : j \in 1 .. n}
          /\ r3.cq = r.cq /\ r3.buf = r.buf
      BY ONLY <3>1
    <3>4. SlotsKept(r3, b3)
      BY <2>1, <3>2, <3>3, SubmitKept
    <3>. QED  BY <2>1, <2>3, <3>2, <3>4, OthersKept
  <2>12. \/ /\ ring' = [ring EXCEPT ![t] = r]
            /\ batch' = [batch EXCEPT ![t] = b2] /\ b2 \in BatchType
         \/ \E n \in 0 .. Len(r.sq) :
              /\ ring' = [ring EXCEPT ![t] = SubmittedRing(r, n)]
              /\ batch' = [batch EXCEPT ![t] = AfterEnter(b2)]
              /\ SubmittedRing(r, n) \in RingType /\ AfterEnter(b2) \in BatchType
    BY <1>1, <1>8, QueueIs DEF r, b2
  <2>. QED  BY <2>10, <2>11, <2>12
<1>9. ASSUME NEW t \in Workers, Enter(t) PROVE RingInv'
  <2> DEFINE b == batch[t]
             b3 == AfterEnter(b)
             r == ring[t]
  <2>1. /\ Ready(t) /\ b \in BatchType /\ b3 \in BatchType
        /\ batch' = [batch EXCEPT ![t] = b3] /\ UNCHANGED kernel /\ pc[t] = "batch"
    BY <1>1, <1>9, EnterIs DEF Enter
  <2>2. PICK n \in 0 .. Len(r.sq) :
          /\ ring' = [ring EXCEPT ![t] = SubmittedRing(r, n)]
          /\ SubmittedRing(r, n) \in RingType
    BY <1>1, <1>9, EnterIs
  <2>3. PICK c \in {"reap", "wait"} : pc' = [pc EXCEPT ![t] = c]
    BY <1>1, <1>9, EnterIs
  <2>4. c \in UPc /\ c \in Batching
    BY DEF UPc, Batching
  <2>5. b.comp = <<>> /\ SlotsKept(r, b) /\ r \in RingType
    BY <1>1, <2>1 DEF WorkerRing, Ready
  <2>6. b3 = [rl |-> b.rl, next |-> b.next, done |-> b.done, to_submit |-> 0,
              comp |-> b.comp, slot_entry |-> b.slot_entry, free |-> b.free]
    BY <2>1, AfterEnterIs
  <2> DEFINE r3 == SubmittedRing(r, n)
  <2>7. r3 = [up |-> TRUE, sqe |-> r.sqe, sq |-> SubSeq(r.sq, n + 1, Len(r.sq)),
              inflight |-> r.inflight \cup {<<r.sq[j], r.sqe[r.sq[j]]>> : j \in 1 .. n},
              cq |-> r.cq, buf |-> r.buf]
    BY <2>5, SubmittedRingIs
  <2>8. ring' = [ring EXCEPT ![t] = r3] /\ r3 \in RingType
    BY <2>2
  <2> HIDE DEF r3, b3
  <2>9. /\ r3.sqe = r.sqe /\ r3.sq = SubSeq(r.sq, n + 1, Len(r.sq))
        /\ r3.inflight = r.inflight \cup {<<r.sq[j], r.sqe[r.sq[j]]>> : j \in 1 .. n}
        /\ r3.cq = r.cq /\ r3.buf = r.buf
    BY ONLY <2>7
  <2>10. /\ b3.rl = b.rl /\ b3.next = b.next /\ b3.done = b.done /\ b3.comp = b.comp
         /\ b3.slot_entry = b.slot_entry /\ b3.free = b.free
    BY ONLY <2>6
  <2>11. SlotsKept(r3, b3)
    BY <2>1, <2>5, <2>9, <2>10, SubmitKept
  <2>. QED  BY <2>1, <2>3, <2>4, <2>5, <2>8, <2>10, <2>11, OthersKept
<1>10. ASSUME NEW t \in Workers, Complete(t) PROVE RingInv'
  <2> DEFINE b == batch[t]
             r == ring[t]
  <2>1. /\ Ready(t) /\ UNCHANGED <<vars, kernel, batch>>
    BY <1>1, <1>10, CompleteIs
  <2>2. PICK op \in r.inflight, ok \in BOOLEAN :
          /\ op \in Slot \X Entry
          /\ ok \/ op[2] \in Flaky
          /\ ring' = [ring EXCEPT ![t] = Answered(r, op, ok)]
          /\ Answered(r, op, ok) \in RingType
    BY <1>1, <1>10, CompleteIs
  <2>3. SlotsKept(r, b) /\ r \in RingType /\ b \in BatchType /\ WorkerRing(t)
    BY <1>1, <2>1 DEF Ready, RingTypeOK
  <2> DEFINE r3 == Answered(r, op, ok)
  <2>4. r3 = [up |-> TRUE, sqe |-> r.sqe, sq |-> r.sq, inflight |-> r.inflight \ {op},
              cq |-> Append(r.cq, [slot |-> op[1], ok |-> ok]),
              buf |-> [r.buf EXCEPT ![op[1]] = IF ok THEN op[2] ELSE @]]
    BY <2>2, <2>3, AnsweredIs
  <2>5. ring' = [ring EXCEPT ![t] = r3] /\ r3 \in RingType
    BY <2>2
  <2> HIDE DEF r3
  <2>6. /\ r3.sqe = r.sqe /\ r3.sq = r.sq /\ r3.inflight = r.inflight \ {op}
        /\ r3.cq = Append(r.cq, [slot |-> op[1], ok |-> ok])
        /\ r3.buf = [r.buf EXCEPT ![op[1]] = IF ok THEN op[2] ELSE @]
    BY ONLY <2>4
  <2>7. SlotsKept(r3, b)
    BY <2>2, <2>3, <2>6, AnswerKept
  <2>8. pc' = [pc EXCEPT ![t] = pc[t]] /\ batch' = [batch EXCEPT ![t] = b] /\ pc[t] \in UPc
    BY <1>1, <2>1 DEF vars, worker, RingTypeOK
  <2>9. /\ pc[t] \notin Batching => b.rl = <<>> /\ b.next = 0 /\ b.done = 0
        /\ pc[t] # "comp" => b.comp = <<>>
    BY <2>3 DEF WorkerRing
  <2>. QED  BY <2>1, <2>3, <2>5, <2>7, <2>8, <2>9, OthersKept
<1>11. ASSUME NEW t \in Workers, Reap(t) PROVE RingInv'
  <2> DEFINE b == batch[t]
             r == ring[t]
             b3 == [rl |-> b.rl, next |-> b.next, done |-> b.done, to_submit |-> b.to_submit,
                    comp |-> r.cq, slot_entry |-> b.slot_entry, free |-> b.free]
             r3 == [up |-> TRUE, sqe |-> r.sqe, sq |-> r.sq, inflight |-> r.inflight,
                    cq |-> <<>>, buf |-> r.buf]
  <2>1. /\ Ready(t) /\ b \in BatchType /\ pc[t] \in {"wait", "reap"}
        /\ ring' = [ring EXCEPT ![t] = r3] /\ r3 \in RingType
        /\ batch' = [batch EXCEPT ![t] = b3] /\ b3 \in BatchType
        /\ pc' = [pc EXCEPT ![t] = "comp"] /\ UNCHANGED kernel
    BY <1>1, <1>11, ReapIs
  <2>2. b.comp = <<>> /\ SlotsKept(r, b) /\ r \in RingType
    BY <1>1, <2>1 DEF WorkerRing, Ready
  <2>3. "comp" \in UPc /\ "comp" \in Batching
    BY DEF UPc, Batching
  <2>4. SlotsKept(r3, b3)
    BY <2>1, <2>2, ReapKept
  <2> HIDE DEF b3, r3
  <2>. QED  BY <2>1, <2>3, <2>4, OthersKept
<1>12. ASSUME NEW t \in Workers, Handle(t) PROVE RingInv'
  <2> DEFINE b == batch[t]
             r == ring[t]
             b3 == BatchAfter(b, r)
  <2>1. /\ Ready(t) /\ b \in BatchType /\ pc[t] = "comp" /\ b.comp # <<>>
        /\ batch' = [batch EXCEPT ![t] = b3] /\ b3 \in BatchType
        /\ UNCHANGED <<pc, kernel, ring>>
    BY <1>1, <1>12, HandleIs
  <2>2. SlotsKept(r, b) /\ r \in RingType
    BY <1>1, <2>1 DEF Ready
  <2>3. SlotsKept(r, b3)
    BY <2>1, <2>2, HandleKept
  <2>4. "comp" \in UPc /\ "comp" \in Batching
    BY DEF UPc, Batching
  <2>5. pc' = [pc EXCEPT ![t] = "comp"] /\ ring' = [ring EXCEPT ![t] = r]
    BY <1>1, <2>1 DEF RingTypeOK
  <2> HIDE DEF b3
  <2>. QED  BY <2>1, <2>2, <2>3, <2>4, <2>5, OthersKept
<1>13. ASSUME NEW t \in Workers, CloseDir(t) PROVE RingInv'
  <2> DEFINE b == batch[t]
             r == ring[t]
             b3 == ClosedBatch(b)
  <2>1. /\ Ready(t) /\ b \in BatchType /\ AllDone(b)
        /\ batch' = [batch EXCEPT ![t] = b3] /\ b3 \in BatchType
        /\ pc' = [pc EXCEPT ![t] = "entry"] /\ UNCHANGED <<kernel, ring>>
    BY <1>1, <1>13, CloseDirIs
  <2>2. SlotsKept(r, b) /\ r \in RingType
    BY <1>1, <2>1 DEF Ready
  <2>3. SlotsKept(r, b3)
    BY <2>1, <2>2, CloseKept
  <2>4. b3.rl = <<>> /\ b3.next = 0 /\ b3.done = 0 /\ b3.comp = <<>>
    BY DEF ClosedBatch
  <2>5. "entry" \in UPc
    BY DEF UPc, Pc
  <2>6. ring' = [ring EXCEPT ![t] = r]
    BY <1>1, <2>1 DEF RingTypeOK
  <2> HIDE DEF b3
  <2>. QED  BY <2>1, <2>2, <2>3, <2>4, <2>5, <2>6, OthersKept
<1>14. CASE UNCHANGED <<pc, uring>>
  <2>1. RingTypeOK'
    BY <1>1, <1>14 DEF RingTypeOK, uring
  <2>2. \A t \in Workers : WorkerRing(t)'
    BY <1>1, <1>14 DEF WorkerRing, RingFirst, Ready, uring
  <2>. QED  BY <2>1, <2>2 DEF RingInv
<1>15. CASE Assemble /\ UNCHANGED uring
  BY <1>14, <1>15 DEF Assemble, worker
<1>16. CASE UNCHANGED uvars
  BY <1>14, <1>16 DEF uvars, vars, worker
<1>. QED
  BY <1>3, <1>4, <1>5, <1>6, <1>7, <1>8, <1>9, <1>10, <1>11, <1>12, <1>13, <1>15, <1>16,
     <1>17 DEF UNext, UWorkerStep, Stopped

-----------------------------------------------------------------------------
(* The two steps that are not ParallelWalk's, as the records see them.     *)

\* A worker that has found room opens a directory the depth limit allows.  It
\* is the ceiling that may be passed by then.
OpenDeep == \A t \in Workers : pc[t] = "open" => item[t].depth < cfg.max_depth

UInv == RingInv /\ UType /\ OpenDeep

\* The records of an opened directory.
OpenedRec(t, j) ==
  [id |-> counter + j - 1, parent |-> item[t].id, entry |-> Listing[item[t].dir][j],
   own |-> 0, is_dir |-> FALSE]

Opens(t, k) ==
  /\ StdPc[t] = "guard" /\ nodes = <<>> /\ k \in 0 .. Len(Listing[item[t].dir])
  /\ counter' = counter + k
  /\ StdPc' = [StdPc EXCEPT ![t] = "entry"]
  /\ StdLocal' = [StdLocal EXCEPT ![t] = @ \cup {OpenedRec(t, j) : j \in 1 .. k}]
  /\ Len(batch'[t].rl) = k
  /\ \A j \in 1 .. k : OpenedRec(t, j) \in Rec /\ batch'[t].rl[j] = OpenedRec(t, j)
  /\ item[t].depth < cfg.max_depth
  /\ k # 0 => MayOpen(item[t].dir)
  /\ MayOpen(item[t].dir) /\ item[t].dir \notin Flaky => k = Len(Listing[item[t].dir])
  /\ UNCHANGED <<cfg, root_dev, active, seen, deque, recs, nodes, off, item, todo, id,
                 childdirs, local>>

LEMMA OpenAtOpens ==
  ASSUME UInv, NEW t \in Workers, OpenAt(t)
  PROVE  \E k \in Nat : Opens(t, k)
<1> DEFINE d == item[t].dir
<1>1. /\ RingTypeOK /\ item \in [Workers -> Item] /\ counter \in Nat \ {0} /\ RingFirst(t)
      /\ local \in [Workers -> SUBSET Rec] /\ WorkerRing(t)
  BY SameMeaning DEF UInv, UType, RingInv, WorkerRing, Std!TypeInv, Std!TypeOK
<1>2. /\ pc[t] = "open" /\ item[t].depth < cfg.max_depth /\ d \in Entry
      /\ UNCHANGED <<cfg, root_dev, active, seen, deque, recs, nodes,
                     off, item, todo, id, childdirs, local>>
  BY <1>1, OpenAtIs DEF UInv, OpenDeep
<1>3. pc \in [Workers -> UPc]
  BY <1>1 DEF RingTypeOK, UPc
<1>4. StdPc[t] = "guard" /\ batch[t].rl = <<>>
  BY <1>1, <1>2 DEF StdPc, Batching, WorkerRing
<1>5. nodes = <<>>
  BY <1>4, SameMeaning DEF UInv, UType, Std!TypeInv, Std!Ended
<1>6. Len(Listing[d]) \in Nat /\ Listing[d] \in Seq(Entry)
  BY <1>2, FileTreeAssumption, LenProperties
<1>7. ToSet(<<>>) = {}
  BY DEF ToSet
<1>8. CASE /\ ~MayOpen(d) \/ d \in Flaky
           /\ pc' = [pc EXCEPT ![t] = "entry"]
           /\ UNCHANGED <<counter, batch>>
  <2>1. StdPc' = [StdPc EXCEPT ![t] = "entry"]
    BY <1>3, <1>8 DEF StdPc, Batching
  <2>2. StdLocal' = [StdLocal EXCEPT ![t] = @ \cup {OpenedRec(t, j) : j \in 1 .. 0}]
    <3>1. StdLocal' = StdLocal
      BY <1>2, <1>8 DEF StdLocal
    <3>2. {OpenedRec(t, j) : j \in 1 .. 0} = {}
      OBVIOUS
    <3>. QED  BY <3>1, <3>2 DEF StdLocal
  <2>3. /\ counter' = counter + 0 /\ 0 \in 0 .. Len(Listing[d])
        /\ \A j \in 1 .. 0 : OpenedRec(t, j) \in Rec /\ batch'[t].rl[j] = OpenedRec(t, j)
        /\ Len(batch'[t].rl) = 0
    BY <1>1, <1>4, <1>6, <1>8
  <2>4. Opens(t, 0)
    BY <1>2, <1>4, <1>5, <1>8, <2>1, <2>2, <2>3 DEF Opens
  <2>. QED  BY <2>4
<1>9. CASE ~(/\ ~MayOpen(d) \/ d \in Flaky
             /\ pc' = [pc EXCEPT ![t] = "entry"]
             /\ UNCHANGED <<counter, batch>>)
  <2>1. PICK k \in 0 .. Len(Listing[d]) :
          /\ MayOpen(d)
          /\ d \notin Flaky => k = Len(Listing[d])
          /\ counter' = counter + k
          /\ pc' = [pc EXCEPT ![t] = "batch"]
          /\ batch' = [batch EXCEPT ![t] = OpenedBatch(batch[t], OpenedRl(t, k))]
          /\ OpenedRl(t, k) \in Seq(Rec) /\ Len(OpenedRl(t, k)) = k
    BY <1>1, <1>9, OpenAtIs
  <2>2. StdPc' = [StdPc EXCEPT ![t] = "entry"]
    BY <1>3, <2>1 DEF StdPc, Batching
  <2>3. \A j \in 1 .. k : OpenedRl(t, k)[j] = OpenedRec(t, j)
    BY DEF OpenedRl, OpenedRec
  <2>4. ToSet(OpenedRl(t, k)) = {OpenedRec(t, j) : j \in 1 .. k}
    <3>1. ToSet(OpenedRl(t, k)) = {OpenedRl(t, k)[j] : j \in 1 .. k}
      BY <2>1, ToSetOfSeq
    <3>. QED  BY <2>3, <3>1
  <2>5. \A j \in 1 .. k : OpenedRec(t, j) \in Rec
    BY <2>1, <2>3, ElementOfSeq
  <2>9. batch'[t].rl = OpenedRl(t, k)
    BY <1>1, <2>1 DEF RingTypeOK, OpenedBatch
  <2>6. StdLocal' = [StdLocal EXCEPT ![t] = @ \cup {OpenedRec(t, j) : j \in 1 .. k}]
    <3>1. batch'[t].rl = OpenedRl(t, k) /\ \A u \in Workers \ {t} : batch'[u] = batch[u]
      BY <1>1, <2>1 DEF RingTypeOK, OpenedBatch
    <3>2. StdLocal[t] = local[t]
      BY <1>4, <1>7 DEF StdLocal
    <3>3. StdLocal'[t] = StdLocal[t] \cup {OpenedRec(t, j) : j \in 1 .. k}
      BY <1>2, <2>4, <3>1, <3>2 DEF StdLocal
    <3>4. \A u \in Workers \ {t} : StdLocal'[u] = StdLocal[u]
      BY <1>2, <3>1 DEF StdLocal
    <3>5. DOMAIN StdLocal = Workers /\ StdLocal' = [u \in Workers |-> StdLocal'[u]]
      BY DEF StdLocal
    <3>. HIDE DEF OpenedRec
    <3>. QED  BY <3>3, <3>4, <3>5
  <2>7. k \in Nat
    BY <1>6
  <2>8. Opens(t, k)
    BY <1>2, <1>4, <1>5, <2>1, <2>2, <2>3, <2>5, <2>6, <2>9 DEF Opens
  <2>. QED  BY <2>7, <2>8
<1>. QED  BY <1>8, <1>9

\* The record of a completion's entry, filled in.
Fills(t, i, s) ==
  LET rl == batch[t].rl
      e == rl[i].entry
      new == batch'[t].rl[i]
  IN /\ pc[t] = "comp" /\ StdPc[t] = "entry" /\ nodes = <<>>
     /\ i \in 1 .. Len(rl) /\ rl[i] \in Rec /\ Blank(rl[i]) /\ e \in Entry
     /\ Len(batch'[t].rl) = Len(rl) /\ batch'[t].rl \in Seq(Rec)
     /\ \A j \in 1 .. Len(rl) : j # i => batch'[t].rl[j] = rl[j]
     /\ \A u \in Workers \ {t} : batch'[u] = batch[u]
     /\ new \in Rec /\ Truthful(new)
     /\ new.id = rl[i].id /\ new.parent = rl[i].parent /\ new.entry = e
     /\ s \in Slot \ Free(batch[t]) /\ batch[t].slot_entry[s] = i
     /\ Free(batch'[t]) = Free(batch[t]) \cup {s}
     /\ batch'[t].slot_entry = batch[t].slot_entry /\ batch'[t].next = batch[t].next
     /\ \/ /\ e \in Flaky /\ new = rl[i]
           /\ UNCHANGED <<seen, childdirs>>
        \/ /\ new = FilledIn(rl[i], e)
           /\ seen' = IF MultiLinked(e)
                      THEN seen \cup {<<StatxDev(Meta[e].dev), Meta[e].ino>>} ELSE seen
           /\ childdirs' = IF Descends(t, Meta[e])
                           THEN [childdirs EXCEPT ![t] = Append(@, ChildAt(t, i))]
                           ELSE childdirs
     /\ UNCHANGED <<cfg, root_dev, counter, active, deque, recs, nodes,
                    pc, off, item, todo, id, local, StdPc>>

LEMMA HandleFills ==
  ASSUME UInv, NEW t \in Workers, Handle(t)
  PROVE  \E i, s \in Nat : Fills(t, i, s)
<1> DEFINE b == batch[t]
           r == ring[t]
           c == Head(b.comp)
           i == b.slot_entry[c.slot]
           rl2 == RlAfter(b, r)
<1>1. /\ RingTypeOK /\ item \in [Workers -> Item] /\ RingFirst(t)
      /\ local \in [Workers -> SUBSET Rec] /\ WorkerRing(t)
  BY SameMeaning DEF UInv, UType, RingInv, WorkerRing, Std!TypeInv, Std!TypeOK
<1>2. /\ Ready(t) /\ b \in BatchType /\ pc[t] = "comp" /\ b.comp # <<>>
      /\ batch' = [batch EXCEPT ![t] = BatchAfter(b, r)]
      /\ UNCHANGED <<cfg, root_dev, counter, active, deque, recs, nodes,
                     pc, off, item, todo, id, local, kernel, ring>>
  BY <1>1, HandleIs
<1>3. r \in RingType /\ SlotsKept(r, b)
  BY <1>1, <1>2 DEF Ready, WorkerRing
<1>4. /\ c \in Call /\ c.slot \in Slot \ Free(b)
      /\ i \in 1 .. Len(b.rl) /\ b.rl[i] \in Rec /\ Blank(b.rl[i])
      /\ IF c.ok THEN r.buf[c.slot] = b.rl[i].entry ELSE b.rl[i].entry \in Flaky
  BY <1>2, <1>3, AnsweredEntry
<1>5. /\ rl2 \in Seq(Rec) /\ Len(rl2) = Len(b.rl)
      /\ \A j \in 1 .. Len(b.rl) : j # i => rl2[j] = b.rl[j]
      /\ rl2[i].id = b.rl[i].id /\ rl2[i].parent = b.rl[i].parent /\ rl2[i].entry = b.rl[i].entry
      /\ Truthful(rl2[i])
      /\ rl2[i] = IF c.ok THEN FilledIn(b.rl[i], b.rl[i].entry) ELSE b.rl[i]
  BY <1>2, <1>3, <1>4, RlAfterIs, Zenon
<1>6. rl2[i] \in Rec
  BY <1>4, <1>5, ElementOfSeq, Zenon
<1>7. /\ batch'[t] = BatchAfter(b, r) /\ batch'[t].rl = rl2
      /\ batch'[t].slot_entry = b.slot_entry /\ batch'[t].next = b.next
      /\ batch'[t].free = Append(b.free, c.slot)
      /\ \A u \in Workers \ {t} : batch'[u] = batch[u]
  <2>1. batch'[t] = BatchAfter(b, r) /\ \A u \in Workers \ {t} : batch'[u] = batch[u]
    BY <1>1, <1>2 DEF RingTypeOK
  <2>. QED  BY <2>1 DEF BatchAfter
<1>8. Free(batch'[t]) = Free(b) \cup {c.slot}
  <2>1. b.free \in Seq(Slot) /\ c.slot \in Slot
    BY <1>2, <1>4, Zenon DEF BatchType, Call
  <2>. QED  BY <1>7, <2>1, AppendApart DEF Free
<1>9. StdPc[t] = "entry" /\ StdPc' = StdPc
  BY <1>2 DEF StdPc, Batching
<1>10. nodes = <<>>
  BY <1>9, SameMeaning DEF UInv, UType, Std!TypeInv, Std!Ended
<1>11. i \in Nat /\ c.slot \in Nat /\ b.rl[i].entry \in Entry
  <2>1. b.slot_entry \in [Slot -> Nat]
    BY <1>2 DEF BatchType
  <2>2. c.slot \in Slot /\ \A n \in Slot : n \in Nat
    <3>1. c.slot \in Slot
      BY <1>4, Zenon
    <3>2. \A n \in Slot : n \in Nat
      BY UringAssumption DEF Slot
    <3>. QED  BY <3>1, <3>2
  <2>3. \A x \in Rec : x.entry \in Entry
    BY DEF Rec
  <2>. QED  BY <1>4, <2>1, <2>2, <2>3, Zenon
<1>12. \/ /\ b.rl[i].entry \in Flaky /\ rl2[i] = b.rl[i]
          /\ UNCHANGED <<seen, childdirs>>
       \/ /\ rl2[i] = FilledIn(b.rl[i], b.rl[i].entry)
          /\ seen' = IF MultiLinked(b.rl[i].entry)
                     THEN seen \cup {<<StatxDev(Meta[b.rl[i].entry].dev), Meta[b.rl[i].entry].ino>>}
                     ELSE seen
          /\ childdirs' = IF Descends(t, Meta[b.rl[i].entry])
                          THEN [childdirs EXCEPT ![t] = Append(@, ChildAt(t, i))]
                          ELSE childdirs
  <2>1. i = ResultOf(t)
    BY DEF ResultOf
  <2> HIDE DEF i, rl2
  <2>2. CASE c.ok
    <3>1. r.buf[c.slot] = b.rl[i].entry /\ rl2[i] = FilledIn(b.rl[i], b.rl[i].entry)
      BY <1>4, <1>5, <2>2
    <3>. QED  BY <2>1, <2>2, <3>1, Zenon DEF Handle
  <2>3. CASE ~c.ok
    <3>1. b.rl[i].entry \in Flaky /\ rl2[i] = b.rl[i]
      BY <1>4, <1>5, <2>3
    <3>. QED  BY <2>3, <3>1 DEF Handle
  <2>. QED  BY <2>2, <2>3
<1> HIDE DEF i, rl2
<1>13. i = b.slot_entry[c.slot]
  BY DEF i
<1> DEFINE s == c.slot
<1> HIDE DEF s
<1>14. Fills(t, i, s)
  BY <1>2, <1>4, <1>5, <1>6, <1>7, <1>8, <1>9, <1>10, <1>11, <1>12, <1>13, Zenon DEF Fills, s
<1>. QED  BY <1>11, <1>14 DEF s

LEMMA StatxDevIsNat ==
  ASSUME NEW dev \in Nat
  PROVE  StatxDev(dev) \in Nat
<1>1. StMinors \in Nat \ {0} /\ StatxMinors \in Nat
  BY UringAssumption
<1>2. PICK q \in Nat : q = dev \div StMinors
  BY <1>1
<1>3. PICK m \in Nat : m = dev % StMinors
  BY <1>1
<1>4. q * StatxMinors + m \in Nat
  BY <1>1
<1>. QED  BY <1>2, <1>3, <1>4 DEF StatxDev

\* No worker of the view is between an entry's id and its record.
LEMMA NobodyStats ==
  ASSUME pc \in [Workers -> UPc]
  PROVE  Std!Stating = {} /\ \A t \in Workers : StdPc[t] # "stat" /\ StdPc[t] \in Pc
BY DEF UPc, StdPc, Batching, Pc, Std!Stating, Std!Workers, Workers

\* What the types say, in this module's terms.
StdShapes ==
  /\ cfg \in CfgType /\ root_dev \in Nat /\ counter \in Nat \ {0}
  /\ active \in 0 .. UsizeMod - 1 /\ seen \subseteq Nat \X Nat
  /\ deque \in [Workers -> Seq(Item)] /\ recs \in [Workers -> SUBSET Rec]
  /\ nodes = <<>> \/ nodes \in [0 .. counter - 1 -> Node]
  /\ StdPc \in [Workers -> Pc]
  /\ off \in [Workers -> 1 .. NThreads] /\ item \in [Workers -> Item]
  /\ todo \in [Workers -> Seq(Entry)] /\ id \in [Workers -> Nat]
  /\ childdirs \in [Workers -> Seq(Item)] /\ StdLocal \in [Workers -> SUBSET Rec]
  /\ nodes # <<>> => \A t \in Workers : StdPc[t] = "exit"
  /\ \A t \in Workers : StdPc[t] = "stat" => todo[t] # <<>>

LEMMA StdTypes == Std!TypeInv <=> StdShapes
<1>1. Std!Pc = Pc
  BY DEF Std!Pc, Pc
<1>. QED
  BY <1>1, SameMeaning, Zenon DEF Std!TypeInv, Std!TypeOK, Std!Ended, Std!HoldsEntry,
     Std!Stating, StdShapes

LEMMA OpensTypes ==
  ASSUME UInv, NEW t \in Workers, NEW k \in Nat, Opens(t, k)
  PROVE  Std!TypeInv'
<1>1. Std!TypeInv
  BY DEF UInv, UType
<1>2. counter' \in Nat \ {0} /\ counter' = counter + k
  BY <1>1, StdTypes DEF Opens, StdShapes
<1>3. StdPc' \in [Workers -> Pc] /\ \A u \in Workers : StdPc'[u] = "stat" => StdPc[u] = "stat"
  BY <1>1, StdTypes DEF Opens, Pc, StdShapes
<1>4. StdLocal' \in [Workers -> SUBSET Rec]
  BY <1>1, StdTypes DEF Opens, StdShapes
<1>5. StdShapes
  BY <1>1, StdTypes
<1>6. StdShapes'
  BY <1>2, <1>3, <1>4, <1>5 DEF Opens, StdShapes
<1>. QED  BY <1>6, StdTypes, PTL

LEMMA FillsItem ==
  ASSUME UInv, NEW t \in Workers, NEW i, NEW s, Fills(t, i, s)
  PROVE  /\ ChildAt(t, i) \in Item
         /\ ChildAt(t, i) = [dir |-> batch[t].rl[i].entry, id |-> batch[t].rl[i].id,
                             depth |-> item[t].depth + 1]
         /\ batch[t].rl[i].entry \in Entry /\ item[t] \in Item
<1>1. batch[t].rl[i] \in Rec /\ batch[t].rl[i].entry \in Entry
  BY DEF Fills
<1>2. item[t] \in Item
  BY StdTypes DEF UInv, UType, StdShapes
<1>. QED  BY <1>1, <1>2 DEF ChildAt, Item, Rec

LEMMA FillsTypes ==
  ASSUME UInv, NEW t \in Workers, NEW i, NEW s, Fills(t, i, s)
  PROVE  Std!TypeInv'
<1> DEFINE e == batch[t].rl[i].entry
<1>1. Std!TypeInv /\ local \in [Workers -> SUBSET Rec] /\ RingTypeOK
  BY DEF UInv, UType, RingInv
<1>2. e \in Entry /\ ChildAt(t, i) \in Item
  BY FillsItem
<1>3. Meta[e] \in MetaType
  BY <1>2, FileTreeAssumption
<1>4. seen' \subseteq Nat \X Nat
  <2>1. StatxDev(Meta[e].dev) \in Nat /\ Meta[e].ino \in Nat
    BY <1>3, StatxDevIsNat DEF MetaType
  <2>2. seen \subseteq Nat \X Nat
    BY <1>1, StdTypes DEF StdShapes
  <2>. QED  BY <2>1, <2>2 DEF Fills
<1>5. childdirs' \in [Workers -> Seq(Item)]
  <2>1. childdirs \in [Workers -> Seq(Item)]
    BY <1>1, StdTypes DEF StdShapes
  <2>2. Append(childdirs[t], ChildAt(t, i)) \in Seq(Item)
    BY <1>2, <2>1, AppendProperties
  <2>3. childdirs' = childdirs \/ childdirs' = [childdirs EXCEPT ![t] = Append(@, ChildAt(t, i))]
    BY DEF Fills
  <2>. QED  BY <2>1, <2>2, <2>3
<1>6. StdLocal' \in [Workers -> SUBSET Rec]
  <2>1. \A u \in Workers : batch'[u].rl \in Seq(Rec)
    <3>1. \A u \in Workers : batch[u].rl \in Seq(Rec)
      BY <1>1 DEF RingTypeOK, BatchType
    <3>. QED  BY <3>1 DEF Fills
  <2>2. \A u \in Workers : ToSet(batch'[u].rl) \subseteq Rec
    BY <2>1, ToSetOfSeq
  <2>3. local' = local
    BY DEF Fills
  <2>. QED  BY <1>1, <2>2, <2>3 DEF StdLocal
<1>7. StdShapes
  BY <1>1, StdTypes
<1>8. StdShapes'
  BY <1>4, <1>5, <1>6, <1>7 DEF Fills, StdShapes
<1>. QED  BY <1>8, StdTypes, PTL

\* The backend keeps no listing to work off: its calls are in its batch.
LEMMA NoTodoStep ==
  ASSUME UInv, [UNext]_uvars
  PROVE  NoTodo'
<1>1. NoTodo /\ Std!TypeInv /\ RingInv
  BY DEF UInv, UType
<1>2. todo \in [Workers -> Seq(Entry)] /\ id \in [Workers -> Nat]
  BY <1>1, StdTypes DEF StdShapes
<1>3. UNCHANGED <<todo, id>>
  <2>1. ASSUME NEW t \in Workers, GetDirectory(t) PROVE UNCHANGED <<todo, id>>
    BY <2>1 DEF GetDirectory, PopOwn, Steal, CheckActive
  <2>2. ASSUME NEW t \in Workers, FinishDirectory(t) PROVE UNCHANGED <<todo, id>>
    BY <2>2, Zenon DEF FinishDirectory, PushChildren, PushTo, AddActive, SubActive, Publish
  <2>3. ASSUME NEW t \in Workers, \/ Setup(t) \/ CheckLimits(t) \/ OpenAt(t) \/ Queue(t) \/ Enter(t) \/ Reap(t)
                                  \/ Handle(t) \/ AllHandled(t) \/ CloseDir(t) \/ Complete(t)
        PROVE  UNCHANGED <<todo, id>>
    BY <2>3, Zenon DEF Setup, CheckLimits, OpenAt, Queue, Enter, Reap, Handle, AllHandled, CloseDir,
                Complete, vars, worker
  <2>4. CASE Assemble
    BY <2>4 DEF Assemble, worker
  <2>5. CASE UNCHANGED uvars
    BY <2>5 DEF uvars, vars, worker
  <2>. QED  BY <2>1, <2>2, <2>3, <2>4, <2>5 DEF UNext, UWorkerStep, Stopped
<1>. QED  BY <1>1, <1>3 DEF NoTodo

LEMMA LocalTypeStep ==
  ASSUME UInv, [UNext]_uvars
  PROVE  local' \in [Workers -> SUBSET Rec]
<1>1. local \in [Workers -> SUBSET Rec] /\ RingTypeOK /\ \A t \in Workers : RingFirst(t)
  BY DEF UInv, UType, RingInv, WorkerRing
<1>2. ASSUME NEW t \in Workers, GetDirectory(t) PROVE local' = local
  BY <1>2 DEF GetDirectory, PopOwn, Steal, CheckActive
<1>3. ASSUME NEW t \in Workers, FinishDirectory(t) PROVE local' \in [Workers -> SUBSET Rec]
  BY <1>1, <1>3, Zenon DEF FinishDirectory, PushChildren, PushTo, AddActive, SubActive, Publish
<1>4. ASSUME NEW t \in Workers, \/ Setup(t) \/ CheckLimits(t) \/ OpenAt(t) \/ Queue(t) \/ Enter(t) \/ Reap(t)
                                \/ Handle(t) \/ AllHandled(t) \/ Complete(t)
      PROVE  local' = local
  BY <1>4, Zenon DEF Setup, CheckLimits, OpenAt, Queue, Enter, Reap, Handle, AllHandled, Complete,
     vars, worker
<1>5. ASSUME NEW t \in Workers, CloseDir(t) PROVE local' \in [Workers -> SUBSET Rec]
  <2>1. batch[t].rl \in Seq(Rec)
    BY <1>1 DEF RingTypeOK, BatchType
  <2>2. ToSet(batch[t].rl) \subseteq Rec
    BY <2>1, ToSetOfSeq
  <2>. QED  BY <1>1, <1>5, <2>2 DEF CloseDir
<1>6. CASE Assemble
  BY <1>1, <1>6 DEF Assemble, worker
<1>7. CASE UNCHANGED uvars
  BY <1>1, <1>7 DEF uvars, vars, worker
<1>. QED  BY <1>1, <1>2, <1>3, <1>4, <1>5, <1>6, <1>7 DEF UNext, UWorkerStep, Stopped

LEMMA UInit1 == UInit => UInv /\ Std!Init
<1> SUFFICES ASSUME UInit PROVE UInv /\ Std!Init
  OBVIOUS
<1>1. RingInv
  BY RingInit
<1>2. /\ pc = [t \in Workers |-> "own"] /\ local = [t \in Workers |-> {}]
      /\ todo = [t \in Workers |-> <<>>] /\ id = [t \in Workers |-> 0]
  BY DEF UInit, Init
<1>3. StdPc = [t \in Workers |-> "own"]
  BY <1>2 DEF StdPc, Batching
<1>4. StdLocal = [t \in Workers |-> {}]
  <2>1. \A t \in Workers : batch[t].rl = <<>>
    BY DEF UInit, EmptyBatch
  <2>2. ToSet(<<>>) = {}
    BY DEF ToSet
  <2>. QED  BY <1>2, <2>1, <2>2 DEF StdLocal
<1>5. Std!Init
  BY <1>3, <1>4, SameMeaning DEF UInit, Init, Std!Init
<1>6. Std!TypeInv
  BY <1>5, StdAssumptions, Std!TypeInit
<1>. QED  BY <1>1, <1>2, <1>5, <1>6 DEF UInv, UType, NoTodo, RingInv, OpenDeep

LEMMA OpenDeepStep ==
  ASSUME UInv, [UNext]_uvars
  PROVE  OpenDeep'
<1>1. pc \in [Workers -> UPc] /\ item \in [Workers -> Item] /\ OpenDeep
  BY StdTypes DEF UInv, UType, StdShapes, RingInv, RingTypeOK, UPc
<1>2. ASSUME NEW t \in Workers, GetDirectory(t) PROVE OpenDeep'
  <2>1. cfg' = cfg /\ \A u \in Workers : u # t => item'[u] = item[u]
    BY <1>1, <1>2 DEF GetDirectory, PopOwn, Steal, CheckActive, shared
  <2>2. \/ pc' = pc /\ item' = item
        \/ \E c \in {"own", "steal", "guard", "publish"} : pc' = [pc EXCEPT ![t] = c]
    BY <1>2 DEF GetDirectory, PopOwn, Steal, CheckActive
  <2>. QED  BY <1>1, <2>1, <2>2 DEF OpenDeep
<1>3. ASSUME NEW t \in Workers, FinishDirectory(t) PROVE OpenDeep'
  <2>1. cfg' = cfg /\ \A u \in Workers : u # t => item'[u] = item[u]
    BY <1>1, <1>3 DEF FinishDirectory, PushChildren, PushTo, AddActive, SubActive, Publish, shared
  <2>2. \E c \in {"add", "sub", "own", "exit"} : pc' = [pc EXCEPT ![t] = c]
    BY <1>3 DEF FinishDirectory, PushChildren, PushTo, AddActive, SubActive, Publish
  <2>. QED  BY <1>1, <2>1, <2>2 DEF OpenDeep
<1>4. ASSUME NEW t \in Workers, CheckLimits(t) PROVE OpenDeep'
  <2>1. cfg' = cfg /\ item' = item
    BY <1>4 DEF CheckLimits, shared
  <2>. QED  BY <1>1, <1>4, <2>1 DEF OpenDeep, CheckLimits, MayDescend
<1>5. ASSUME NEW t \in Workers, Setup(t) \/ OpenAt(t) \/ Enter(t) \/ Reap(t) \/ AllHandled(t) \/ CloseDir(t)
      PROVE  OpenDeep'
  <2>1. cfg' = cfg /\ item' = item
    BY <1>5 DEF Setup, OpenAt, Enter, Reap, AllHandled, CloseDir, shared
  <2>2. pc' = pc \/ \E c \in UPc \ {"open"} : pc' = [pc EXCEPT ![t] = c]
    BY <1>5 DEF Setup, OpenAt, Enter, Reap, AllHandled, CloseDir, UPc, Pc
  <2>. QED  BY <1>1, <2>1, <2>2 DEF OpenDeep
<1>6. ASSUME NEW t \in Workers, Queue(t) \/ Complete(t) \/ Handle(t) PROVE UNCHANGED <<cfg, item, pc>>
  BY <1>6, Zenon DEF Queue, Complete, Handle, vars, worker, shared
<1>7. CASE Assemble
  BY <1>7 DEF Assemble, worker, OpenDeep
<1>8. UNCHANGED uvars => UNCHANGED <<cfg, item, pc>>
  BY DEF uvars, vars, worker, shared
<1>9. UNCHANGED <<cfg, item, pc>> => OpenDeep'
  BY <1>1 DEF OpenDeep
<1>. QED  BY <1>2, <1>3, <1>4, <1>5, <1>6, <1>7, <1>8, <1>9 DEF UNext, UWorkerStep, Stopped

LEMMA UInvStep ==
  ASSUME UInv, [UNext]_uvars
  PROVE  UInv'
<1>1. RingInv /\ Std!TypeInv /\ RingTypeOK /\ local \in [Workers -> SUBSET Rec]
      /\ \A t \in Workers : AtRest(t)
  BY DEF UInv, UType, RingInv, WorkerRing, AtRest
<1>2. RingInv'
  BY <1>1, RingStep
<1>3. Std!TypeInv'
  <2>1. CASE [Std!Next]_Std!vars
    BY <1>1, <2>1, StdAssumptions, Std!TypeStep
  <2>2. ASSUME NEW t \in Workers, OpenAt(t) PROVE Std!TypeInv'
    BY <2>2, OpenAtOpens, OpensTypes
  <2>3. ASSUME NEW t \in Workers, Handle(t) PROVE Std!TypeInv'
    BY <2>3, HandleFills, FillsTypes
  <2>. QED  BY <1>1, <2>1, <2>2, <2>3, StepIsStd
<1>. QED  BY <1>2, <1>3, NoTodoStep, LocalTypeStep, OpenDeepStep DEF UInv, UType, RingInv

(***************************************************************************)
(* The rings and the batches keep their types: no slot number runs out of  *)
(* the ring, and less than SubmitAt calls wait to be submitted             *)
(* (internal.rs:364-376).                                                  *)
(***************************************************************************)
THEOREM RingsAreTyped == USpec => []RingTypeOK
<1>1. UInit => UInv
  BY UInit1
<1>2. UInv /\ [UNext]_uvars => UInv'
  BY UInvStep
<1>3. UInv => RingTypeOK
  BY DEF UInv, RingInv
<1>. QED  BY <1>1, <1>2, <1>3, PTL DEF USpec

(***************************************************************************)
(* At most QD calls are ever in the ring (internal.rs:364), each in a slot *)
(* of its own; so when all the entries are done (:405) nothing of them is  *)
(* left with the kernel, which may free the names they point to.           *)
(***************************************************************************)
THEOREM NothingStaysInFlight == USpec => []NothingInFlight
<1>1. UInit => UInv
  BY UInit1
<1>2. UInv /\ [UNext]_uvars => UInv'
  BY UInvStep
<1>3. UInv => NothingInFlight
  <2> SUFFICES ASSUME UInv, NEW t \in Workers, ring[t].up, pc[t] \notin {"batch", "wait", "reap", "comp"}
               PROVE  /\ ring[t].sq = <<>> /\ ring[t].inflight = {} /\ ring[t].cq = <<>>
                      /\ ToSet(batch[t].free) = Slot
    BY DEF NothingInFlight
  <2>1. RingTypeOK /\ WorkerRing(t)
    BY DEF UInv, RingInv
  <2>2. Ready(t) /\ ring[t] \in RingType /\ batch[t] \in BatchType
    BY <2>1, RingUp DEF Ready, RingTypeOK
  <2>3. SlotsKept(ring[t], batch[t]) /\ batch[t].next = 0 /\ batch[t].done = 0
    BY <2>1, <2>2 DEF WorkerRing, Batching
  <2>4. batch[t].next <= batch[t].done
    BY <2>3
  <2>. QED  BY <2>2, <2>3, <2>4, AllFree DEF Free
<1>. QED  BY <1>1, <1>2, <1>3, PTL DEF USpec

-----------------------------------------------------------------------------
(* What is recorded.                                                       *)

\* How the local records change.
LEMMA LocalStep ==
  ASSUME UInv, [UNext]_uvars
  PROVE  \/ UNCHANGED <<local, recs>>
         \/ \E t \in Workers :
              /\ AllDone(batch[t]) /\ Ready(t) /\ batch[t] \in BatchType
              /\ local' = [local EXCEPT ![t] = @ \cup ToSet(batch[t].rl)] /\ recs' = recs
         \/ \E t \in Workers :
              recs' = [recs EXCEPT ![t] = local[t]] /\ local' = [local EXCEPT ![t] = {}]
         \/ recs' = [t \in Workers |-> {}] /\ local' = local
<1>1. RingTypeOK /\ \A t \in Workers : RingFirst(t)
  BY DEF UInv, RingInv, WorkerRing
<1>2. ASSUME NEW t \in Workers, GetDirectory(t) PROVE UNCHANGED <<local, recs>>
  BY <1>2 DEF GetDirectory, PopOwn, Steal, CheckActive, shared
<1>3. ASSUME NEW t \in Workers, FinishDirectory(t), ~Publish(t) PROVE UNCHANGED <<local, recs>>
  BY <1>3 DEF FinishDirectory, PushChildren, PushTo, AddActive, SubActive
<1>4. ASSUME NEW t \in Workers, Publish(t)
      PROVE  recs' = [recs EXCEPT ![t] = local[t]] /\ local' = [local EXCEPT ![t] = {}]
  BY <1>4 DEF Publish
<1>5. ASSUME NEW t \in Workers, \/ Setup(t) \/ CheckLimits(t) \/ OpenAt(t) \/ Queue(t) \/ Enter(t) \/ Reap(t)
                                \/ Handle(t) \/ AllHandled(t) \/ Complete(t)
      PROVE  UNCHANGED <<local, recs>>
  BY <1>5, Zenon DEF Setup, CheckLimits, OpenAt, Queue, Enter, Reap, Handle, AllHandled, Complete,
     vars, worker, shared
<1>6. ASSUME NEW t \in Workers, CloseDir(t)
      PROVE  /\ AllDone(batch[t]) /\ Ready(t) /\ batch[t] \in BatchType
             /\ local' = [local EXCEPT ![t] = @ \cup ToSet(batch[t].rl)] /\ recs' = recs
  <2>1. recs' = recs
    BY <1>6 DEF CloseDir, shared
  <2>. QED  BY <1>1, <1>6, <2>1, CloseDirIs
<1>7. CASE Assemble
  BY <1>7 DEF Assemble, worker
<1>8. CASE UNCHANGED uvars
  BY <1>8 DEF uvars, vars, worker, shared
<1>. QED  BY <1>2, <1>3, <1>4, <1>5, <1>6, <1>7, <1>8 DEF UNext, UWorkerStep, Stopped

AllTruthful == \A t \in Workers : \A r \in Bucket(t) : Truthful(r)

LEMMA TruthfulStep ==
  ASSUME UInv, AllTruthful, [UNext]_uvars
  PROVE  AllTruthful'
<1>1. local \in [Workers -> SUBSET Rec] /\ recs \in [Workers -> SUBSET Rec]
  BY StdTypes DEF UInv, UType, StdShapes
<1>2. CASE UNCHANGED <<local, recs>>
  BY <1>2 DEF AllTruthful, Bucket, Truthful
<1>3. ASSUME NEW t \in Workers, AllDone(batch[t]), Ready(t), batch[t] \in BatchType,
             local' = [local EXCEPT ![t] = @ \cup ToSet(batch[t].rl)], recs' = recs
      PROVE  AllTruthful'
  <2>1. SlotsKept(ring[t], batch[t]) /\ ring[t] \in RingType
    BY <1>3 DEF UInv, RingInv, WorkerRing, Ready
  <2>2. \A x \in ToSet(batch[t].rl) : Truthful(x)
    BY <1>3, <2>1, CloseKept
  <2>3. \A u \in Workers : Bucket(u)' \subseteq Bucket(u) \cup ToSet(batch[t].rl)
    BY <1>1, <1>3 DEF Bucket
  <2>4. \A u \in Workers : \A r \in Bucket(u)' : Truthful(r)
    BY <2>2, <2>3 DEF AllTruthful
  <2>. QED  BY <2>4 DEF AllTruthful, Truthful, MultiLinked
<1>4. CASE \/ \E t \in Workers :
                recs' = [recs EXCEPT ![t] = local[t]] /\ local' = [local EXCEPT ![t] = {}]
           \/ recs' = [t \in Workers |-> {}] /\ local' = local
  <2>1. \A u \in Workers : Bucket(u)' \subseteq Bucket(u)
    BY <1>1, <1>4 DEF Bucket
  <2>2. \A u \in Workers : \A r \in Bucket(u)' : Truthful(r)
    BY <2>1 DEF AllTruthful
  <2>. QED  BY <2>2 DEF AllTruthful, Truthful, MultiLinked
<1>. QED  BY <1>2, <1>3, <1>4, LocalStep

(***************************************************************************)
(* Whatever order the kernel answers in, and however often a slot has been *)
(* used before, what a worker hands over of an entry is what statx said of *)
(* that entry, or nothing if it failed (internal.rs:382-394).              *)
(***************************************************************************)
THEOREM RecordsAreTruthful == USpec => []ResultsAreOwn
<1>1. UInit => UInv /\ AllTruthful
  <2>1. UInit => AllTruthful
    BY DEF UInit, Init, AllTruthful, Bucket
  <2>. QED  BY <2>1, UInit1
<1>2. UInv /\ AllTruthful /\ [UNext]_uvars => (UInv /\ AllTruthful)'
  BY UInvStep, TruthfulStep
<1>3. AllTruthful => ResultsAreOwn
  BY DEF AllTruthful, ResultsAreOwn, Truthful
<1>. QED  BY <1>1, <1>2, <1>3, PTL DEF USpec

-----------------------------------------------------------------------------
(* The ids of a batch.                                                     *)

\* Worker u goes on with its directory: the same entries wait.
GoesOn(u) ==
  /\ batch'[u].rl = batch[u].rl /\ local'[u] = local[u] /\ item'[u] = item[u]
  /\ \A i \in Nat : Waits(batch'[u], i) <=> Waits(batch[u], i)

LEMMA SameBatchGoesOn ==
  ASSUME NEW u, batch'[u] = batch[u], local'[u] = local[u], item'[u] = item[u]
  PROVE  GoesOn(u)
BY DEF GoesOn, Waits, Free, ToSet

\* Worker u has no directory open, or closes it: all results have come.
Closes(u) ==
  /\ batch'[u].rl = <<>>
  /\ \A i \in 1 .. Len(batch[u].rl) : ~Waits(batch[u], i)

\* What the batch of a worker has to do with the worker's steps.
LEMMA BatchStep ==
  ASSUME UInv, [UNext]_uvars, NEW u \in Workers
  PROVE  GoesOn(u) \/ Closes(u) \/ OpenAt(u) \/ Handle(u)
<1>1. /\ RingTypeOK /\ \A t \in Workers : RingFirst(t) /\ WorkerRing(t)
      /\ pc \in [Workers -> UPc] /\ local \in [Workers -> SUBSET Rec]
      /\ item \in [Workers -> Item] /\ recs \in [Workers -> SUBSET Rec]
  BY StdTypes DEF UInv, UType, StdShapes, RingInv, RingTypeOK, WorkerRing, UPc
<1>2. batch \in [Workers -> BatchType] /\ ring \in [Workers -> RingType \cup {NoRing}]
  BY <1>1 DEF RingTypeOK
<1>3. pc[u] \notin Batching => batch[u].rl = <<>>
  BY <1>1 DEF WorkerRing
<1>4. ASSUME NEW t \in Workers, GetDirectory(t)
      PROVE  GoesOn(u) \/ Closes(u)
  <2>1. batch' = batch /\ local' = local
    BY <1>4 DEF GetDirectory, PopOwn, Steal, CheckActive, uring
  <2>2. pc[t] \in {"own", "steal"}
    BY <1>4 DEF GetDirectory, PopOwn, Steal, CheckActive
  <2>3. \A v \in Workers : v # t => item'[v] = item[v]
    BY <1>1, <1>4 DEF GetDirectory, PopOwn, Steal, CheckActive
  <2>4. CASE u = t
    BY <1>3, <2>1, <2>2, <2>4, EmptySeq DEF Batching, Closes
  <2>5. CASE u # t
    BY <2>1, <2>3, <2>5, SameBatchGoesOn
  <2>. QED  BY <2>4, <2>5
<1>5. ASSUME NEW t \in Workers, FinishDirectory(t)
      PROVE  GoesOn(u) \/ Closes(u)
  <2>1. batch' = batch
    BY <1>5 DEF FinishDirectory, uring
  <2>2. pc[t] \in {"entry", "add", "sub", "publish"}
    BY <1>5 DEF FinishDirectory, PushChildren, PushTo, AddActive, SubActive, Publish
  <2>3. \A v \in Workers : v # t => item'[v] = item[v] /\ local'[v] = local[v]
    BY <1>1, <1>5 DEF FinishDirectory, PushChildren, PushTo, AddActive, SubActive, Publish
  <2>4. CASE u = t
    BY <1>3, <2>1, <2>2, <2>4, EmptySeq DEF Batching, Closes
  <2>5. CASE u # t
    BY <2>1, <2>3, <2>5, SameBatchGoesOn
  <2>. QED  BY <2>4, <2>5
<1>6. ASSUME NEW t \in Workers,
             Setup(t) \/ CheckLimits(t) \/ OpenAt(t) \/ Queue(t) \/ Enter(t) \/ Reap(t) \/ Handle(t)
               \/ AllHandled(t) \/ CloseDir(t) \/ Complete(t)
      PROVE  /\ item' = item
             /\ t # u => batch'[u] = batch[u] /\ local'[u] = local[u]
             /\ ~CloseDir(t) => local' = local
  <2>1. item' = item
    BY <1>6, Zenon DEF Setup, CheckLimits, OpenAt, Queue, Enter, Reap, Handle, AllHandled, CloseDir,
                Complete, vars, worker
  <2>2. t # u => batch'[u] = batch[u]
    BY <1>2, <1>6, Zenon DEF Setup, CheckLimits, OpenAt, Queue, Enter, Reap, Handle, AllHandled,
                      CloseDir, Complete, uring
  <2>3. ~CloseDir(t) => local' = local
    BY <1>6, Zenon DEF Setup, CheckLimits, OpenAt, Queue, Enter, Reap, Handle, AllHandled, Complete,
                vars, worker
  <2>4. t # u => local'[u] = local[u]
    BY <1>1, <1>6, <2>3 DEF CloseDir
  <2>. QED  BY <2>1, <2>2, <2>3, <2>4
<1>7. ASSUME Setup(u) \/ CheckLimits(u) \/ Complete(u) \/ AllHandled(u) PROVE GoesOn(u)
  <2>1. batch' = batch
    BY <1>7 DEF Setup, CheckLimits, Complete, AllHandled, uring
  <2>2. UNCHANGED <<local, item>>
    BY <1>7 DEF Setup, CheckLimits, Complete, AllHandled, vars, worker
  <2>. QED  BY <2>1, <2>2, SameBatchGoesOn
<1>8. ASSUME Queue(u) PROVE GoesOn(u)
  <2> DEFINE b == batch[u]
  <2>1. /\ b \in BatchType /\ MayQueue(b) /\ UNCHANGED vars /\ SlotsKept(ring[u], b)
    <3>1. Ready(u) /\ b \in BatchType /\ MayQueue(b) /\ UNCHANGED vars
      BY <1>1, <1>8, QueueIs
    <3>. QED  BY <1>1, <3>1 DEF WorkerRing
  <2>2. batch'[u] = QueuedBatch(b) \/ batch'[u] = AfterEnter(QueuedBatch(b))
    BY <1>2, <1>8 DEF Queue
  <2>3. /\ batch'[u].rl = b.rl /\ batch'[u].next = b.next + 1
        /\ batch'[u].slot_entry = [b.slot_entry EXCEPT ![Last(b.free)] = b.next + 1]
        /\ batch'[u].free = Front(b.free)
    BY <2>1, <2>2, QueuedBatchIs, QueueTypes
  <2>4. /\ b.free \in Seq(Slot) /\ b.free # <<>> /\ IsInjective(b.free) /\ b.next \in Nat
        /\ b.slot_entry \in [Slot -> Nat]
    BY <2>1 DEF BatchType, MayQueue, SlotsKept, OnePlace
  <2>5. Free(batch'[u]) = Free(b) \ {Last(b.free)} /\ Last(b.free) \in Free(b)
    BY <2>3, <2>4, TakeAnEnd DEF Free
  <2>9. ASSUME NEW i \in Nat, Waits(b, i) PROVE Waits(batch'[u], i)
    <3>1. CASE i > b.next + 1
      BY <2>3, <2>4, <3>1 DEF Waits
    <3>2. CASE i = b.next + 1
      <4>1. Last(b.free) \in Slot /\ Last(b.free) \notin Free(batch'[u])
        BY <2>4, <2>5, EndsOfSeq
      <4>2. batch'[u].slot_entry[Last(b.free)] = i
        BY <2>3, <2>4, <3>2, <4>1
      <4>. QED  BY <4>1, <4>2 DEF Waits
    <3>3. CASE ~(i > b.next)
      <4>1. PICK s \in Slot \ Free(b) : b.slot_entry[s] = i
        BY <2>9, <3>3 DEF Waits
      <4>2. s \in Slot \ Free(batch'[u]) /\ batch'[u].slot_entry[s] = i
        BY <2>3, <2>4, <2>5, <4>1
      <4>. QED  BY <4>2 DEF Waits
    <3>. QED  BY <2>4, <3>1, <3>2, <3>3
  <2>6. ASSUME NEW i \in Nat, Waits(batch'[u], i) PROVE Waits(b, i)
    <3>1. CASE i > batch'[u].next
      BY <2>3, <2>4, <3>1 DEF Waits
    <3>2. ASSUME NEW s \in Slot \ Free(batch'[u]), batch'[u].slot_entry[s] = i
          PROVE  Waits(b, i)
      <4>1. CASE s = Last(b.free)
        <5>1. i = b.next + 1
          BY <2>3, <2>4, <3>2, <4>1
        <5>. QED  BY <2>4, <5>1 DEF Waits
      <4>2. CASE s # Last(b.free)
        <5>1. b.slot_entry[s] = i /\ s \in Slot \ Free(b)
          BY <2>3, <2>4, <2>5, <3>2, <4>2
        <5>. QED  BY <5>1 DEF Waits
      <4>. QED  BY <4>1, <4>2
    <3>. QED  BY <2>6, <3>1, <3>2 DEF Waits
  <2>7. local'[u] = local[u] /\ item'[u] = item[u]
    BY <2>1 DEF vars, worker
  <2>. QED  BY <2>3, <2>6, <2>7, <2>9 DEF GoesOn
<1>9. ASSUME Enter(u) \/ Reap(u) PROVE GoesOn(u)
  <2> DEFINE b == batch[u]
  <2>1. batch'[u] = AfterEnter(b) \/ batch'[u] = [b EXCEPT !.comp = ring[u].cq]
    BY <1>2, <1>9 DEF Enter, Reap
  <2>2. b \in BatchType
    BY <1>2
  <2>3. /\ batch'[u].rl = b.rl /\ batch'[u].next = b.next
        /\ batch'[u].slot_entry = b.slot_entry /\ batch'[u].free = b.free
    BY <2>1, <2>2 DEF AfterEnter, BatchType
  <2>4. UNCHANGED <<local, item>>
    BY <1>9 DEF Enter, Reap
  <2>. QED  BY <2>3, <2>4 DEF GoesOn, Waits, Free, ToSet
<1>10. ASSUME CloseDir(u) PROVE Closes(u)
  <2>1. /\ ring[u] \in RingType /\ batch[u] \in BatchType /\ AllDone(batch[u])
        /\ SlotsKept(ring[u], batch[u])
    BY <1>1, <1>10, CloseDirIs DEF WorkerRing, Ready
  <2>2. batch'[u].rl = <<>>
    BY <1>2, <1>10 DEF CloseDir, EmptyBatch
  <2>. QED  BY <2>1, <2>2, CloseKept DEF Closes
<1>11. ASSUME NEW t \in Workers, UWorkerStep(t) \/ Complete(t)
       PROVE  GoesOn(u) \/ Closes(u) \/ OpenAt(u) \/ Handle(u)
  <2>1. CASE t = u
    BY <1>4, <1>5, <1>7, <1>8, <1>9, <1>10, <1>11, <2>1 DEF UWorkerStep
  <2>2. CASE t # u
    BY <1>4, <1>5, <1>6, <1>11, <2>2, SameBatchGoesOn DEF UWorkerStep
  <2>. QED  BY <2>1, <2>2
<1>12. CASE Assemble /\ UNCHANGED uring
  BY <1>12, SameBatchGoesOn DEF Assemble, worker, uring
<1>13. CASE UNCHANGED uvars
  BY <1>13, SameBatchGoesOn DEF uvars, vars, worker, uring
<1>. QED  BY <1>11, <1>12, <1>13 DEF UNext, Stopped

\* The records of a batch have ids of their own.
RlDistinct(t) ==
  LET rl == batch[t].rl IN
  /\ \A i, j \in 1 .. Len(rl) : rl[i].id = rl[j].id => i = j
  /\ \A r \in local[t] : \A i \in 1 .. Len(rl) : r.id # rl[i].id

\* The records of the view.
LEMMA StdRecords ==
  ASSUME UInv
  PROVE  /\ \A t \in Workers : Std!Bucket(t) = local[t] \cup ToSet(batch[t].rl) \cup recs[t]
         /\ Std!Records = UNION {Std!Bucket(t) : t \in Workers}
         /\ Std!Stating = {}
         /\ \A t \in Workers : /\ batch[t].rl \in Seq(Rec) /\ Len(batch[t].rl) \in Nat
                               /\ ToSet(batch[t].rl) = {batch[t].rl[i] : i \in 1 .. Len(batch[t].rl)}
<1>1. \A t \in Workers : batch[t].rl \in Seq(Rec)
  BY DEF UInv, RingInv, RingTypeOK, BatchType
<1>2. Std!Stating = {}
  BY NobodyStats DEF UInv, RingInv, RingTypeOK, UPc
<1>3. \A t \in Workers : /\ Len(batch[t].rl) \in Nat
                         /\ ToSet(batch[t].rl) = {batch[t].rl[i] : i \in 1 .. Len(batch[t].rl)}
  BY <1>1, ToSetOfSeq
<1>. QED
  BY <1>1, <1>2, <1>3, SameMeaning DEF Std!Bucket, Std!Records, StdLocal

\* In the view, the ids are dense.
LEMMA StdDense ==
  ASSUME UInv, Std!IdInv, nodes = <<>>
  PROVE  /\ 1 .. counter - 1 = {r.id : r \in Std!Records} /\ counter \in Nat \ {0}
         /\ \A t, u \in Workers : \A q \in Std!Bucket(t), r \in Std!Bucket(u) :
              q.id = r.id => t = u /\ q = r
         /\ \A q, r \in Std!Records : q.id = r.id => q = r
         /\ \A r \in Std!Records : r.id \in 1 .. counter - 1
         /\ \A t \in Workers : IF StdPc[t] = "exit" THEN StdLocal[t] = {} ELSE recs[t] = {}
<1>1. Std!NoHole /\ Std!NoClash /\ Std!HandOver
  BY DEF Std!IdInv, Std!ArenaDense
<1>2. counter \in Nat \ {0}
  BY StdTypes DEF UInv, UType, StdShapes
<1>3. {id[t] : t \in Std!Stating} = {}
  BY StdRecords
<1>4. \A t, u \in Workers : \A q \in Std!Bucket(t), r \in Std!Bucket(u) : q.id = r.id => t = u /\ q = r
  BY <1>1, SameMeaning DEF Std!NoClash
<1>5. \A q, r \in Std!Records : q.id = r.id => q = r
  BY <1>4, StdRecords
<1>6. 1 .. counter - 1 = {r.id : r \in Std!Records}
  BY <1>1, <1>3 DEF Std!NoHole
<1>7. \A r \in Std!Records : r.id \in 1 .. counter - 1
  BY <1>6
<1>. QED  BY <1>1, <1>2, <1>4, <1>5, <1>6, <1>7, SameMeaning DEF Std!HandOver

\* A union of sets one of which loses and gains elements.
LEMMA UnionReplace ==
  ASSUME NEW W, NEW t \in W, NEW b, NEW c, NEW old, NEW new,
         c[t] = (b[t] \ old) \cup new,
         \A u \in W \ {t} : c[u] = b[u] /\ b[u] \cap old = {}
  PROVE  UNION {c[u] : u \in W} = ((UNION {b[u] : u \in W}) \ old) \cup new
<1>1. ASSUME NEW x, x \in UNION {c[u] : u \in W}
      PROVE  x \in ((UNION {b[u] : u \in W}) \ old) \cup new
  <2>1. PICK u \in W : x \in c[u]
    BY <1>1
  <2>2. CASE u = t
    BY <2>1, <2>2
  <2>3. CASE u # t
    BY <2>1, <2>3
  <2>. QED  BY <2>2, <2>3
<1>2. ASSUME NEW x, x \in ((UNION {b[u] : u \in W}) \ old) \cup new
      PROVE  x \in UNION {c[u] : u \in W}
  <2>1. CASE x \in new
    BY <2>1
  <2>2. CASE x \notin new
    <3>1. PICK u \in W : x \in b[u] /\ x \notin old
      BY <1>2, <2>2
    <3>2. x \in c[u]
      BY <3>1
    <3>. QED  BY <3>2
  <2>. QED  BY <2>1, <2>2
<1>. QED  BY <1>1, <1>2

LEMMA OpensRecords ==
  ASSUME UInv, Std!IdInv, NEW t \in Workers, NEW k \in Nat, Opens(t, k)
  PROVE  /\ Std!Bucket(t)' = Std!Bucket(t) \cup {OpenedRec(t, j) : j \in 1 .. k}
         /\ \A u \in Workers \ {t} : Std!Bucket(u)' = Std!Bucket(u)
         /\ Std!Records' = Std!Records \cup {OpenedRec(t, j) : j \in 1 .. k}
<1>1. /\ StdLocal' = [StdLocal EXCEPT ![t] = @ \cup {OpenedRec(t, j) : j \in 1 .. k}]
      /\ recs' = recs
  BY DEF Opens
<1>2. StdLocal \in [Workers -> SUBSET Rec]
  BY StdTypes DEF UInv, UType, StdShapes
<1>3. /\ Std!Bucket(t)' = Std!Bucket(t) \cup {OpenedRec(t, j) : j \in 1 .. k}
      /\ \A u \in Workers \ {t} : Std!Bucket(u)' = Std!Bucket(u)
  <2> HIDE DEF OpenedRec
  <2>1. StdLocal'[t] = StdLocal[t] \cup {OpenedRec(t, j) : j \in 1 .. k}
    BY <1>1, <1>2
  <2>2. \A u \in Workers \ {t} : StdLocal'[u] = StdLocal[u]
    BY <1>1, <1>2
  <2>. QED  BY <1>1, <2>1, <2>2 DEF Std!Bucket
<1>4. Std!Records' = UNION {Std!Bucket(u)' : u \in Workers}
  BY SameMeaning DEF Std!Records
<1>5. Std!Records = UNION {Std!Bucket(u) : u \in Workers}
  BY StdRecords
<1> DEFINE b == [u \in Workers |-> Std!Bucket(u)]
           c == [u \in Workers |-> Std!Bucket(u)']
           new == {OpenedRec(t, j) : j \in 1 .. k}
<1>6. /\ c[t] = (b[t] \ {}) \cup new
      /\ \A u \in Workers \ {t} : c[u] = b[u] /\ b[u] \cap {} = {}
  BY <1>3
<1>7. /\ UNION {c[u] : u \in Workers} = Std!Records'
      /\ UNION {b[u] : u \in Workers} = Std!Records
  BY <1>4, <1>5
<1> HIDE DEF b, c, new
<1>8. UNION {c[u] : u \in Workers} = ((UNION {b[u] : u \in Workers}) \ {}) \cup new
  <2>1. \A x : (\E u \in Workers : x \in c[u]) <=> (\E u \in Workers : x \in b[u]) \/ x \in new
    BY <1>6
  <2>. QED  BY <2>1
<1>9. Std!Records' = Std!Records \cup new
  BY <1>7, <1>8
<1>. QED  BY <1>3, <1>9 DEF new

LEMMA OpensDense ==
  ASSUME UInv, Std!IdInv, NEW t \in Workers, NEW k \in Nat, Opens(t, k)
  PROVE  Std!IdInv'
<1>1. nodes = <<>> /\ nodes' = nodes /\ counter' = counter + k /\ StdPc[t] = "guard"
      /\ StdPc' = [StdPc EXCEPT ![t] = "entry"] /\ recs' = recs
      /\ StdLocal' = [StdLocal EXCEPT ![t] = @ \cup {OpenedRec(t, j) : j \in 1 .. k}]
  BY DEF Opens
<1>2. StdPc \in [Workers -> Pc] /\ StdLocal \in [Workers -> SUBSET Rec] /\ counter \in Nat \ {0}
  BY StdTypes DEF UInv, UType, StdShapes
<1>3. Std!HandOver'
  <2>1. \A u \in Workers : IF StdPc'[u] = "exit" THEN StdLocal'[u] = {} ELSE recs'[u] = {}
    <3> HIDE DEF OpenedRec
    <3>. QED  BY <1>1, <1>2, StdDense
  <2>. QED  BY <2>1, SameMeaning DEF Std!HandOver
<1>4. Std!Stating' = {}
  <2>1. StdPc' = [StdPc EXCEPT ![t] = "entry"] /\ Std!Stating = {}
    BY <1>1, StdRecords
  <2>. QED  BY <1>2, <2>1, SameMeaning DEF Std!Stating
<1> DEFINE new == {OpenedRec(t, j) : j \in 1 .. k}
<1>5. \A j \in 1 .. k : OpenedRec(t, j).id = counter + j - 1
  BY DEF OpenedRec
<1>6. \A r \in new : r.id >= counter /\ r.id <= counter + k - 1 /\ r.id \in Nat
  BY <1>2, <1>5
<1>7. \A q, r \in new : q.id = r.id => q = r
  <2>1. \A i, j \in 1 .. k : OpenedRec(t, i).id = OpenedRec(t, j).id => i = j
    BY <1>2, <1>5
  <2>. QED  BY <2>1
<1>8. \A n \in counter .. counter + k - 1 : \E r \in new : r.id = n
  <2> SUFFICES ASSUME NEW n \in counter .. counter + k - 1 PROVE \E r \in new : r.id = n
    OBVIOUS
  <2>1. n - counter + 1 \in 1 .. k /\ counter + (n - counter + 1) - 1 = n
    BY <1>2
  <2>2. OpenedRec(t, n - counter + 1).id = n
    BY <1>5, <2>1
  <2>. QED  BY <2>1, <2>2
<1> HIDE DEF new
<1>9. /\ Std!Bucket(t)' = Std!Bucket(t) \cup new
      /\ \A u \in Workers \ {t} : Std!Bucket(u)' = Std!Bucket(u)
      /\ Std!Records' = Std!Records \cup new
  BY OpensRecords DEF new
<1>10. \A r \in Std!Records : r.id \in 1 .. counter - 1
  BY <1>1, StdDense
<1>11. Std!NoHole'
  <2>1. {r.id : r \in Std!Records'} = 1 .. counter' - 1
    <3>1. {r.id : r \in Std!Records} = 1 .. counter - 1
      BY <1>1, StdDense
    <3>2. {r.id : r \in new} = counter .. counter + k - 1
      BY <1>2, <1>6, <1>8
    <3>3. {r.id : r \in Std!Records'} = {r.id : r \in Std!Records} \cup {r.id : r \in new}
      BY <1>9
    <3>4. \A n : n \in 1 .. counter + k - 1 <=>
                 n \in 1 .. counter - 1 \/ n \in counter .. counter + k - 1
      BY <1>2
    <3>5. PICK c \in Nat : c = counter'
      BY <1>1, <1>2
    <3>6. c - 1 = counter + k - 1
      BY <1>1, <1>2, <3>5
    <3>7. {r.id : r \in Std!Records'} = 1 .. c - 1
      BY <3>1, <3>2, <3>3, <3>4, <3>6
    <3>. QED  BY <3>5, <3>7
  <2>2. {id'[u] : u \in Std!Stating'} = {}
    BY <1>4
  <2>. QED  BY <2>1, <2>2 DEF Std!NoHole
<1>12. Std!NoClash'
  <2>1. \A u \in Workers : \A r \in Std!Bucket(u) : r \in Std!Records
    BY StdRecords
  <2>2. ASSUME NEW u \in Workers, NEW v \in Workers,
               NEW q \in Std!Bucket(u)', NEW r \in Std!Bucket(v)', q.id = r.id
        PROVE  u = v /\ q = r
    <3>2. CASE q \in Std!Bucket(u) /\ r \in Std!Bucket(v)
      BY <1>1, <2>2, <3>2, StdDense
    <3>3. CASE q \in new /\ r \in new /\ u = t /\ v = t
      BY <1>7, <2>2, <3>3
    <3>4. CASE q \in new /\ r \in Std!Bucket(v)
      BY <1>2, <1>6, <1>10, <2>1, <2>2, <3>4
    <3>5. CASE q \in Std!Bucket(u) /\ r \in new
      BY <1>2, <1>6, <1>10, <2>1, <2>2, <3>5
    <3>6. q \in Std!Bucket(u) \/ (q \in new /\ u = t)
      BY <1>9
    <3>7. r \in Std!Bucket(v) \/ (r \in new /\ v = t)
      BY <1>9
    <3>. QED  BY <3>2, <3>3, <3>4, <3>5, <3>6, <3>7
  <2>. QED  BY <1>4, <2>2, SameMeaning DEF Std!NoClash
<1>13. Std!TypeInv'
  BY OpensTypes
<1>. QED  BY <1>3, <1>11, <1>12, <1>13 DEF Std!IdInv, Std!ArenaDense

LEMMA FillsRecords ==
  ASSUME UInv, Std!IdInv, NEW t \in Workers, RlDistinct(t), NEW i, NEW s, Fills(t, i, s)
  PROVE  LET old == batch[t].rl[i]
             new == batch'[t].rl[i]
         IN /\ Std!Bucket(t)' = (Std!Bucket(t) \ {old}) \cup {new} /\ old \in Std!Bucket(t)
            /\ \A u \in Workers \ {t} : Std!Bucket(u)' = Std!Bucket(u)
            /\ Std!Records' = (Std!Records \ {old}) \cup {new} /\ old \in Std!Records
            /\ new.id = old.id /\ new.parent = old.parent /\ new.entry = old.entry
            /\ recs'[t] = {}
<1> DEFINE rl == batch[t].rl
           rl2 == batch'[t].rl
           old == rl[i]
           new == rl2[i]
<1>1. /\ i \in 1 .. Len(rl) /\ Len(rl2) = Len(rl) /\ rl2 \in Seq(Rec)
      /\ \A j \in 1 .. Len(rl) : j # i => rl2[j] = rl[j]
      /\ new.id = old.id /\ new.parent = old.parent /\ new.entry = old.entry
      /\ local' = local /\ recs' = recs /\ nodes = <<>> /\ StdPc[t] = "entry"
      /\ \A u \in Workers \ {t} : batch'[u] = batch[u]
  BY DEF Fills
<1>2. recs[t] = {}
  BY <1>1, StdDense
<1>3. ToSet(rl) = {rl[j] : j \in 1 .. Len(rl)} /\ Len(rl) \in Nat
  BY StdRecords
<1>4. ToSet(rl2) = {rl2[j] : j \in 1 .. Len(rl)}
  BY <1>1, ToSetOfSeq
<1>5. \A j \in 1 .. Len(rl) : j # i => rl[j] # old
  BY <1>1 DEF RlDistinct
<1>6. old \notin local[t]
  BY <1>1 DEF RlDistinct
<1> HIDE DEF rl, rl2, old, new
<1>7. ToSet(rl2) = (ToSet(rl) \ {old}) \cup {new}
  <2>1. old = rl[i] /\ new = rl2[i]
    BY DEF old, new
  <2>. QED  BY <1>1, <1>3, <1>4, <1>5, <2>1
<1>8. Std!Bucket(t) = local[t] \cup ToSet(rl) \cup recs[t]
  BY StdRecords DEF rl
<1>9. Std!Bucket(t)' = local[t] \cup ToSet(rl2) \cup recs[t]
  <2>1. Std!Bucket(t)' = StdLocal'[t] \cup recs'[t]
    BY DEF Std!Bucket
  <2>2. StdLocal'[t] = local'[t] \cup ToSet(batch'[t].rl)
    BY DEF StdLocal
  <2>. QED  BY <1>1, <2>1, <2>2 DEF rl2
<1>10. \A u \in Workers \ {t} : Std!Bucket(u)' = Std!Bucket(u)
  <2>1. \A u \in Workers : StdLocal'[u] = local'[u] \cup ToSet(batch'[u].rl)
    BY DEF StdLocal
  <2>2. \A u \in Workers : StdLocal[u] = local[u] \cup ToSet(batch[u].rl)
    BY DEF StdLocal
  <2>. QED  BY <1>1, <2>1, <2>2 DEF Std!Bucket
<1>11. Std!Bucket(t)' = (Std!Bucket(t) \ {old}) \cup {new} /\ old \in Std!Bucket(t)
  <2>1. old \in ToSet(rl)
    BY <1>1, <1>3 DEF old
  <2>. QED  BY <1>2, <1>6, <1>7, <1>8, <1>9, <2>1
<1>12. \A u \in Workers \ {t} : old \notin Std!Bucket(u)
  BY <1>1, <1>11, StdDense
<1>13. Std!Records' = (Std!Records \ {old}) \cup {new} /\ old \in Std!Records
  <2>1. Std!Records' = UNION {Std!Bucket(u)' : u \in Workers}
    BY SameMeaning DEF Std!Records
  <2>2. Std!Records = UNION {Std!Bucket(u) : u \in Workers}
    BY StdRecords
  <2> DEFINE b == [u \in Workers |-> Std!Bucket(u)]
             c == [u \in Workers |-> Std!Bucket(u)']
  <2>3. /\ c[t] = (b[t] \ {old}) \cup {new} /\ old \in b[t]
        /\ \A u \in Workers \ {t} : c[u] = b[u] /\ b[u] \cap {old} = {}
    BY <1>10, <1>11, <1>12
  <2>4. /\ UNION {c[u] : u \in Workers} = Std!Records'
        /\ UNION {b[u] : u \in Workers} = Std!Records
    BY <2>1, <2>2
  <2> HIDE DEF b, c
  <2>5. UNION {c[u] : u \in Workers} = ((UNION {b[u] : u \in Workers}) \ {old}) \cup {new}
    <3> DEFINE olds == {old}
               news == {new}
    <3>1. c[t] = (b[t] \ olds) \cup news
      BY <2>3
    <3>2. \A u \in Workers \ {t} : c[u] = b[u] /\ b[u] \cap olds = {}
      BY <2>3
    <3> HIDE DEF olds, news
    <3>3. UNION {c[u] : u \in Workers} = ((UNION {b[u] : u \in Workers}) \ olds) \cup news
      BY <3>1, <3>2, UnionReplace
    <3>. QED  BY <3>3 DEF olds, news
  <2>6. old \in UNION {b[u] : u \in Workers}
    BY <2>3
  <2>. QED  BY <2>4, <2>5, <2>6
<1>. QED  BY <1>1, <1>2, <1>10, <1>11, <1>13 DEF old, new, rl, rl2

LEMMA FillsDense ==
  ASSUME UInv, Std!IdInv, NEW t \in Workers, RlDistinct(t), NEW i, NEW s, Fills(t, i, s)
  PROVE  Std!IdInv'
<1> DEFINE old == batch[t].rl[i]
           new == batch'[t].rl[i]
<1>1. /\ Std!Bucket(t)' = (Std!Bucket(t) \ {old}) \cup {new} /\ old \in Std!Bucket(t)
      /\ \A u \in Workers \ {t} : Std!Bucket(u)' = Std!Bucket(u)
      /\ Std!Records' = (Std!Records \ {old}) \cup {new} /\ old \in Std!Records
      /\ new.id = old.id /\ recs'[t] = {}
  BY FillsRecords
<1>2. /\ UNCHANGED <<counter, nodes, recs, StdPc>> /\ nodes = <<>> /\ StdPc[t] = "entry"
      /\ \A u \in Workers \ {t} : batch'[u] = batch[u] /\ local'[u] = local[u]
  BY DEF Fills
<1> HIDE DEF old, new
<1>3. Std!HandOver'
  <2>1. \A u \in Workers \ {t} : StdLocal'[u] = StdLocal[u]
    BY <1>2 DEF StdLocal
  <2>2. \A u \in Workers : IF StdPc'[u] = "exit" THEN StdLocal'[u] = {} ELSE recs'[u] = {}
    BY <1>1, <1>2, <2>1, StdDense
  <2>. QED  BY <2>2, SameMeaning DEF Std!HandOver
<1>4. Std!Stating' = {}
  BY <1>2, StdRecords, SameMeaning DEF Std!Stating
<1>5. Std!NoHole'
  <2>1. {r.id : r \in Std!Records'} = {r.id : r \in Std!Records}
    <3>1. ASSUME NEW r \in Std!Records' PROVE \E q \in Std!Records : q.id = r.id
      BY <1>1
    <3>2. ASSUME NEW r \in Std!Records PROVE \E q \in Std!Records' : q.id = r.id
      BY <1>1
    <3>. QED  BY <3>1, <3>2
  <2>2. {id'[u] : u \in Std!Stating'} = {}
    BY <1>4
  <2>. QED  BY <1>2, <2>1, <2>2, StdDense DEF Std!NoHole
<1>6. Std!NoClash'
  <2>1. ASSUME NEW u \in Workers, NEW v \in Workers,
               NEW q \in Std!Bucket(u)', NEW r \in Std!Bucket(v)', q.id = r.id
        PROVE  u = v /\ q = r
    <3>1. \/ q \in Std!Bucket(u) /\ (u = t => q # old)
          \/ q = new /\ u = t
      BY <1>1
    <3>2. \/ r \in Std!Bucket(v) /\ (v = t => r # old)
          \/ r = new /\ v = t
      BY <1>1
    <3>. QED  BY <1>1, <1>2, <2>1, <3>1, <3>2, StdDense
  <2>. QED  BY <1>4, <2>1, SameMeaning DEF Std!NoClash
<1>7. Std!TypeInv'
  BY FillsTypes
<1>. QED  BY <1>3, <1>5, <1>6, <1>7 DEF Std!IdInv, Std!ArenaDense

-----------------------------------------------------------------------------
(* The ids.                                                                *)

\* The records of a batch are the entries of its directory.
RlOfDir(t) ==
  LET rl == batch[t].rl IN
  \A i \in 1 .. Len(rl) : rl[i].parent = item[t].id /\ rl[i].entry \in Children(item[t].dir)

RlKept(t) == RlDistinct(t) /\ RlOfDir(t)

\* A record of a worker's own hands is one of the view's records.
LEMMA LocalIsRecord ==
  ASSUME UInv, NEW t \in Workers
  PROVE  /\ \A r \in local[t] : r \in Std!Bucket(t) /\ r \in Std!Records
         /\ \A i \in 1 .. Len(batch[t].rl) :
              /\ batch[t].rl[i] \in Std!Bucket(t) /\ batch[t].rl[i] \in Std!Records
              /\ batch[t].rl[i] \in Rec
<1>1. /\ Std!Bucket(t) = local[t] \cup ToSet(batch[t].rl) \cup recs[t]
      /\ Std!Records = UNION {Std!Bucket(u) : u \in Workers}
      /\ batch[t].rl \in Seq(Rec)
      /\ ToSet(batch[t].rl) = {batch[t].rl[i] : i \in 1 .. Len(batch[t].rl)}
  BY StdRecords
<1>2. \A i \in 1 .. Len(batch[t].rl) : batch[t].rl[i] \in Rec
  BY <1>1, ElementOfSeq
<1>. QED  BY <1>1, <1>2

LEMMA OpensRl ==
  ASSUME UInv, Std!IdInv, NEW t \in Workers, NEW k \in Nat, Opens(t, k)
  PROVE  RlKept(t)'
<1> DEFINE rl2 == batch'[t].rl
<1>1. /\ nodes = <<>> /\ Len(rl2) = k /\ local'[t] = local[t] /\ item'[t] = item[t]
      /\ k \in 0 .. Len(Listing[item[t].dir])
      /\ \A j \in 1 .. k : OpenedRec(t, j) \in Rec /\ rl2[j] = OpenedRec(t, j)
  BY DEF Opens
<1>2. counter \in Nat \ {0} /\ item[t].dir \in Entry
  BY StdTypes DEF UInv, UType, StdShapes, Item
<1>3. \A j \in 1 .. k : /\ rl2[j].id = counter + j - 1 /\ rl2[j].parent = item[t].id
                        /\ rl2[j].entry = Listing[item[t].dir][j]
  <2>1. \A j : /\ OpenedRec(t, j).id = counter + j - 1 /\ OpenedRec(t, j).parent = item[t].id
               /\ OpenedRec(t, j).entry = Listing[item[t].dir][j]
    BY DEF OpenedRec
  <2>. QED  BY <1>1, <2>1
<1> HIDE DEF rl2
<1>4. \A r \in local[t] : r.id \in 1 .. counter - 1
  BY <1>1, LocalIsRecord, StdDense
<1>5. RlDistinct(t)'
  <2>1. \A i, j \in 1 .. Len(rl2) : rl2[i].id = rl2[j].id => i = j
    BY <1>1, <1>2, <1>3
  <2>2. \A r \in local'[t] : \A i \in 1 .. Len(rl2) : r.id # rl2[i].id
    BY <1>1, <1>2, <1>3, <1>4
  <2>. QED  BY <2>1, <2>2 DEF RlDistinct, rl2
<1>6. RlOfDir(t)'
  <2>1. Listing[item[t].dir] \in Seq(Entry)
    BY <1>2, FileTreeAssumption
  <2>2. DOMAIN Listing[item[t].dir] = 1 .. Len(Listing[item[t].dir]) /\ Len(Listing[item[t].dir]) \in Nat
    BY <2>1, LenProperties
  <2>3. \A j \in 1 .. k : Listing[item[t].dir][j] \in Children(item[t].dir)
    BY <1>1, <2>2 DEF Children
  <2>4. \A j \in 1 .. k : rl2[j].parent = item'[t].id /\ rl2[j].entry \in Children(item'[t].dir)
    BY <1>1, <1>3, <2>3
  <2>. QED  BY <1>1, <2>4 DEF RlOfDir, rl2
<1>. QED  BY <1>5, <1>6 DEF RlKept

LEMMA FillsRl ==
  ASSUME UInv, NEW t \in Workers, RlKept(t), NEW i, NEW s, Fills(t, i, s)
  PROVE  RlKept(t)'
<1> DEFINE rl == batch[t].rl
           rl2 == batch'[t].rl
<1>1. /\ i \in 1 .. Len(rl) /\ Len(rl2) = Len(rl) /\ local'[t] = local[t] /\ item'[t] = item[t]
      /\ \A j \in 1 .. Len(rl) : j # i => rl2[j] = rl[j]
      /\ rl2[i].id = rl[i].id /\ rl2[i].parent = rl[i].parent /\ rl2[i].entry = rl[i].entry
  BY DEF Fills
<1> HIDE DEF rl, rl2
<1>2. \A j \in 1 .. Len(rl) : /\ rl2[j].id = rl[j].id /\ rl2[j].parent = rl[j].parent
                              /\ rl2[j].entry = rl[j].entry
  BY <1>1
<1>3. RlDistinct(t)'
  <2>1. \A j, l \in 1 .. Len(rl) : rl[j].id = rl[l].id => j = l
    BY DEF RlKept, RlDistinct, rl
  <2>2. \A r \in local[t] : \A j \in 1 .. Len(rl) : r.id # rl[j].id
    BY DEF RlKept, RlDistinct, rl
  <2>3. \A j, l \in 1 .. Len(rl2) : rl2[j].id = rl2[l].id => j = l
    BY <1>1, <1>2, <2>1
  <2>4. \A r \in local'[t] : \A j \in 1 .. Len(rl2) : r.id # rl2[j].id
    BY <1>1, <1>2, <2>2
  <2>. QED  BY <2>3, <2>4 DEF RlDistinct, rl2
<1>4. RlOfDir(t)'
  <2>1. \A j \in 1 .. Len(rl) : rl[j].parent = item[t].id /\ rl[j].entry \in Children(item[t].dir)
    BY DEF RlKept, RlOfDir, rl
  <2>2. \A j \in 1 .. Len(rl2) : rl2[j].parent = item'[t].id /\ rl2[j].entry \in Children(item'[t].dir)
    BY <1>1, <1>2, <2>1
  <2>. QED  BY <2>2 DEF RlOfDir, rl2
<1>. QED  BY <1>3, <1>4 DEF RlKept

UIds == UInv /\ Std!IdInv /\ \A t \in Workers : RlKept(t)

LEMMA UIdsStep ==
  ASSUME UIds, [UNext]_uvars
  PROVE  UIds'
<1>. UInv /\ Std!IdInv /\ \A t \in Workers : RlKept(t)
  BY DEF UIds
<1>1. UInv'
  BY UInvStep
<1>2. ASSUME NEW u \in Workers PROVE RlKept(u)'
  <2>1. CASE GoesOn(u)
    BY <2>1 DEF GoesOn, RlKept, RlDistinct, RlOfDir
  <2>2. CASE batch'[u].rl = <<>>
    BY <2>2, EmptySeq DEF RlKept, RlDistinct, RlOfDir
  <2>3. CASE OpenAt(u)
    BY <2>3, OpenAtOpens, OpensRl
  <2>4. CASE Handle(u)
    BY <2>4, HandleFills, FillsRl
  <2>. QED  BY <2>1, <2>2, <2>3, <2>4, BatchStep DEF Closes
<1>3. Std!IdInv'
  <2>1. RingTypeOK /\ local \in [Workers -> SUBSET Rec] /\ \A t \in Workers : AtRest(t)
    BY DEF UInv, UType, RingInv, WorkerRing, AtRest
  <2>2. CASE [Std!Next]_Std!vars
    BY <2>2, StdAssumptions, Std!IdStep
  <2>3. ASSUME NEW t \in Workers, OpenAt(t) PROVE Std!IdInv'
    BY <2>3, OpenAtOpens, OpensDense
  <2>4. ASSUME NEW t \in Workers, Handle(t) PROVE Std!IdInv'
    BY <2>4, HandleFills, FillsDense DEF RlKept
  <2>. QED  BY <2>1, <2>2, <2>3, <2>4, StepIsStd
<1>. QED  BY <1>1, <1>2, <1>3 DEF UIds

LEMMA UIdsInit == UInit => UIds
<1> SUFFICES ASSUME UInit PROVE UIds
  OBVIOUS
<1>1. UInv /\ Std!IdInv
  BY UInit1, StdAssumptions, Std!IdInit
<1>2. \A t \in Workers : batch[t].rl = <<>>
  BY DEF UInit, EmptyBatch
<1>3. \A t \in Workers : RlKept(t)
  BY <1>2, EmptySeq DEF RlKept, RlDistinct, RlOfDir
<1>. QED  BY <1>1, <1>3 DEF UIds

\* A set whose elements have the numbers from 1 to n has n elements.
LEMMA Numbered ==
  ASSUME NEW n \in Nat, NEW S, {r.id : r \in S} = 1 .. n,
         \A q, r \in S : q.id = r.id => q = r
  PROVE  Cardinality(S) = n
<1> DEFINE f == [i \in 1 .. n |-> CHOOSE r \in S : r.id = i]
<1>1. \A i \in 1 .. n : \E r \in S : r.id = i
  OBVIOUS
<1>2. \A i \in 1 .. n : f[i] \in S /\ f[i].id = i
  BY <1>1
<1>3. \A r \in S : r.id \in 1 .. n
  OBVIOUS
<1> HIDE DEF f
<1>4. \A r \in S : f[r.id] = r
  BY <1>2, <1>3
<1>5. f \in [1 .. n -> S]
  <2>1. DOMAIN f = 1 .. n /\ f = [i \in 1 .. n |-> f[i]]
    BY DEF f
  <2>. QED  BY <1>2, <2>1
<1>6. f \in Bijection(1 .. n, S)
  <2>1. \A i, j \in 1 .. n : f[i] = f[j] => i = j
    BY <1>2
  <2>2. \A r \in S : \E i \in 1 .. n : f[i] = r
    BY <1>3, <1>4
  <2>3. f \in Injection(1 .. n, S)
    BY <1>5, <2>1 DEF Injection, IsInjective
  <2>4. f \in Surjection(1 .. n, S)
    BY <1>5, <2>2 DEF Surjection
  <2>. QED  BY <2>3, <2>4 DEF Bijection
<1>. QED  BY <1>6, FS_CountingElements DEF ExistsBijection

(***************************************************************************)
(* The ids of the arena are without a hole or a clash when a worker takes  *)
(* those of a whole directory with one fetch_add (internal.rs:354), and    *)
(* fills the records in in whatever order the completions come.            *)
(***************************************************************************)
THEOREM UringArenaIsDense == USpec => []UArenaDense
<1>1. UIds => UArenaDense
  <2> SUFFICES ASSUME UIds, nodes = <<>>
               PROVE  /\ {r.id : r \in URecords} = 1 .. counter - 1
                      /\ Cardinality(URecords) = counter - 1
    BY DEF UArenaDense
  <2>1. UInv /\ Std!IdInv
    BY DEF UIds
  <2>2. URecords = Std!Records
    <3>1. \A t \in Workers : Std!Bucket(t) = Bucket(t) \cup ToSet(batch[t].rl)
      BY <2>1, StdRecords DEF Bucket
    <3>2. Std!Records = UNION {Std!Bucket(t) : t \in Workers}
      BY <2>1, StdRecords
    <3>3. ASSUME NEW r \in URecords PROVE r \in Std!Records
      BY <3>1, <3>2 DEF URecords, Records
    <3>4. ASSUME NEW r \in Std!Records PROVE r \in URecords
      BY <3>1, <3>2 DEF URecords, Records
    <3>. QED  BY <3>3, <3>4
  <2>3. /\ 1 .. counter - 1 = {r.id : r \in Std!Records} /\ counter \in Nat \ {0}
        /\ \A q, r \in Std!Records : q.id = r.id => q = r
    BY <2>1, StdDense
  <2>4. counter - 1 \in Nat
    BY <2>3
  <2>5. Cardinality(Std!Records) = counter - 1
    <3> DEFINE n == counter - 1
               S == Std!Records
    <3>1. n \in Nat /\ {r.id : r \in S} = 1 .. n /\ \A q, r \in S : q.id = r.id => q = r
      BY <2>3, <2>4
    <3> HIDE DEF n, S
    <3>2. Cardinality(S) = n
      BY <3>1, Numbered
    <3>. QED  BY <3>2 DEF n, S
  <2>. QED  BY <2>2, <2>3, <2>5
<1>2. UIds /\ [UNext]_uvars => UIds'
  BY UIdsStep
<1>. QED  BY UIdsInit, <1>1, <1>2, PTL DEF USpec

-----------------------------------------------------------------------------
(* The parent of a node precedes it.                                       *)

\* What the view says of the entries a worker has yet to process.
UTodo == Std!TodoBelow /\ Std!IdAbove /\ Std!Fresh

LEMMA NothingToDo == UInv => UTodo
<1> SUFFICES ASSUME UInv PROVE UTodo
  OBVIOUS
<1>1. Std!Stating = {} /\ \A t \in Workers : todo[t] = <<>>
  BY StdRecords DEF UInv, UType, NoTodo
<1>2. /\ \A S : <<>> \in Seq(S)
      /\ Std!IsInjective(<<>>) /\ Std!ToSet(<<>>) = {}
  BY EmptySeq DEF Std!IsInjective, Std!ToSet
<1>3. Std!TodoBelow
  BY <1>1, <1>2, SameMeaning DEF Std!TodoBelow
<1>4. Std!IdAbove
  BY <1>1 DEF Std!IdAbove
<1>5. Std!Fresh
  BY <1>1, <1>2, SameMeaning DEF Std!Fresh
<1>. QED  BY <1>3, <1>4, <1>5 DEF UTodo

LEMMA NothingToDoNext ==
  ASSUME UInv, [UNext]_uvars
  PROVE  UTodo'
<1>1. UInv'
  BY UInvStep
<1>. QED  BY <1>1, NothingToDo, PTL

\* Filling a record in keeps the names.
LEMMA FillsNames ==
  ASSUME UIds, NEW t \in Workers, NEW i, NEW s, Fills(t, i, s)
  PROVE  /\ Std!Names' = Std!Names /\ Std!NamedItem' = Std!NamedItem
         /\ <<batch[t].rl[i].id, batch[t].rl[i].entry>> \in Std!Names
<1> DEFINE old == batch[t].rl[i]
           new == batch'[t].rl[i]
<1>1. /\ Std!Records' = (Std!Records \ {old}) \cup {new} /\ old \in Std!Records
      /\ new.id = old.id /\ new.entry = old.entry
  BY FillsRecords DEF UIds, RlKept
<1> HIDE DEF old, new
<1>2. ASSUME NEW x \in Std!Names PROVE x \in Std!Names'
  <2>1. CASE x = <<0, Root>>
    BY <2>1 DEF Std!Names
  <2>2. CASE x # <<0, Root>>
    <3>1. PICK r \in Std!Records : x = <<r.id, r.entry>>
      BY <2>2 DEF Std!Names
    <3>2. \E q \in Std!Records' : q.id = r.id /\ q.entry = r.entry
      BY <1>1
    <3>. QED  BY <3>1, <3>2 DEF Std!Names
  <2>. QED  BY <2>1, <2>2
<1>3. ASSUME NEW x \in Std!Names' PROVE x \in Std!Names
  <2>1. CASE x = <<0, Root>>
    BY <2>1 DEF Std!Names
  <2>2. CASE x # <<0, Root>>
    <3>1. PICK r \in Std!Records' : x = <<r.id, r.entry>>
      BY <2>2 DEF Std!Names
    <3>2. \E q \in Std!Records : q.id = r.id /\ q.entry = r.entry
      BY <1>1
    <3>. QED  BY <3>1, <3>2 DEF Std!Names
  <2>. QED  BY <2>1, <2>2
<1>4. Std!Names' = Std!Names
  BY <1>2, <1>3
<1>5. <<old.id, old.entry>> \in Std!Names
  BY <1>1 DEF Std!Names
<1>. QED  BY <1>4, <1>5 DEF Std!NamedItem, old

\* A child has the name of its record.
LEMMA FillsChild ==
  ASSUME UIds, NEW t \in Workers, NEW i, NEW s, Fills(t, i, s)
  PROVE  ChildAt(t, i) \in Std!NamedItem /\ ChildAt(t, i).id = batch[t].rl[i].id
<1>1. /\ ChildAt(t, i) \in Item
      /\ ChildAt(t, i) = [dir |-> batch[t].rl[i].entry, id |-> batch[t].rl[i].id,
                          depth |-> item[t].depth + 1]
  BY FillsItem DEF UIds
<1>2. <<ChildAt(t, i).id, ChildAt(t, i).dir>> \in Std!Names /\ ChildAt(t, i).id = batch[t].rl[i].id
  BY <1>1, FillsNames
<1>. QED  BY <1>1, <1>2, SameMeaning DEF Std!NamedItem

LEMMA OpensLineage ==
  ASSUME UIds, Std!Lineage, UTodo', NEW t \in Workers, NEW k \in Nat, Opens(t, k)
  PROVE  Std!Lineage'
<1>1. /\ nodes = <<>> /\ counter' = counter + k
      /\ UNCHANGED <<deque, item, childdirs>>
      /\ k \in 0 .. Len(Listing[item[t].dir])
  BY DEF Opens
<1>2. UInv /\ Std!IdInv /\ Std!TypeInv /\ Std!NoHole
  BY <1>1 DEF UIds, Std!IdInv, Std!ArenaDense
<1>3. Std!ItemsNamed /\ Std!ParentNamed
  BY <1>1 DEF Std!Lineage
<1> DEFINE new == {OpenedRec(t, j) : j \in 1 .. k}
<1>4. Std!Records' = Std!Records \cup new
  BY <1>2, OpensRecords
<1>5. \A r \in new : /\ r.id >= counter /\ r.id \in Int /\ r.parent = item[t].id
                     /\ r.entry \in Children(item[t].dir)
  <2>1. counter \in Nat /\ item[t].dir \in Entry
    BY <1>2, StdTypes DEF StdShapes, Item
  <2>2. Listing[item[t].dir] \in Seq(Entry)
    BY <2>1, FileTreeAssumption
  <2>3. DOMAIN Listing[item[t].dir] = 1 .. Len(Listing[item[t].dir]) /\ Len(Listing[item[t].dir]) \in Nat
    BY <2>2, LenProperties
  <2>4. \A j \in 1 .. k : j \in DOMAIN Listing[item[t].dir]
    BY <1>1, <2>3
  <2>. QED  BY <2>1, <2>4 DEF OpenedRec, Children
<1> HIDE DEF new
<1>6. Std!Records \subseteq Std!Records'
  BY <1>4
<1>7. Std!Names \subseteq Std!Names' /\ Std!NamedItem \subseteq Std!NamedItem'
  BY <1>6, StdAssumptions, Std!NamesGrow
<1>8. item[t] \in Std!NamedItem
  BY <1>3, SameMeaning DEF Std!ItemsNamed
<1>9. item[t].id \in 0 .. counter - 1
  BY <1>2, <1>8, StdAssumptions, Std!NamedBelowCounter
<1>10. Std!ItemsNamed'
  <2>1. \A u \in Workers : /\ deque[u] \in Seq(Std!NamedItem') /\ item[u] \in Std!NamedItem'
                           /\ childdirs[u] \in Seq(Std!NamedItem')
    BY <1>3, <1>6, StdAssumptions, Std!ItemsStayNamed, SameMeaning
  <2>. QED  BY <1>1, <2>1, SameMeaning DEF Std!ItemsNamed
<1>11. Std!ParentNamed'
  <2>1. counter \in Nat
    BY <1>2, StdTypes DEF StdShapes
  <2>2. /\ item[t].dir \in Entry
        /\ <<item[t].id, item[t].dir>> \in Std!Names'
    BY <1>7, <1>8, SameMeaning DEF Std!NamedItem, Item
  <2>3. ASSUME NEW r \in Std!Records'
        PROVE  /\ r.parent < r.id
               /\ \E d \in Entry : <<r.parent, d>> \in Std!Names' /\ r.entry \in Children(d)
    <3>1. CASE r \in Std!Records
      BY <1>3, <1>7, <3>1, SameMeaning DEF Std!ParentNamed
    <3>2. CASE r \in new
      BY <1>5, <1>9, <2>1, <2>2, <3>2
    <3>. QED  BY <1>4, <3>1, <3>2
  <2>. QED  BY <2>3, SameMeaning DEF Std!ParentNamed
<1>. QED  BY <1>10, <1>11 DEF Std!Lineage, UTodo

LEMMA FillsLineage ==
  ASSUME UIds, Std!Lineage, UTodo', NEW t \in Workers, NEW i, NEW s, Fills(t, i, s)
  PROVE  Std!Lineage'
<1>1. /\ nodes = <<>> /\ UNCHANGED <<deque, item>>
      /\ childdirs' = childdirs \/ childdirs' = [childdirs EXCEPT ![t] = Append(@, ChildAt(t, i))]
  BY DEF Fills
<1>2. UInv /\ Std!IdInv /\ RlKept(t)
  BY DEF UIds
<1>3. Std!ItemsNamed /\ Std!ParentNamed
  BY <1>1 DEF Std!Lineage
<1>4. Std!Names' = Std!Names /\ Std!NamedItem' = Std!NamedItem /\ ChildAt(t, i) \in Std!NamedItem
  BY FillsNames, FillsChild
<1>5. \A u \in Workers : /\ deque[u] \in Seq(Std!NamedItem) /\ item[u] \in Std!NamedItem
                         /\ childdirs[u] \in Seq(Std!NamedItem)
  BY <1>3, SameMeaning DEF Std!ItemsNamed
<1>6. Std!ItemsNamed'
  <2>1. Append(childdirs[t], ChildAt(t, i)) \in Seq(Std!NamedItem)
    BY <1>4, <1>5, AppendProperties
  <2>2. childdirs \in [Workers -> Seq(Item)]
    BY <1>2, StdTypes DEF UInv, UType, StdShapes
  <2>3. \A u \in Workers : childdirs'[u] \in Seq(Std!NamedItem)
    BY <1>1, <1>5, <2>1, <2>2
  <2>. QED  BY <1>1, <1>4, <1>5, <2>3, SameMeaning DEF Std!ItemsNamed
<1>7. Std!ParentNamed'
  <2> DEFINE old == batch[t].rl[i]
             new == batch'[t].rl[i]
  <2>1. /\ Std!Records' = (Std!Records \ {old}) \cup {new} /\ old \in Std!Records
        /\ new.id = old.id /\ new.parent = old.parent /\ new.entry = old.entry
    BY <1>2, FillsRecords DEF RlKept
  <2> HIDE DEF old, new
  <2>2. ASSUME NEW r \in Std!Records'
        PROVE  /\ r.parent < r.id
               /\ \E d \in Entry : <<r.parent, d>> \in Std!Names /\ r.entry \in Children(d)
    <3>1. PICK q \in Std!Records : q.id = r.id /\ q.parent = r.parent /\ q.entry = r.entry
      BY <2>1
    <3>2. /\ q.parent < q.id
          /\ \E d \in Entry : <<q.parent, d>> \in Std!Names /\ q.entry \in Children(d)
      BY <1>3, SameMeaning DEF Std!ParentNamed
    <3>. QED  BY <3>1, <3>2
  <2>. QED  BY <1>4, <2>2, SameMeaning DEF Std!ParentNamed
<1>. QED  BY <1>6, <1>7 DEF Std!Lineage, UTodo

\* ParallelWalkProofs' steps, and the two that are not ParallelWalk's.
LEMMA UStep ==
  ASSUME UInv, [UNext]_uvars
  PROVE  \/ [Std!Next]_Std!vars
         \/ \E t \in Workers, k \in Nat : Opens(t, k) /\ OpenAt(t)
         \/ \E t \in Workers, i, s \in Nat : Fills(t, i, s) /\ Handle(t)
<1>1. RingTypeOK /\ local \in [Workers -> SUBSET Rec] /\ \A t \in Workers : AtRest(t)
  BY DEF UInv, UType, RingInv, WorkerRing, AtRest
<1>2. ASSUME NEW t \in Workers, OpenAt(t) PROVE \E k \in Nat : Opens(t, k)
  BY <1>2, OpenAtOpens
<1>3. ASSUME NEW t \in Workers, Handle(t) PROVE \E i, s \in Nat : Fills(t, i, s)
  BY <1>3, HandleFills
<1>. QED  BY <1>1, <1>2, <1>3, StepIsStd

LEMMA ULineageStep ==
  ASSUME UIds, Std!Lineage, [UNext]_uvars
  PROVE  Std!Lineage'
<1>1. UInv /\ Std!IdInv /\ UTodo'
  BY NothingToDoNext DEF UIds
<1>2. CASE [Std!Next]_Std!vars
  BY <1>1, <1>2, StdAssumptions, Std!LineageStep
<1>3. ASSUME NEW t \in Workers, NEW k \in Nat, Opens(t, k) PROVE Std!Lineage'
  BY <1>1, <1>3, OpensLineage
<1>4. ASSUME NEW t \in Workers, NEW i, NEW s, Fills(t, i, s) PROVE Std!Lineage'
  BY <1>1, <1>4, FillsLineage
<1>. QED  BY <1>1, <1>2, <1>3, <1>4, UStep

LEMMA UParentFirstStep ==
  ASSUME UIds, Std!Lineage, ParentFirst, [UNext]_uvars
  PROVE  ParentFirst'
<1>1. UInv /\ Std!IdInv
  BY DEF UIds
<1>2. Std!ParentFirst
  BY SameMeaning DEF ParentFirst, Std!ParentFirst
<1>3. CASE [Std!Next]_Std!vars
  <2>1. Std!ParentFirst'
    BY <1>1, <1>2, <1>3, StdAssumptions, Std!ParentFirstStep
  <2>. QED  BY <2>1, SameMeaning DEF ParentFirst, Std!ParentFirst
<1>4. CASE nodes' = nodes
  BY <1>4 DEF ParentFirst
<1>. QED  BY <1>1, <1>3, <1>4, UStep DEF Opens, Fills

ULineage == UIds /\ Std!Lineage /\ ParentFirst

LEMMA ULineageInit == UInit => ULineage
<1> SUFFICES ASSUME UInit PROVE ULineage
  OBVIOUS
<1>1. Std!Init
  BY UInit1
<1>2. Std!Lineage /\ Std!ParentFirst
  BY <1>1, StdAssumptions, Std!LineageInit
<1>. QED  BY <1>2, UIdsInit, SameMeaning DEF ULineage, ParentFirst, Std!ParentFirst

(***************************************************************************)
(* The parent of a node precedes it in the io_uring backend's arena too,   *)
(* where the ids of a directory's entries are taken at once                *)
(* (internal.rs:354): the fold that assemble ends with needs no other.     *)
(***************************************************************************)
THEOREM UringParentsComeFirst == USpec => []ParentFirst
<1>1. ULineage /\ [UNext]_uvars => ULineage'
  BY UIdsStep, ULineageStep, UParentFirstStep DEF ULineage
<1>2. ULineage => ParentFirst
  BY DEF ULineage
<1>. QED  BY ULineageInit, <1>1, <1>2, PTL DEF USpec

-----------------------------------------------------------------------------
(* The directories the workers hold.                                       *)

\* All directories queued, in hand or gathered are in K.
ItemsIn(K) ==
  \A u \in Workers : deque[u] \in Seq(K) /\ item[u] \in K /\ childdirs[u] \in Seq(K)

LEMMA ItemsInMeans ==
  ASSUME NEW K, ItemsIn(K), NEW u \in Workers
  PROVE  ToSet(deque[u]) \subseteq K /\ item[u] \in K /\ ToSet(childdirs[u]) \subseteq K
<1>1. deque[u] \in Seq(K) /\ childdirs[u] \in Seq(K) /\ item[u] \in K
  BY DEF ItemsIn
<1>. QED  BY <1>1, ToSetOfSeq

\* A step of the std backend moves directories, between a worker and its end
\* of a deque, but has none that is new besides a worker's RootItem.
LEMMA StdItems ==
  ASSUME UInv, NEW K, ItemsIn(K), RootItem \in K, [Std!Next]_Std!vars
  PROVE  ItemsIn(K)'
<1>1. /\ deque \in [Workers -> Seq(Item)] /\ item \in [Workers -> Item]
      /\ childdirs \in [Workers -> Seq(Item)] /\ Std!TypeInv
      /\ \A t \in Workers : StdPc[t] # "stat"
  BY StdTypes, NobodyStats DEF UInv, UType, StdShapes, RingInv, RingTypeOK, UPc
<1>2. \A u \in Workers : deque[u] \in Seq(K) /\ item[u] \in K /\ childdirs[u] \in Seq(K)
  BY DEF ItemsIn
<1>3. \A u \in Workers : deque[u] # <<>> =>
        /\ Front(deque[u]) \in Seq(K) /\ Last(deque[u]) \in K
        /\ Tail(deque[u]) \in Seq(K) /\ Head(deque[u]) \in K
  BY <1>2, EndsOfSeq
<1>4. ASSUME NEW t \in Workers, Std!PopOwn(t) \/ Std!Steal(t) PROVE ItemsIn(K)'
  <2>1. /\ childdirs' = childdirs
        /\ \/ deque' = deque /\ item' = item
           \/ \E v \in Workers, x \in Item : Std!Takes(t, v, x)
    BY <1>1, <1>4, StdAssumptions, Std!LookingStep, SameMeaning
  <2>2. CASE deque' = deque /\ item' = item
    BY <1>2, <2>1, <2>2 DEF ItemsIn
  <2>3. ASSUME NEW v \in Workers, NEW x \in Item, Std!Takes(t, v, x) PROVE ItemsIn(K)'
    <3>1. Std!Last(deque[v]) = Last(deque[v]) /\ Std!Front(deque[v]) = Front(deque[v])
      BY DEF Last, Std!Last, Front, Std!Front
    <3>2. /\ deque[v] # <<>> /\ item' = [item EXCEPT ![t] = x]
          /\ \/ x = Last(deque[v]) /\ deque' = [deque EXCEPT ![v] = Front(deque[v])]
             \/ x = Head(deque[v]) /\ deque' = [deque EXCEPT ![v] = Tail(deque[v])]
      BY <2>3, <3>1 DEF Std!Takes
    <3>. QED  BY <1>1, <1>2, <1>3, <2>1, <3>2 DEF ItemsIn
  <2>. QED  BY <2>1, <2>2, <2>3
<1>5. ASSUME NEW t \in Workers, Std!PushChildren(t) PROVE ItemsIn(K)'
  <2>1. deque[t] \o childdirs[t] \in Seq(K)
    BY <1>2, ConcatProperties
  <2>. QED  BY <1>1, <1>2, <1>5, <2>1 DEF Std!PushChildren, Std!PushTo, ItemsIn
<1>6. ASSUME NEW t \in Workers, Std!AddActive(t) PROVE ItemsIn(K)'
  BY <1>1, <1>2, <1>6, EmptySeq DEF Std!AddActive, ItemsIn
<1>7. ASSUME NEW t \in Workers, Std!SubActive(t) PROVE ItemsIn(K)'
  BY <1>1, <1>2, <1>7, SameMeaning DEF Std!SubActive, ItemsIn
<1>8. ASSUME NEW t \in Workers,
             \/ Std!CheckActive(t) \/ Std!OpenDir(t) \/ Std!SkipEntry(t) \/ Std!AllocId(t)
             \/ Std!Publish(t)
      PROVE  ItemsIn(K)'
  BY <1>2, <1>8 DEF Std!CheckActive, Std!OpenDir, Std!SkipEntry, Std!AllocId, Std!Publish,
                    Std!shared, ItemsIn
<1>9. ASSUME NEW t \in Workers, Std!StatOk(t) \/ Std!StatErr(t) \/ Std!NoStatProbe(t) PROVE FALSE
  BY <1>1, <1>9 DEF Std!StatOk, Std!StatErr, Std!NoStatProbe
<1>10. CASE Std!Assemble
  BY <1>2, <1>10 DEF Std!Assemble, Std!worker, ItemsIn
<1>11. CASE UNCHANGED Std!vars
  BY <1>2, <1>11 DEF Std!vars, Std!shared, Std!worker, ItemsIn
<1>. QED
  BY <1>4, <1>5, <1>6, <1>7, <1>8, <1>9, <1>10, <1>11, SameMeaning
  DEF Std!Next, Std!WorkerStep, Std!Terminated

LEMMA OpensItems ==
  ASSUME NEW K, ItemsIn(K), NEW t, NEW k, Opens(t, k)
  PROVE  ItemsIn(K)'
BY DEF Opens, ItemsIn

LEMMA FillsItems ==
  ASSUME UInv, NEW K, ItemsIn(K), NEW t \in Workers, NEW i, NEW s, Fills(t, i, s),
         Descends(t, Meta[batch[t].rl[i].entry]) => ChildAt(t, i) \in K
  PROVE  ItemsIn(K)'
<1>1. /\ UNCHANGED <<deque, item>>
      /\ \/ childdirs' = childdirs
         \/ /\ Descends(t, Meta[batch[t].rl[i].entry])
            /\ childdirs' = [childdirs EXCEPT ![t] = Append(@, ChildAt(t, i))]
  BY DEF Fills
<1>2. \A u \in Workers : deque[u] \in Seq(K) /\ item[u] \in K /\ childdirs[u] \in Seq(K)
  BY DEF ItemsIn
<1>3. CASE childdirs' = childdirs
  BY <1>1, <1>2, <1>3 DEF ItemsIn
<1>4. CASE childdirs' # childdirs
  <2>1. ChildAt(t, i) \in K
    BY <1>1, <1>4
  <2>2. Append(childdirs[t], ChildAt(t, i)) \in Seq(K)
    BY <1>2, <2>1, AppendProperties
  <2>3. childdirs \in [Workers -> Seq(Item)]
    BY StdTypes DEF UInv, UType, StdShapes
  <2>. QED  BY <1>1, <1>2, <1>4, <2>2, <2>3 DEF ItemsIn
<1>. QED  BY <1>3, <1>4

\* While the workers are at work, a step of the std backend records nothing.
LEMMA StdRecordsStay ==
  ASSUME UInv, Std!IdInv, [Std!Next]_Std!vars, nodes' = <<>>
  PROVE  Std!Records' = Std!Records
<1>1. Std!TypeInv /\ Std!HandOver /\ \A t \in Workers : StdPc[t] # "stat"
  BY NobodyStats DEF UInv, UType, RingInv, RingTypeOK, UPc, Std!IdInv
<1>2. (\E t \in Workers : Std!WorkerStep(t)) \/ UNCHANGED Std!vars
  BY <1>1, StdAssumptions, Std!StillWalking, SameMeaning
<1>3. ASSUME NEW t \in Workers, Std!WorkerStep(t) PROVE Std!Records' = Std!Records
  <2>1. ~Std!StatOk(t) /\ ~Std!StatErr(t) /\ ~Std!NoStatProbe(t)
    BY <1>1 DEF Std!StatOk, Std!StatErr, Std!NoStatProbe
  <2>. QED  BY <1>1, <1>3, <2>1, StdAssumptions, Std!RecordsStay, SameMeaning DEF Std!WorkerStep
<1>4. CASE UNCHANGED Std!vars
  BY <1>4 DEF Std!vars, Std!shared, Std!worker, Std!Records, Std!Bucket
<1>. QED  BY <1>2, <1>3, <1>4

-----------------------------------------------------------------------------
(* Nothing is named after an entry whose result is still awaited.          *)

Unused(k) == ItemsIn({x \in Item : x.id # k}) /\ \A r \in Std!Records : r.parent # k

LEMMA UnusedStep ==
  ASSUME UIds, NEW k \in Nat \ {0}, Unused(k), [UNext]_uvars, nodes' = <<>>,
         \A t \in Workers : \A i, s : Fills(t, i, s) => batch[t].rl[i].id # k
  PROVE  Unused(k)'
<1> DEFINE K == {x \in Item : x.id # k}
<1>1. ItemsIn(K) /\ \A r \in Std!Records : r.parent # k
  BY DEF Unused
<1>2. UInv /\ Std!IdInv
  BY DEF UIds
<1>3. RootItem \in K
  BY FileTreeAssumption DEF RootItem, Item
<1>4. CASE [Std!Next]_Std!vars
  <2> HIDE DEF K
  <2>1. ItemsIn(K)'
    BY <1>1, <1>2, <1>3, <1>4, StdItems
  <2>2. Std!Records' = Std!Records
    BY <1>2, <1>4, StdRecordsStay
  <2>. QED  BY <1>1, <2>1, <2>2 DEF Unused, K
<1>5. ASSUME NEW t \in Workers, NEW n \in Nat, Opens(t, n) PROVE Unused(k)'
  <2>1. item[t].id # k
    BY <1>1 DEF ItemsIn
  <2>2. Std!Records' = Std!Records \cup {OpenedRec(t, j) : j \in 1 .. n}
    BY <1>2, <1>5, OpensRecords
  <2>3. \A r \in Std!Records' : r.parent # k
    BY <1>1, <2>1, <2>2 DEF OpenedRec
  <2> HIDE DEF K
  <2>4. ItemsIn(K)'
    BY <1>1, <1>5, OpensItems
  <2>. QED  BY <2>3, <2>4 DEF Unused, K
<1>6. ASSUME NEW t \in Workers, NEW i \in Nat, NEW s \in Nat, Fills(t, i, s) PROVE Unused(k)'
  <2> DEFINE old == batch[t].rl[i]
             new == batch'[t].rl[i]
  <2>1. /\ Std!Records' = (Std!Records \ {old}) \cup {new} /\ old \in Std!Records
        /\ new.parent = old.parent
    BY <1>2, <1>6, FillsRecords DEF UIds, RlKept
  <2> HIDE DEF old, new
  <2>2. \A r \in Std!Records' : r.parent # k
    BY <1>1, <2>1
  <2>3. ChildAt(t, i) \in K
    BY <1>2, <1>6, FillsItem, FillsChild
  <2> HIDE DEF K
  <2>4. ItemsIn(K)'
    BY <1>1, <1>2, <1>6, <2>3, FillsItems
  <2>. QED  BY <2>2, <2>4 DEF Unused, K
<1>. QED  BY <1>2, <1>4, <1>5, <1>6, UStep

Unclaimed ==
  nodes = <<>> =>
    \A t \in Workers : \A i \in 1 .. Len(batch[t].rl) :
      Waits(batch[t], i) => Unused(batch[t].rl[i].id)

\* A filled entry waits no longer, and all others still do.
LEMMA FillsWaits ==
  ASSUME UInv, NEW t \in Workers, NEW i, NEW s, Fills(t, i, s)
  PROVE  /\ ~Waits(batch'[t], i) /\ Waits(batch[t], i)
         /\ \A j \in Nat \ {i} : Waits(batch'[t], j) <=> Waits(batch[t], j)
<1> DEFINE b == batch[t]
           c == batch'[t]
<1>1. /\ s \in Slot \ Free(b) /\ b.slot_entry[s] = i /\ pc[t] = "comp"
      /\ Free(c) = Free(b) \cup {s} /\ c.slot_entry = b.slot_entry /\ c.next = b.next
  BY DEF Fills
<1>2. WorkerRing(t) /\ b \in BatchType /\ ring[t] \in RingType \cup {NoRing}
  BY DEF UInv, RingInv, RingTypeOK
<1>3. OneEntry(ring[t], b)
  <2>1. Ready(t)
    BY <1>1, <1>2 DEF WorkerRing, RingFirst, Ready
  <2>. QED  BY <1>2, <2>1 DEF WorkerRing, SlotsKept
<1>4. /\ \A u \in Slot \ Free(b) : b.slot_entry[u] \in 1 .. b.next
      /\ \A u, v \in Slot \ Free(b) : b.slot_entry[u] = b.slot_entry[v] => u = v
  BY <1>3 DEF OneEntry
<1>5. b.next \in Nat
  BY <1>2 DEF BatchType
<1> HIDE DEF b, c
<1>6. ~Waits(c, i) /\ Waits(b, i)
  BY <1>1, <1>4, <1>5 DEF Waits
<1>7. \A j \in Nat \ {i} : Waits(c, j) <=> Waits(b, j)
  BY <1>1, <1>4, <1>5 DEF Waits
<1>. QED  BY <1>6, <1>7 DEF b, c

LEMMA UnclaimedStep ==
  ASSUME UIds, Std!Lineage, Unclaimed, UIds', Std!Lineage', [UNext]_uvars
  PROVE  Unclaimed'
<1> SUFFICES ASSUME nodes' = <<>>, NEW u \in Workers, NEW i \in 1 .. Len(batch'[u].rl),
                    Waits(batch'[u], i), NEW n, n = batch'[u].rl[i].id
             PROVE  Unused(n)'
  BY DEF Unclaimed, Unused, ItemsIn
<1>1. UInv /\ Std!IdInv /\ \A t \in Workers : RlKept(t)
  BY DEF UIds
<1>2. \A t \in Workers : Len(batch[t].rl) \in Nat
  BY <1>1, StdRecords
<1>3. \A t \in Workers : \A j \in 1 .. Len(batch[t].rl) : nodes = <<>> => batch[t].rl[j].id \in Nat \ {0}
  BY <1>1, LocalIsRecord, StdDense
<1>4. ASSUME nodes = <<>>, i \in 1 .. Len(batch[u].rl), Waits(batch[u], i),
             batch'[u].rl[i].id = batch[u].rl[i].id,
             \A s : ~Fills(u, i, s)
      PROVE  Unused(n)'
  <2>1. PICK k \in Nat \ {0} : k = batch[u].rl[i].id
    BY <1>3, <1>4
  <2>2. Unused(k)
    BY <1>4, <2>1 DEF Unclaimed
  <2>3. ASSUME NEW t \in Workers, NEW j, NEW s, Fills(t, j, s) PROVE batch[t].rl[j].id # k
    <3>1. j \in 1 .. Len(batch[t].rl)
      BY <2>3 DEF Fills
    <3>2. CASE t = u
      BY <1>1, <1>4, <2>1, <2>3, <3>1, <3>2 DEF RlKept, RlDistinct
    <3>3. CASE t # u
      <4>1. batch[t].rl[j] \in Std!Bucket(t) /\ batch[u].rl[i] \in Std!Bucket(u)
        BY <1>1, <1>4, <3>1, LocalIsRecord
      <4>. QED  BY <1>1, <1>4, <2>1, <3>3, <4>1, StdDense
    <3>. QED  BY <3>2, <3>3
  <2>4. Unused(k)'
    BY <2>2, <2>3, UnusedStep
  <2>5. k = n
    BY <1>4, <2>1
  <2>. QED  BY <2>4, <2>5
<1>5. ASSUME NEW k \in Nat, Opens(u, k) PROVE Unused(n)'
  <2>1. /\ nodes = <<>> /\ UNCHANGED <<deque, item, childdirs>>
        /\ Len(batch'[u].rl) = k /\ \A j \in 1 .. k : batch'[u].rl[j] = OpenedRec(u, j)
    BY <1>5 DEF Opens
  <2>2. counter \in Nat
    BY <1>1, StdTypes DEF UInv, UType, StdShapes
  <2>3. i \in 1 .. k /\ n = counter + i - 1
    <3>1. i \in 1 .. k
      BY <2>1
    <3>2. OpenedRec(u, i).id = counter + i - 1
      BY DEF OpenedRec
    <3>. QED  BY <2>1, <3>1, <3>2
  <2>4. n \in Nat /\ n >= counter
    BY <2>2, <2>3
  <2>5. \A x \in Std!NamedItem : x.id # n
    <3>1. Std!TypeInv /\ Std!NoHole
      BY <1>1, <2>1 DEF Std!IdInv, Std!ArenaDense
    <3>2. \A x \in Std!NamedItem : x.id \in 0 .. counter - 1
      BY <3>1, StdAssumptions, Std!NamedBelowCounter
    <3>. QED  BY <2>2, <2>4, <3>2
  <2>6. Std!NamedItem \subseteq {x \in Item : x.id # n}
    BY <2>5, SameMeaning DEF Std!NamedItem
  <2>7. \A t \in Workers : /\ deque[t] \in Seq(Std!NamedItem) /\ item[t] \in Std!NamedItem
                           /\ childdirs[t] \in Seq(Std!NamedItem)
    BY <2>1, SameMeaning DEF Std!Lineage, Std!ItemsNamed
  <2>8. \A t \in Workers : /\ deque'[t] \in Seq({x \in Item : x.id # n})
                           /\ item'[t] \in {x \in Item : x.id # n}
                           /\ childdirs'[t] \in Seq({x \in Item : x.id # n})
    <3> DEFINE K == {x \in Item : x.id # n}
    <3>1. Std!NamedItem \subseteq K
      BY <2>6
    <3> HIDE DEF K
    <3>2. \A t \in Workers : deque[t] \in Seq(K) /\ item[t] \in K /\ childdirs[t] \in Seq(K)
      BY <2>7, <3>1, SeqMonotonic
    <3>. QED  BY <2>1, <3>2 DEF K
  <2>9. \A r \in Std!Records' : r.parent # n
    <3>1. Std!Records' = Std!Records \cup {OpenedRec(u, j) : j \in 1 .. k}
      BY <1>1, <1>5, OpensRecords
    <3>2. \A r \in Std!Records : r.id \in 1 .. counter - 1 /\ r.parent < r.id /\ r.parent \in Nat
      <4>1. \A r \in Std!Records : r.id \in 1 .. counter - 1
        BY <1>1, <2>1, StdDense
      <4>2. \A r \in Std!Records : r.parent < r.id
        BY <2>1, SameMeaning DEF Std!Lineage, Std!ParentNamed
      <4>3. Std!Records \subseteq Rec
        <5>1. StdLocal \in [Workers -> SUBSET Rec] /\ recs \in [Workers -> SUBSET Rec]
          BY <1>1, StdTypes DEF UInv, UType, StdShapes
        <5>. QED  BY <5>1, SameMeaning DEF Std!Records, Std!Bucket
      <4>. QED  BY <4>1, <4>2, <4>3 DEF Rec
    <3>3. item[u].id # n
      BY <2>5, <2>7
    <3>4. \A r \in Std!Records : r.parent # n
      BY <2>2, <2>4, <3>2
    <3>. QED  BY <3>1, <3>3, <3>4 DEF OpenedRec
  <2>. QED  BY <2>4, <2>8, <2>9 DEF Unused, ItemsIn
<1>6. ASSUME NEW j, NEW s, Fills(u, j, s) PROVE Unused(n)'
  <2>1. /\ nodes = <<>> /\ Len(batch'[u].rl) = Len(batch[u].rl)
        /\ j \in 1 .. Len(batch[u].rl)
        /\ \A l \in 1 .. Len(batch[u].rl) : l # j => batch'[u].rl[l] = batch[u].rl[l]
    BY <1>6 DEF Fills
  <2>2. i # j /\ Waits(batch[u], i)
    BY <1>1, <1>2, <1>6, <2>1, FillsWaits
  <2>3. ASSUME NEW r, Fills(u, i, r) PROVE FALSE
    BY <1>1, <1>2, <2>1, <2>2, <2>3, FillsWaits
  <2>. QED  BY <1>4, <2>1, <2>2, <2>3
<1>7. CASE GoesOn(u)
  <2>1. i \in Nat /\ batch'[u].rl = batch[u].rl /\ Waits(batch[u], i) /\ i \in 1 .. Len(batch[u].rl)
    <3>1. batch'[u].rl = batch[u].rl
      BY <1>7 DEF GoesOn
    <3>2. i \in Nat
      BY <1>2, <3>1
    <3>. QED  BY <1>7, <3>1, <3>2 DEF GoesOn
  <2>2. ASSUME NEW s, Fills(u, i, s) PROVE FALSE
    BY <1>1, <1>7, <2>1, <2>2, FillsWaits DEF GoesOn
  <2>3. nodes = <<>>
    <3>1. CASE nodes' = nodes
      BY <3>1
    <3>2. CASE nodes' # nodes
      <4>1. [Std!Next]_Std!vars
        BY <1>1, <3>2, UStep DEF Opens, Fills
      <4>. QED  BY <1>1, <4>1, StdAssumptions, Std!StillWalking DEF Std!IdInv
    <3>. QED  BY <3>1, <3>2
  <2>. QED  BY <1>4, <2>1, <2>2, <2>3
<1>8. CASE batch'[u].rl = <<>>
  BY <1>8, EmptySeq
<1>9. CASE OpenAt(u)
  BY <1>1, <1>5, <1>9, OpenAtOpens
<1>10. CASE Handle(u)
  BY <1>1, <1>6, <1>10, HandleFills
<1>. QED  BY <1>1, <1>7, <1>8, <1>9, <1>10, BatchStep DEF Closes

-----------------------------------------------------------------------------
(* The directories the workers hold are distinct, and on the root's        *)
(* device.                                                                 *)

\* The two packings of a device agree on the minor numbers of major 0, and
\* only there does the one give what the other gave the root.
LEMMA SameDevice ==
  ASSUME NEW dev \in Nat, NEW r \in Nat, r < StatxMinors
  PROVE  /\ StatxDev(dev) = r => dev = r /\ dev < StMinors
         /\ dev = r /\ dev < StMinors => StatxDev(dev) = r
<1>1. StMinors \in Nat \ {0} /\ StatxMinors \in Nat \ {0} /\ StMinors <= StatxMinors
  BY UringAssumption, DeviceAssumption
<1>2. PICK q \in Nat : q = dev \div StMinors
  BY <1>1
<1>3. PICK m \in Nat : m = dev % StMinors
  BY <1>1
<1>4. m < StMinors /\ dev = StMinors * q + m
  BY <1>1, <1>2, <1>3
<1>5. StatxDev(dev) = q * StatxMinors + m
  BY <1>2, <1>3 DEF StatxDev
<1>6. q >= 1 => q * StatxMinors >= StatxMinors /\ StMinors * q >= StMinors
  BY <1>1
<1>7. q = 0 => q * StatxMinors = 0 /\ StMinors * q = 0
  BY <1>1
<1>8. q * StatxMinors \in Nat /\ StMinors * q \in Nat
  BY <1>1
<1>9. PICK a \in Nat : a = q * StatxMinors
  BY <1>8
<1>10. PICK b \in Nat : b = StMinors * q
  BY <1>8
<1>11. CASE q = 0
  BY <1>1, <1>4, <1>5, <1>7, <1>9, <1>10, <1>11
<1>12. CASE q >= 1
  BY <1>1, <1>4, <1>5, <1>6, <1>9, <1>10, <1>12
<1>. QED  BY <1>11, <1>12

OnRootsDevice(d) == cfg.one_fs /\ d # Root => Meta[d].dev = root_dev /\ Meta[d].dev < StMinors

SafeItem == {x \in Item : x.depth = Depth[x.dir] /\ OnRootsDevice(x.dir)}

UReached == ItemsIn(SafeItem) /\ root_dev < StatxMinors

LEMMA UConfigStays ==
  ASSUME UInv, [UNext]_uvars
  PROVE  cfg' = cfg /\ root_dev' = root_dev /\ SafeItem' = SafeItem
<1>1. ASSUME [Std!Next]_Std!vars PROVE cfg' = cfg /\ root_dev' = root_dev
  <2>1. ASSUME NEW t \in Workers, Std!WorkerStep(t) PROVE cfg' = cfg /\ root_dev' = root_dev
    BY <2>1, StdAssumptions, Std!ConfigStays, SameMeaning
  <2>2. ASSUME Std!Assemble PROVE cfg' = cfg /\ root_dev' = root_dev
    BY <2>2 DEF Std!Assemble
  <2>3. ASSUME UNCHANGED Std!vars PROVE cfg' = cfg /\ root_dev' = root_dev
    BY <2>3 DEF Std!vars, Std!shared
  <2>4. Std!Terminated => UNCHANGED Std!vars
    BY DEF Std!Terminated
  <2>5. Std!Next \/ UNCHANGED Std!vars
    BY <1>1
  <2>. QED  BY <2>1, <2>2, <2>3, <2>4, <2>5, SameMeaning DEF Std!Next
<1>2. cfg' = cfg /\ root_dev' = root_dev
  BY <1>1, UStep DEF Opens, Fills
<1>. QED  BY <1>2 DEF SafeItem, OnRootsDevice

\* The entry of a record that is filled in.
LEMMA FilledEntry ==
  ASSUME UIds, UReached, NEW t \in Workers, NEW i, NEW s, Fills(t, i, s)
  PROVE  LET e == batch[t].rl[i].entry IN
         /\ e \in Entry /\ e # Root /\ Depth[e] = item[t].depth + 1 /\ Meta[e] \in MetaType
         /\ OnRootsDevice(e) <=> (cfg.one_fs => StatxDev(Meta[e].dev) = root_dev)
<1> DEFINE e == batch[t].rl[i].entry
<1>1. i \in 1 .. Len(batch[t].rl) /\ e \in Entry
  BY DEF Fills
<1>2. e \in Children(item[t].dir)
  BY <1>1 DEF UIds, RlKept, RlOfDir
<1>3. item[t] \in Item /\ item[t].depth = Depth[item[t].dir]
  BY DEF UReached, ItemsIn, SafeItem
<1>4. e # Root /\ Depth[e] = item[t].depth + 1
  BY <1>2, <1>3, StdAssumptions, Std!ChildLevel, SameMeaning DEF Item
<1>5. Meta[e] \in MetaType /\ Meta[e].dev \in Nat
  BY <1>1, FileTreeAssumption DEF MetaType
<1>6. root_dev \in Nat /\ root_dev < StatxMinors
  BY StdTypes DEF UIds, UInv, UType, StdShapes, UReached
<1> HIDE DEF e
<1>7. StatxDev(Meta[e].dev) = root_dev <=> Meta[e].dev = root_dev /\ Meta[e].dev < StMinors
  BY <1>5, <1>6, SameDevice
<1>8. OnRootsDevice(e) <=> (cfg.one_fs => StatxDev(Meta[e].dev) = root_dev)
  BY <1>4, <1>7 DEF OnRootsDevice
<1>. QED  BY <1>1, <1>4, <1>5, <1>8 DEF e

LEMMA UReachedStep ==
  ASSUME UIds, UReached, [UNext]_uvars
  PROVE  UReached'
<1>1. UInv
  BY DEF UIds
<1>2. root_dev' = root_dev /\ SafeItem' = SafeItem
  BY <1>1, UConfigStays
<1>3. PICK K : K = SafeItem
  OBVIOUS
<1>4. ItemsIn(K)
  BY <1>3 DEF UReached
<1>5. RootItem \in K
  BY <1>3, FileTreeAssumption, TreeAssumption DEF SafeItem, OnRootsDevice, RootItem, Item
<1>6. ItemsIn(K)'
  <2>1. CASE [Std!Next]_Std!vars
    BY <1>1, <1>4, <1>5, <2>1, StdItems
  <2>2. ASSUME NEW t \in Workers, NEW k \in Nat, Opens(t, k) PROVE ItemsIn(K)'
    BY <1>4, <2>2, OpensItems
  <2>3. ASSUME NEW t \in Workers, NEW i \in Nat, NEW s \in Nat, Fills(t, i, s) PROVE ItemsIn(K)'
    <3>1. Descends(t, Meta[batch[t].rl[i].entry]) => ChildAt(t, i) \in K
      <4>1. /\ ChildAt(t, i) \in Item
            /\ ChildAt(t, i).dir = batch[t].rl[i].entry
            /\ ChildAt(t, i).depth = item[t].depth + 1
        BY <1>1, <2>3, FillsItem
      <4>. QED  BY <1>3, <2>3, <4>1, FilledEntry DEF Descends, SafeItem
    <3>. QED  BY <1>1, <1>4, <2>3, <3>1, FillsItems
  <2>. QED  BY <1>1, <2>1, <2>2, <2>3, UStep
<1>7. ItemsIn(SafeItem)'
  BY <1>2, <1>3, <1>6 DEF ItemsIn
<1>. QED  BY <1>2, <1>7 DEF UReached

LEMMA SafeIsReached ==
  ASSUME UReached
  PROVE  Std!ItemsReached
<1> DEFINE R == Std!ReachedItem
<1>1. SafeItem \subseteq R
  BY SameMeaning DEF SafeItem, OnRootsDevice, Std!ReachedItem, Std!Enterable
<1> HIDE DEF R
<1>2. \A u \in Workers : deque[u] \in Seq(R) /\ item[u] \in R /\ childdirs[u] \in Seq(R)
  BY <1>1, SeqMonotonic DEF UReached, ItemsIn
<1>. QED  BY <1>2, SameMeaning DEF Std!ItemsReached, R

LEMMA OpensApart ==
  ASSUME UInv, Std!Apart, Std!GatheredWhileReading, NEW t \in Workers, NEW k, Opens(t, k)
  PROVE  Std!Apart' /\ Std!GatheredWhileReading'
<1>1. /\ StdPc[t] = "guard" /\ StdPc' = [StdPc EXCEPT ![t] = "entry"]
      /\ UNCHANGED <<deque, item, childdirs>>
  BY DEF Opens
<1>2. StdPc \in [Workers -> Pc]
  BY StdTypes DEF UInv, UType, StdShapes
<1>3. \A u \in Workers : /\ Std!Busy(u)' <=> Std!Busy(u)
                         /\ StdPc'[u] # "add" <=> StdPc[u] # "add"
  BY <1>1, <1>2 DEF Std!Busy
<1>4. Std!Apart'
  BY <1>1, <1>3, SameMeaning DEF Std!Apart
<1>5. Std!GatheredWhileReading'
  BY <1>1, <1>2, SameMeaning DEF Std!GatheredWhileReading
<1>. QED  BY <1>4, <1>5

LEMMA FillsApart ==
  ASSUME UIds, Unclaimed, Std!Apart, Std!GatheredWhileReading,
         NEW t \in Workers, NEW i, NEW s, Fills(t, i, s)
  PROVE  Std!Apart' /\ Std!GatheredWhileReading'
<1> DEFINE c == ChildAt(t, i)
<1>1. /\ StdPc[t] = "entry" /\ StdPc' = StdPc /\ nodes = <<>> /\ UNCHANGED <<deque, item>>
      /\ i \in 1 .. Len(batch[t].rl)
      /\ childdirs' = childdirs \/ childdirs' = [childdirs EXCEPT ![t] = Append(@, c)]
  BY DEF Fills
<1>2. UInv /\ c \in Item /\ c.id = batch[t].rl[i].id
  BY FillsItem, FillsChild DEF UIds
<1>3. /\ deque \in [Workers -> Seq(Item)] /\ childdirs \in [Workers -> Seq(Item)]
  BY <1>2, StdTypes DEF UInv, UType, StdShapes
<1> HIDE DEF c
<1>4. Unused(c.id)
  BY <1>1, <1>2, FillsWaits DEF Unclaimed
<1>5. \A u \in Workers : c \notin ToSet(deque[u]) /\ c # item[u] /\ c \notin ToSet(childdirs[u])
  <2>1. ItemsIn({x \in Item : x.id # c.id})
    BY <1>4 DEF Unused
  <2>2. \A u \in Workers : /\ ToSet(deque[u]) \subseteq {x \in Item : x.id # c.id}
                           /\ item[u] \in {x \in Item : x.id # c.id}
                           /\ ToSet(childdirs[u]) \subseteq {x \in Item : x.id # c.id}
    BY <2>1, ItemsInMeans
  <2>. QED  BY <2>2
<1>6. /\ IsInjective(childdirs[t]) => IsInjective(Append(childdirs[t], c))
      /\ ToSet(Append(childdirs[t], c)) = ToSet(childdirs[t]) \cup {c}
  BY <1>2, <1>3, <1>5, AppendApart
<1>7. \A u \in Workers : Std!Busy(u)' <=> Std!Busy(u)
  BY <1>1 DEF Std!Busy
<1>8. \A u \in Workers : /\ IsInjective(childdirs[u]) => IsInjective(childdirs'[u])
                         /\ \/ ToSet(childdirs'[u]) = ToSet(childdirs[u])
                            \/ /\ u = t
                               /\ ToSet(childdirs'[u]) = ToSet(childdirs[u]) \cup {c}
  BY <1>1, <1>3, <1>6
<1>9. Std!Apart'
  <2>1. /\ \A u \in Workers : IsInjective(deque[u]) /\ IsInjective(childdirs[u])
        /\ \A u, v \in Workers : u # v =>
             /\ ToSet(deque[u]) \cap ToSet(deque[v]) = {}
             /\ ToSet(childdirs[u]) \cap ToSet(childdirs[v]) = {}
             /\ Std!Busy(u) /\ Std!Busy(v) => item[u] # item[v]
        /\ \A u, v \in Workers :
             /\ Std!Busy(u) => item[u] \notin ToSet(deque[v])
             /\ StdPc[v] # "add" => ToSet(childdirs[v]) \cap ToSet(deque[u]) = {}
             /\ StdPc[v] # "add" /\ Std!Busy(u) => item[u] \notin ToSet(childdirs[v])
    BY SameMeaning DEF Std!Apart
  <2>2. \A u, v \in Workers : u # v => ToSet(childdirs'[u]) \cap ToSet(childdirs'[v]) = {}
    BY <1>5, <1>8, <2>1
  <2>3. \A u, v \in Workers :
          StdPc[v] # "add" => ToSet(childdirs'[v]) \cap ToSet(deque[u]) = {}
    BY <1>5, <1>8, <2>1
  <2>4. \A u, v \in Workers :
          StdPc[v] # "add" /\ Std!Busy(u) => item[u] \notin ToSet(childdirs'[v])
    BY <1>5, <1>8, <2>1
  <2>5. \A u \in Workers : IsInjective(deque[u]) /\ IsInjective(childdirs'[u])
    BY <1>8, <2>1
  <2>. QED  BY <1>1, <1>7, <2>1, <2>2, <2>3, <2>4, <2>5, SameMeaning, Zenon DEF Std!Apart
<1>10. Std!GatheredWhileReading'
  <2>1. \A u \in Workers : StdPc[u] \notin {"entry", "stat", "add"} => childdirs'[u] = <<>>
    BY <1>1, <1>3, SameMeaning DEF Std!GatheredWhileReading
  <2>. QED  BY <1>1, <2>1, SameMeaning DEF Std!GatheredWhileReading
<1>. QED  BY <1>9, <1>10

UWalk == UIds /\ Std!Lineage /\ Unclaimed /\ UReached /\ Std!HeldInv /\ Std!NoWorkLeftBehind

LEMMA UWalkInit == UInit => UWalk
<1> SUFFICES ASSUME UInit PROVE UWalk
  OBVIOUS
<1>1. Std!Init /\ UIds
  BY UInit1, UIdsInit
<1>2. Std!Lineage /\ Std!HeldInv
  BY <1>1, StdAssumptions, Std!LineageInit, Std!HeldInit
<1>3. Unclaimed
  <2>1. \A t \in Workers : batch[t].rl = <<>>
    BY DEF UInit, EmptyBatch
  <2>. QED  BY <2>1, EmptySeq DEF Unclaimed
<1>4. UReached
  <2>1. RootItem \in SafeItem
    BY FileTreeAssumption, TreeAssumption DEF SafeItem, OnRootsDevice, RootItem, Item
  <2>2. /\ deque = [t \in Workers |-> IF t = 0 THEN <<RootItem>> ELSE <<>>]
        /\ item = [t \in Workers |-> RootItem] /\ childdirs = [t \in Workers |-> <<>>]
    BY DEF UInit, Init
  <2>3. ItemsIn(SafeItem)
    BY <2>1, <2>2, EmptySeq DEF ItemsIn
  <2>4. root_dev < StatxMinors
    <3>1. root_dev = Meta[Root].dev \/ root_dev = 0
      BY DEF UInit, Init
    <3>. QED  BY <3>1, FileTreeAssumption, UringAssumption, DeviceAssumption
  <2>. QED  BY <2>3, <2>4 DEF UReached
<1>5. Std!NoWorkLeftBehind
  BY <1>1 DEF Std!Init, Std!NoWorkLeftBehind
<1>. QED  BY <1>1, <1>2, <1>3, <1>4, <1>5 DEF UWalk

LEMMA UHeldStep ==
  ASSUME UWalk, UReached', [UNext]_uvars
  PROVE  Std!HeldInv' /\ Std!NoWorkLeftBehind'
<1>1. /\ UIds /\ UInv /\ Std!IdInv /\ Std!TypeInv /\ Std!Lineage /\ Unclaimed /\ UReached
      /\ Std!HeldInv /\ Std!NoWorkLeftBehind
  BY DEF UWalk, UIds, Std!IdInv
<1>2. CASE [Std!Next]_Std!vars
  BY <1>1, <1>2, StdAssumptions, Std!HeldStep, Std!NoWorkLeftBehindStep DEF Std!WalkInv
<1>3. Std!ItemsReached'
  BY SafeIsReached, PTL
<1>4. ASSUME NEW t \in Workers, NEW k \in Nat, Opens(t, k)
      PROVE  Std!HeldInv' /\ Std!NoWorkLeftBehind'
  <2>1. StdPc' = [StdPc EXCEPT ![t] = "entry"] /\ deque' = deque /\ nodes = <<>>
        /\ StdPc \in [Workers -> Pc]
    BY <1>1, <1>4, StdTypes DEF Opens, StdShapes
  <2>2. Std!NoWorkLeftBehind'
    BY <1>1, <2>1, SameMeaning DEF Std!NoWorkLeftBehind
  <2>3. Std!Apart' /\ Std!GatheredWhileReading'
    BY <1>1, <1>4, <2>1, OpensApart DEF Std!HeldInv
  <2>. QED  BY <1>3, <2>2, <2>3 DEF Std!HeldInv
<1>5. ASSUME NEW t \in Workers, NEW i \in Nat, NEW s \in Nat, Fills(t, i, s)
      PROVE  Std!HeldInv' /\ Std!NoWorkLeftBehind'
  <2>1. StdPc' = StdPc /\ deque' = deque /\ nodes = <<>>
    BY <1>5 DEF Fills
  <2>2. Std!NoWorkLeftBehind'
    BY <1>1, <2>1 DEF Std!NoWorkLeftBehind
  <2>3. Std!Apart' /\ Std!GatheredWhileReading'
    BY <1>1, <1>5, <2>1, FillsApart DEF Std!HeldInv
  <2>. QED  BY <1>3, <2>2, <2>3 DEF Std!HeldInv
<1>. QED  BY <1>1, <1>2, <1>4, <1>5, UStep

LEMMA UWalkStep == UWalk /\ [UNext]_uvars => UWalk'
<1> SUFFICES ASSUME UWalk, [UNext]_uvars PROVE UWalk'
  OBVIOUS
<1>1. UIds /\ Std!Lineage /\ Unclaimed /\ UReached
  BY DEF UWalk
<1>2. UIds' /\ Std!Lineage' /\ UReached'
  BY <1>1, UIdsStep, ULineageStep, UReachedStep
<1>3. Unclaimed'
  BY <1>1, <1>2, UnclaimedStep
<1>4. Std!HeldInv' /\ Std!NoWorkLeftBehind'
  BY <1>2, UHeldStep
<1>. QED  BY <1>2, <1>3, <1>4 DEF UWalk

-----------------------------------------------------------------------------
(* The directories that are listed.                                        *)

\* Only the ceiling and OpenAt take a directory in hand further.
LEMMA GuardStays ==
  ASSUME UInv, [UNext]_uvars, NEW u \in Workers, StdPc[u] = "guard", ~CheckLimits(u), ~OpenAt(u)
  PROVE  StdPc'[u] = "guard"
<1>1. pc \in [Workers -> UPc] /\ pc[u] \in {"guard", "open"}
  BY DEF UInv, RingInv, RingTypeOK, UPc, StdPc, Batching
<1>2. pc'[u] = pc[u] => StdPc'[u] = "guard"
  BY <1>1 DEF StdPc, Batching
<1>3. ASSUME NEW t \in Workers, GetDirectory(t) \/ FinishDirectory(t) PROVE pc'[u] = pc[u]
  BY <1>1, <1>3 DEF GetDirectory, PopOwn, Steal, CheckActive, FinishDirectory, PushChildren, PushTo,
                    AddActive, SubActive, Publish
<1>4. ASSUME NEW t \in Workers, Setup(t) \/ Enter(t) \/ Reap(t) \/ AllHandled(t) \/ CloseDir(t)
      PROVE  pc'[u] = pc[u]
  BY <1>1, <1>4 DEF Setup, Enter, Reap, AllHandled, CloseDir
<1>5. ASSUME NEW t \in Workers, Queue(t) \/ Complete(t) \/ Handle(t) PROVE pc'[u] = pc[u]
  BY <1>1, <1>5, Zenon DEF Queue, Complete, Handle, vars, worker
<1>6. ASSUME NEW t \in Workers, CheckLimits(t) \/ OpenAt(t) PROVE pc'[u] = pc[u]
  <2>1. t # u
    BY <1>6
  <2>. QED  BY <1>1, <1>6, <2>1 DEF CheckLimits, OpenAt
<1>7. ASSUME Assemble /\ UNCHANGED uring PROVE pc'[u] = pc[u]
  BY <1>1, <1>7 DEF Assemble, worker
<1>8. ASSUME UNCHANGED uvars PROVE pc'[u] = pc[u]
  BY <1>1, <1>8 DEF uvars, vars, worker
<1>. QED  BY <1>2, <1>3, <1>4, <1>5, <1>6, <1>7, <1>8 DEF UNext, UWorkerStep, Stopped

\* Worker t has directory d to read, or to hand on.
Owing(t, d) ==
  \/ \E x \in ToSet(deque[t]) : x.dir = d
  \/ StdPc[t] = "guard" /\ item[t].dir = d
  \/ StdPc[t] # "add" /\ \E x \in ToSet(childdirs[t]) : x.dir = d

\* Worker t awaits the result that tells whether to enter d.
Awaiting(t, d) == \E i \in 1 .. Len(batch[t].rl) : Waits(batch[t], i) /\ batch[t].rl[i].entry = d

\* A step of the std backend but for reading a directory.
LEMMA StdOwing ==
  ASSUME UWalk, [Std!Next]_Std!vars, nodes' = <<>>,
         \A u \in Workers : StdPc[u] = "guard" => StdPc'[u] = "guard",
         NEW t \in Workers, NEW d, Owing(t, d)
  PROVE  \E u \in Workers : Owing(u, d)'
<1>1. /\ deque \in [Workers -> Seq(Item)] /\ item \in [Workers -> Item]
      /\ childdirs \in [Workers -> Seq(Item)] /\ Std!TypeInv /\ StdPc \in [Workers -> Pc]
      /\ \A w \in Workers : StdPc[w] # "stat" /\ todo[w] = <<>>
  BY StdTypes, NobodyStats
     DEF UWalk, UIds, UInv, UType, NoTodo, StdShapes, RingInv, RingTypeOK, UPc
<1>2. nodes = <<>> /\ ((\E w \in Workers : Std!WorkerStep(w)) \/ UNCHANGED Std!vars)
  BY <1>1, StdAssumptions, Std!StillWalking, SameMeaning
<1>3. Std!Apart
  BY <1>2 DEF UWalk, Std!HeldInv
<1>4. ASSUME NEW w \in Workers, Std!PopOwn(w) \/ Std!Steal(w)
      PROVE  \E u \in Workers : Owing(u, d)'
  <2>1. /\ StdPc[w] \in {"own", "steal"} /\ childdirs' = childdirs
        /\ \/ deque' = deque /\ item' = item /\ StdPc' = [StdPc EXCEPT ![w] = "steal"]
           \/ \E v \in Workers, x \in Item : Std!Takes(w, v, x)
    BY <1>1, <1>4, StdAssumptions, Std!LookingStep, SameMeaning
  <2>2. CASE deque' = deque /\ item' = item /\ StdPc' = [StdPc EXCEPT ![w] = "steal"]
    <3>1. Owing(t, d)'
      BY <1>1, <2>1, <2>2 DEF Owing
    <3>. QED  BY <3>1
  <2>3. ASSUME NEW v \in Workers, NEW x \in Item, Std!Takes(w, v, x)
        PROVE  \E u \in Workers : Owing(u, d)'
    <3>1. /\ ToSet(deque'[v]) = ToSet(deque[v]) \ {x}
          /\ \A u \in Workers \ {v} : deque'[u] = deque[u]
      BY <1>1, <1>3, <2>3, StdAssumptions, Std!TakesOne, SameMeaning
    <3>2. StdPc' = [StdPc EXCEPT ![w] = "guard"] /\ item' = [item EXCEPT ![w] = x]
      BY <2>3 DEF Std!Takes
    <3>3. CASE x.dir = d
      <4>1. Owing(w, d)'
        BY <1>1, <3>2, <3>3 DEF Owing
      <4>. QED  BY <4>1
    <3>4. CASE x.dir # d
      <4>1. (\E y \in ToSet(deque[t]) : y.dir = d) => \E y \in ToSet(deque'[t]) : y.dir = d
        BY <3>1, <3>4
      <4>2. StdPc[t] = "guard" => t # w
        BY <2>1
      <4>3. Owing(t, d)'
        BY <1>1, <2>1, <3>2, <4>1, <4>2 DEF Owing
      <4>. QED  BY <4>3
    <3>. QED  BY <3>3, <3>4
  <2>. QED  BY <2>1, <2>2, <2>3
<1>5. ASSUME NEW w \in Workers, Std!PushChildren(w) PROVE \E u \in Workers : Owing(u, d)'
  <2>1. /\ StdPc[w] = "entry" /\ StdPc' = [StdPc EXCEPT ![w] = "add"]
        /\ deque' = [deque EXCEPT ![w] = @ \o childdirs[w]] /\ UNCHANGED <<item, childdirs>>
    BY <1>5 DEF Std!PushChildren, Std!PushTo
  <2>2. ToSet(deque[w] \o childdirs[w]) = ToSet(deque[w]) \cup ToSet(childdirs[w])
    BY <1>1, JoinApart
  <2>3. /\ ToSet(deque'[w]) = ToSet(deque[w]) \cup ToSet(childdirs[w])
        /\ \A u \in Workers \ {w} : deque'[u] = deque[u]
    BY <1>1, <2>1, <2>2
  <2>4. Owing(t, d)'
    <3>1. CASE t = w
      BY <1>1, <2>1, <2>3, <3>1 DEF Owing
    <3>2. CASE t # w
      BY <1>1, <2>1, <2>3, <3>2 DEF Owing
    <3>. QED  BY <3>1, <3>2
  <2>. QED  BY <2>4
<1>6. ASSUME NEW w \in Workers, Std!AddActive(w) \/ Std!SubActive(w) \/ Std!CheckActive(w)
                                  \/ Std!Publish(w)
      PROVE  \E u \in Workers : Owing(u, d)'
  <2>1. /\ deque' = deque
        /\ StdPc[w] \in {"add", "sub", "steal", "publish"}
        /\ \E c \in {"sub", "own", "publish", "exit"} : StdPc' = [StdPc EXCEPT ![w] = c]
        /\ \A u \in Workers : u # w => item'[u] = item[u] /\ childdirs'[u] = childdirs[u]
        /\ StdPc[w] # "add" => childdirs'[w] = childdirs[w]
    BY <1>1, <1>6 DEF Std!AddActive, Std!SubActive, Std!CheckActive, Std!Publish, Std!shared
  <2>2. Owing(t, d)'
    BY <1>1, <2>1 DEF Owing
  <2>. QED  BY <2>2
<1>7. ASSUME NEW w \in Workers, Std!OpenDir(w) PROVE FALSE
  BY <1>1, <1>7 DEF Std!OpenDir
<1>8. ASSUME NEW w \in Workers, Std!SkipEntry(w) \/ Std!AllocId(w) PROVE FALSE
  BY <1>1, <1>8 DEF Std!SkipEntry, Std!AllocId
<1>9. ASSUME NEW w \in Workers, Std!StatOk(w) \/ Std!StatErr(w) \/ Std!NoStatProbe(w) PROVE FALSE
  BY <1>1, <1>9 DEF Std!StatOk, Std!StatErr, Std!NoStatProbe
<1>10. CASE UNCHANGED Std!vars
  <2>1. Owing(t, d)'
    BY <1>10 DEF Std!vars, Std!shared, Std!worker, Owing
  <2>. QED  BY <2>1
<1>. QED  BY <1>2, <1>4, <1>5, <1>6, <1>7, <1>8, <1>9, <1>10 DEF Std!WorkerStep

\* No step of the std backend that the io_uring backend takes gives ids out.
LEMMA StdCounter ==
  ASSUME UInv, [Std!Next]_Std!vars
  PROVE  counter' = counter
<1>1. \A w \in Workers : todo[w] = <<>>
  BY DEF UInv, UType, NoTodo
<1>2. ASSUME NEW w \in Workers, Std!WorkerStep(w) PROVE counter' = counter
  BY <1>1, <1>2 DEF Std!WorkerStep, Std!PopOwn, Std!Steal, Std!CheckActive, Std!OpenDir, Std!SkipEntry,
     Std!AllocId, Std!StatOk, Std!StatErr, Std!NoStatProbe, Std!FinishEntry, Std!PushChildren,
     Std!PushTo, Std!AddActive, Std!SubActive, Std!Publish, Std!shared
<1>3. ASSUME Std!Assemble PROVE counter' = counter
  BY <1>3 DEF Std!Assemble
<1>4. ASSUME UNCHANGED Std!vars PROVE counter' = counter
  BY <1>4 DEF Std!vars, Std!shared
<1>5. Std!Next \/ UNCHANGED Std!vars
  OBVIOUS
<1>6. Std!Terminated => UNCHANGED Std!vars
  BY DEF Std!Terminated
<1>. QED  BY <1>2, <1>3, <1>4, <1>5, <1>6, SameMeaning DEF Std!Next

LEMMA GoesOnAwaiting ==
  ASSUME UInv, NEW u \in Workers, GoesOn(u), NEW d, Awaiting(u, d)
  PROVE  Awaiting(u, d)'
<1>1. PICK i \in 1 .. Len(batch[u].rl) : Waits(batch[u], i) /\ batch[u].rl[i].entry = d
  BY DEF Awaiting
<1>2. i \in Nat
  BY StdRecords
<1>. QED  BY <1>1, <1>2 DEF GoesOn, Awaiting

\* The workers have met entry e.
Met(e) == e = Root \/ \E r \in Std!Records : r.entry = e

Dealt(d) == counter >= cfg.max_entries \/ \A e \in Children(d) : Met(e)

\* Each directory that should be listed is, or is yet to be.
NoneForgotten ==
  \A d \in Entry \ Flaky :
    Met(d) /\ ShouldEnter(d) =>
      Dealt(d) \/ \E t \in Workers : Owing(t, d) \/ Awaiting(t, d)

RightlyListed ==
  \A r \in Std!Records : \E d \in Entry : r.entry \in Children(d) /\ ShouldEnter(d)

Entering == nodes = <<>> => NoneForgotten /\ RightlyListed

LEMMA ShouldEnterIs ==
  ASSUME NEW d
  PROVE  ShouldEnter(d) <=> MayOpen(d) /\ Depth[d] < cfg.max_depth /\ OnRootsDevice(d)
BY DEF ShouldEnter, OnRootsDevice

LEMMA ShouldEnterStays ==
  ASSUME UInv, [UNext]_uvars, NEW d
  PROVE  ShouldEnter(d)' <=> ShouldEnter(d)
BY UConfigStays DEF ShouldEnter, MayOpen

LEMMA OpensBatch ==
  ASSUME UInv, NEW t \in Workers, OpenAt(t)
  PROVE  /\ batch[t].rl = <<>> /\ batch'[t].next = 0
         /\ \A u \in Workers \ {t} : batch'[u] = batch[u]
<1>1. RingTypeOK /\ item \in [Workers -> Item] /\ counter \in Nat \ {0} /\ WorkerRing(t)
      /\ RingFirst(t) /\ local \in [Workers -> SUBSET Rec]
  BY StdTypes DEF UInv, UType, StdShapes, RingInv, WorkerRing
<1>2. pc[t] = "open"
  BY DEF OpenAt
<1>3. batch[t].rl = <<>> /\ batch[t].next = 0 /\ batch \in [Workers -> BatchType]
  BY <1>1, <1>2 DEF WorkerRing, Batching, RingTypeOK
<1>4. \/ batch' = batch
      \/ \E n : batch' = [batch EXCEPT ![t] = OpenedBatch(batch[t], OpenedRl(t, n))]
  BY <1>1, OpenAtIs
<1>. QED  BY <1>3, <1>4 DEF OpenedBatch

\* What opening a directory leads to.
LEMMA OpensEntering ==
  ASSUME UWalk, Entering, [UNext]_uvars, NEW t \in Workers, NEW k \in Nat, Opens(t, k), OpenAt(t)
  PROVE  NoneForgotten' /\ RightlyListed'
<1> DEFINE dir == item[t].dir
           new == {OpenedRec(t, j) : j \in 1 .. k}
<1>1. /\ UInv /\ Std!IdInv /\ UReached
  BY DEF UWalk, UIds
<1>2. /\ nodes = <<>> /\ StdPc[t] = "guard" /\ k \in 0 .. Len(Listing[dir])
      /\ counter' = counter + k /\ StdPc' = [StdPc EXCEPT ![t] = "entry"]
      /\ Len(batch'[t].rl) = k /\ \A j \in 1 .. k : batch'[t].rl[j] = OpenedRec(t, j)
      /\ item[t].depth < cfg.max_depth /\ (k # 0 => MayOpen(dir))
      /\ MayOpen(dir) /\ dir \notin Flaky => k = Len(Listing[dir])
      /\ UNCHANGED <<cfg, deque, item, childdirs, local>>
  BY DEF Opens
<1>3. NoneForgotten /\ RightlyListed
  BY <1>2 DEF Entering
<1>4. /\ counter \in Nat /\ cfg.max_entries \in Nat /\ cfg.max_depth \in Nat
      /\ StdPc \in [Workers -> Pc]
  BY <1>1, StdTypes DEF UInv, UType, StdShapes, CfgType
<1>5. /\ dir \in Entry /\ item[t].depth = Depth[dir] /\ OnRootsDevice(dir)
  BY <1>1 DEF UReached, ItemsIn, SafeItem, Item
<1>6. Std!Records' = Std!Records \cup new
  BY <1>1, OpensRecords
<1>7. /\ Len(Listing[dir]) \in Nat /\ DOMAIN Listing[dir] = 1 .. Len(Listing[dir])
      /\ Children(dir) = {Listing[dir][j] : j \in 1 .. Len(Listing[dir])}
  <2>1. Listing[dir] \in Seq(Entry)
    BY <1>5, FileTreeAssumption
  <2>. QED  BY <2>1, LenProperties DEF Children
<1>8. \A j \in 1 .. k : OpenedRec(t, j).entry = Listing[dir][j] /\ Listing[dir][j] \in Children(dir)
  <2>1. \A j : OpenedRec(t, j).entry = Listing[dir][j]
    BY DEF OpenedRec
  <2>. QED  BY <1>2, <1>7, <2>1
<1>9. \A d : ShouldEnter(d)' <=> ShouldEnter(d)
  BY <1>1, ShouldEnterStays
<1> HIDE DEF new, dir
<1>10. RightlyListed'
  <2>1. ASSUME NEW r \in Std!Records'
        PROVE  \E d \in Entry : r.entry \in Children(d) /\ ShouldEnter(d)
    <3>1. CASE r \in Std!Records
      BY <1>3, <3>1 DEF RightlyListed
    <3>2. CASE r \in new
      <4>1. PICK j \in 1 .. k : r = OpenedRec(t, j)
        BY <3>2 DEF new
      <4>2. r.entry \in Children(dir)
        BY <1>8, <4>1
      <4>3. item[t].depth < cfg.max_depth /\ MayOpen(dir)
        BY <1>2, <4>1
      <4>4. ShouldEnter(dir)
        BY <1>5, <4>3, ShouldEnterIs
      <4>. QED  BY <1>5, <4>2, <4>4
    <3>. QED  BY <1>6, <3>1, <3>2
  <2>. QED  BY <1>9, <2>1 DEF RightlyListed
<1>11. \A e : Met(e) => Met(e)'
  BY <1>6 DEF Met
<1>12. ASSUME NEW e, Met(e)' PROVE Met(e) \/ \E j \in 1 .. k : e = Listing[dir][j]
  <2>1. CASE e = Root
    BY <2>1 DEF Met
  <2>2. CASE e # Root
    <3>1. PICK r \in Std!Records' : r.entry = e
      BY <1>12, <2>2 DEF Met
    <3>2. CASE r \in Std!Records
      BY <3>1, <3>2 DEF Met
    <3>3. CASE r \in new
      <4>1. PICK j \in 1 .. k : r = OpenedRec(t, j)
        BY <3>3 DEF new
      <4>. QED  BY <1>8, <3>1, <4>1
    <3>. QED  BY <1>6, <3>1, <3>2, <3>3
  <2>. QED  BY <2>1, <2>2
<1>13. /\ batch[t].rl = <<>> /\ batch'[t].next = 0
       /\ \A u \in Workers \ {t} : batch'[u] = batch[u]
  BY <1>1, OpensBatch
<1>14. ASSUME NEW d \in Entry \ Flaky, Met(d)', ShouldEnter(d)
       PROVE  Dealt(d)' \/ \E u \in Workers : Owing(u, d)' \/ Awaiting(u, d)'
  <2>1. Dealt(d) => Dealt(d)'
    <3>1. counter >= cfg.max_entries => counter' >= cfg'.max_entries
      BY <1>2, <1>4
    <3>. QED  BY <1>11, <3>1 DEF Dealt
  <2>2. CASE Met(d)
    <3>1. CASE Dealt(d)
      BY <2>1, <3>1
    <3>2. ASSUME NEW u \in Workers, Owing(u, d)
          PROVE  Dealt(d)' \/ Owing(u, d)'
      <4>1. CASE u = t /\ d = dir
        <5>1. MayOpen(dir) /\ dir \notin Flaky
          BY <1>14, <4>1, ShouldEnterIs
        <5>2. k = Len(Listing[dir])
          BY <1>2, <5>1
        <5>3. ASSUME NEW e \in Children(dir) PROVE Met(e)'
          <6>1. PICK j \in 1 .. k : e = Listing[dir][j]
            BY <1>7, <5>2
          <6>2. OpenedRec(t, j) \in Std!Records'
            BY <1>6 DEF new
          <6>. QED  BY <1>8, <6>1, <6>2 DEF Met
        <5>. QED  BY <4>1, <5>3 DEF Dealt
      <4>2. CASE ~(u = t /\ d = dir)
        <5>1. StdPc[u] = "guard" /\ item[u].dir = d => u # t
          BY <4>2 DEF dir
        <5>. QED  BY <1>2, <1>4, <3>2, <5>1 DEF Owing
      <4>. QED  BY <4>1, <4>2
    <3>3. ASSUME NEW u \in Workers, Awaiting(u, d) PROVE Awaiting(u, d)'
      <4>1. u # t
        BY <1>13, <3>3, EmptySeq DEF Awaiting
      <4>2. GoesOn(u)
        BY <1>2, <1>13, <4>1, SameBatchGoesOn
      <4>. QED  BY <1>1, <3>3, <4>2, GoesOnAwaiting
    <3>. QED  BY <1>3, <1>14, <2>2, <3>1, <3>2, <3>3 DEF NoneForgotten
  <2>3. CASE ~Met(d)
    <3>1. PICK j \in 1 .. k : d = Listing[dir][j]
      BY <1>12, <1>14, <2>3
    <3>2. j > batch'[t].next
      BY <1>13, <3>1
    <3>3. batch'[t].rl[j].entry = d
      BY <1>2, <1>8, <3>1
    <3>4. Awaiting(t, d)'
      BY <1>2, <3>1, <3>2, <3>3 DEF Awaiting, Waits
    <3>. QED  BY <3>4
  <2>. QED  BY <2>2, <2>3
<1>. QED  BY <1>9, <1>10, <1>14 DEF NoneForgotten

\* What looking at the limits leads to: a directory that is refused is one the
\* depth excludes, or the ceiling has been reached.
LEMMA LimitsEntering ==
  ASSUME UWalk, NEW t \in Workers, CheckLimits(t),
         NEW u \in Workers, NEW d, ShouldEnter(d), Owing(u, d)
  PROVE  Dealt(d) \/ Owing(u, d)'
<1>1. /\ UInv /\ UReached /\ pc \in [Workers -> UPc] /\ StdPc \in [Workers -> Pc]
      /\ counter \in Nat /\ cfg.max_entries \in Nat
  BY StdTypes DEF UWalk, UIds, UInv, UType, StdShapes, CfgType, RingInv, RingTypeOK, UPc
<1>2. UNCHANGED <<deque, item, childdirs>>
  BY DEF CheckLimits, shared
<1>3. CASE MayDescend(t)
  <2>1. StdPc' = StdPc
    BY <1>1, <1>3, CheckLimitsIsStd DEF Std!vars, Std!worker
  <2>. QED  BY <1>2, <2>1 DEF Owing
<1>4. CASE ~MayDescend(t)
  <2>1. StdPc[t] = "guard" /\ StdPc' = [StdPc EXCEPT ![t] = "entry"]
    BY <1>1, <1>4, CheckLimitsIsStd DEF Std!OpenDir
  <2>2. CASE u = t /\ item[t].dir = d
    <3>1. item[t].depth = Depth[d]
      BY <1>1, <2>2 DEF UReached, ItemsIn, SafeItem
    <3>2. item[t].depth < cfg.max_depth
      BY <3>1, ShouldEnterIs
    <3>3. counter >= cfg.max_entries
      BY <1>1, <1>4, <3>2 DEF MayDescend
    <3>. QED  BY <3>3 DEF Dealt
  <2>3. CASE ~(u = t /\ item[t].dir = d)
    BY <1>1, <1>2, <2>1, <2>3 DEF Owing
  <2>. QED  BY <2>2, <2>3
<1>. QED  BY <1>3, <1>4

\* What a completion leads to.
LEMMA FillsEntering ==
  ASSUME UWalk, Entering, [UNext]_uvars, NEW t \in Workers, NEW i \in Nat, NEW s \in Nat,
         Fills(t, i, s)
  PROVE  NoneForgotten' /\ RightlyListed'
<1> DEFINE old == batch[t].rl[i]
           new == batch'[t].rl[i]
           e == old.entry
<1>1. UInv /\ UIds /\ UReached /\ RlKept(t) /\ Std!IdInv
  BY DEF UWalk, UIds
<1>2. /\ nodes = <<>> /\ StdPc[t] = "entry" /\ StdPc' = StdPc
      /\ i \in 1 .. Len(batch[t].rl) /\ Len(batch'[t].rl) = Len(batch[t].rl)
      /\ \A j \in 1 .. Len(batch[t].rl) : j # i => batch'[t].rl[j] = batch[t].rl[j]
      /\ \A u \in Workers \ {t} : batch'[u] = batch[u]
      /\ UNCHANGED <<cfg, counter, deque, item, local>>
  BY DEF Fills
<1>3. NoneForgotten /\ RightlyListed
  BY <1>2 DEF Entering
<1>4. childdirs \in [Workers -> Seq(Item)] /\ \A u \in Workers : Len(batch[u].rl) \in Nat
  BY <1>1, StdTypes, StdRecords DEF UInv, UType, StdShapes
<1>5. \A d : ShouldEnter(d)' <=> ShouldEnter(d)
  BY <1>1, ShouldEnterStays
<1>6. /\ Std!Records' = (Std!Records \ {old}) \cup {new} /\ old \in Std!Records
      /\ new.entry = old.entry
  BY <1>1, FillsRecords DEF RlKept
<1>7. ChildAt(t, i) \in Item /\ ChildAt(t, i).dir = e
  BY <1>1, FillsItem
<1>8. \/ /\ e \in Flaky /\ childdirs' = childdirs
      \/ childdirs' = IF Descends(t, Meta[e])
                      THEN [childdirs EXCEPT ![t] = Append(@, ChildAt(t, i))]
                      ELSE childdirs
  BY DEF Fills
<1>9. ShouldEnter(e) => Descends(t, Meta[e])
  <2>1. /\ e # Root /\ Depth[e] = item[t].depth + 1
        /\ OnRootsDevice(e) <=> (cfg.one_fs => StatxDev(Meta[e].dev) = root_dev)
    BY <1>1, FilledEntry
  <2>. QED  BY <2>1, ShouldEnterIs DEF Descends, MayOpen
<1> HIDE DEF old, new, e
<1>10. RightlyListed'
  <2>1. ASSUME NEW r \in Std!Records'
        PROVE  \E d \in Entry : r.entry \in Children(d) /\ ShouldEnter(d)
    <3>1. PICK q \in Std!Records : q.entry = r.entry
      BY <1>6
    <3>. QED  BY <1>3, <3>1 DEF RightlyListed
  <2>. QED  BY <1>5, <2>1 DEF RightlyListed
<1>11. \A d : Met(d)' <=> Met(d)
  <2>1. ASSUME NEW d, Met(d) PROVE Met(d)'
    BY <1>6, <2>1 DEF Met
  <2>2. ASSUME NEW d, Met(d)' PROVE Met(d)
    BY <1>6, <2>2 DEF Met
  <2>. QED  BY <2>1, <2>2
<1>12. \A d : Dealt(d) => Dealt(d)'
  BY <1>2, <1>11 DEF Dealt
<1>13. /\ ToSet(Append(childdirs[t], ChildAt(t, i))) = ToSet(childdirs[t]) \cup {ChildAt(t, i)}
  BY <1>4, <1>7, AppendApart
<1>14. \A u \in Workers : ToSet(childdirs[u]) \subseteq ToSet(childdirs'[u])
  BY <1>4, <1>8, <1>13
<1>15. ASSUME NEW u \in Workers, NEW d, Owing(u, d) PROVE Owing(u, d)'
  BY <1>2, <1>14, <1>15 DEF Owing
<1>16. ASSUME NEW u \in Workers, NEW d \in Entry \ Flaky, ShouldEnter(d), Awaiting(u, d)
       PROVE  Owing(u, d)' \/ Awaiting(u, d)'
  <2>1. CASE u # t
    <3>1. GoesOn(u)
      BY <1>2, <2>1, SameBatchGoesOn
    <3>. QED  BY <1>1, <1>16, <3>1, GoesOnAwaiting
  <2>2. CASE u = t
    <3>1. PICK j \in 1 .. Len(batch[t].rl) : Waits(batch[t], j) /\ batch[t].rl[j].entry = d
      BY <1>16, <2>2 DEF Awaiting
    <3>2. CASE j = i
      <4>1. d = e
        BY <3>1, <3>2 DEF e, old
      <4>2. childdirs'[t] = Append(childdirs[t], ChildAt(t, i))
        BY <1>4, <1>8, <1>9, <1>16, <4>1
      <4>3. ChildAt(t, i) \in ToSet(childdirs'[t]) /\ ChildAt(t, i).dir = d
        BY <1>7, <1>13, <4>1, <4>2
      <4>. QED  BY <1>2, <2>2, <4>3 DEF Owing
    <3>3. CASE j # i
      <4>1. Waits(batch'[t], j)
        BY <1>1, <1>4, <3>1, <3>3, FillsWaits
      <4>2. batch'[t].rl[j].entry = d /\ j \in 1 .. Len(batch'[t].rl)
        BY <1>2, <3>1, <3>3
      <4>. QED  BY <2>2, <4>1, <4>2 DEF Awaiting
    <3>. QED  BY <3>2, <3>3
  <2>. QED  BY <2>1, <2>2
<1>17. NoneForgotten'
  BY <1>3, <1>5, <1>11, <1>12, <1>15, <1>16 DEF NoneForgotten
<1>. QED  BY <1>10, <1>17

LEMMA EnteringStep ==
  ASSUME UWalk, Entering, [UNext]_uvars
  PROVE  Entering'
<1> SUFFICES ASSUME nodes' = <<>> PROVE NoneForgotten' /\ RightlyListed'
  BY DEF Entering
<1>1. UInv /\ Std!IdInv
  BY DEF UWalk, UIds
<1>2. ASSUME NEW t \in Workers, NEW k \in Nat, Opens(t, k), OpenAt(t)
      PROVE  NoneForgotten' /\ RightlyListed'
  BY <1>2, OpensEntering
<1>3. ASSUME NEW t \in Workers, NEW i \in Nat, NEW s \in Nat, Fills(t, i, s)
      PROVE  NoneForgotten' /\ RightlyListed'
  BY <1>3, FillsEntering
<1>4. ASSUME \A t \in Workers : ~OpenAt(t) /\ ~Handle(t)
      PROVE  NoneForgotten' /\ RightlyListed'
  <2>1. Std!Next \/ UNCHANGED Std!vars
    BY <1>1, <1>4, UStep
  <2>3. Std!Records' = Std!Records /\ counter' = counter
    BY <1>1, <2>1, StdRecordsStay, StdCounter
  <2>4. cfg' = cfg /\ \A d : ShouldEnter(d)' <=> ShouldEnter(d)
    BY <1>1, UConfigStays, ShouldEnterStays
  <2>5. nodes = <<>>
    BY <1>1, <2>1, StdAssumptions, Std!StillWalking DEF Std!IdInv
  <2>6. NoneForgotten /\ RightlyListed
    BY <2>5 DEF Entering
  <2>7. \A d : Met(d)' <=> Met(d)
    BY <2>3 DEF Met
  <2>8. \A d : Dealt(d)' <=> Dealt(d)
    BY <2>3, <2>4, <2>7 DEF Dealt
  <2>9. RightlyListed'
    BY <2>3, <2>4, <2>6 DEF RightlyListed
  <2>10. ASSUME NEW t \in Workers, NEW d, ShouldEnter(d), Owing(t, d)
         PROVE  Dealt(d) \/ \E u \in Workers : Owing(u, d)'
    <3>1. CASE \E w \in Workers : CheckLimits(w)
      BY <2>10, <3>1, LimitsEntering
    <3>2. CASE \A w \in Workers : ~CheckLimits(w)
      <4>1. \A u \in Workers : StdPc[u] = "guard" => StdPc'[u] = "guard"
        BY <1>1, <1>4, <3>2, GuardStays
      <4>. QED  BY <2>1, <2>10, <4>1, StdOwing
    <3>. QED  BY <3>1, <3>2
  <2>11. ASSUME NEW t \in Workers, NEW d, Awaiting(t, d)
         PROVE  Awaiting(t, d)'
    <3>1. GoesOn(t)
      BY <1>1, <1>4, <2>11, BatchStep DEF Closes, Awaiting
    <3>. QED  BY <1>1, <2>11, <3>1, GoesOnAwaiting
  <2>12. NoneForgotten'
    BY <2>4, <2>6, <2>7, <2>8, <2>10, <2>11 DEF NoneForgotten
  <2>. QED  BY <2>9, <2>12
<1>. QED  BY <1>1, <1>2, <1>3, <1>4, OpenAtOpens, HandleFills

LEMMA EnteringInit == UInit => Entering
<1> SUFFICES ASSUME UInit PROVE NoneForgotten /\ RightlyListed
  BY DEF Entering
<1>1. UIds
  BY UIdsInit
<1>2. \A t \in Workers : local[t] = {} /\ recs[t] = {} /\ batch[t].rl = <<>>
  BY DEF UInit, Init, EmptyBatch
<1>3. Std!Records = {}
  <2>1. \A t \in Workers : Std!Bucket(t) = {}
    BY <1>1, <1>2, StdRecords, ToSetOfSeq, EmptySeq DEF UIds
  <2>. QED  BY <1>1, <2>1, StdRecords DEF UIds
<1>4. RightlyListed
  BY <1>3 DEF RightlyListed
<1>5. 0 \in Workers /\ deque[0] = <<RootItem>>
  BY WorkersAssumption DEF UInit, Init, Workers
<1>6. RootItem \in ToSet(deque[0]) /\ RootItem.dir = Root
  <2>1. PICK x : x = RootItem
    OBVIOUS
  <2>2. x \in ToSet(<<x>>)
    BY DEF ToSet
  <2>. QED  BY <1>5, <2>1, <2>2 DEF RootItem
<1>7. Owing(0, Root)
  BY <1>6 DEF Owing
<1>8. NoneForgotten
  BY <1>3, <1>5, <1>7 DEF NoneForgotten, Met
<1>. QED  BY <1>4, <1>8

\* Once no worker has anything left, all that should be listed is.
LEMMA AssembleEntering ==
  ASSUME UWalk, Entering, Std!Assemble
  PROVE  EntersWhatItShould'
<1>1. UInv /\ Std!IdInv /\ nodes = <<>> /\ cfg' = cfg /\ root_dev' = root_dev
  BY DEF UWalk, UIds, Std!Assemble
<1>2. NoneForgotten /\ RightlyListed
  BY <1>1 DEF Entering
<1>3. /\ Std!Records = Std!AllRecs /\ DOMAIN nodes' = 0 .. counter - 1 /\ nodes'[0].entry = Root
      /\ \A r \in Std!AllRecs : r.id \in DOMAIN nodes' \ {0} /\ nodes'[r.id] = Std!NodeOf(r)
      /\ \A i \in DOMAIN nodes' \ {0} : \E r \in Std!AllRecs : r.id = i
  BY <1>1, StdAssumptions, Std!AssembledNodes
<1>4. \A r : Std!NodeOf(r).entry = r.entry
  BY DEF Std!NodeOf
<1>5. counter \in Nat \ {0} /\ cfg.max_entries \in Nat
  BY <1>1, StdTypes DEF UInv, UType, StdShapes, CfgType
<1>6. ASSUME NEW e PROVE e \in InArena' <=> Met(e)
  <2>1. e \in InArena' <=> \E i \in DOMAIN nodes' : e = nodes'[i].entry
    BY DEF InArena
  <2>2. ASSUME Met(e) PROVE \E i \in DOMAIN nodes' : e = nodes'[i].entry
    <3>1. CASE e = Root
      <4>1. 0 \in DOMAIN nodes'
        BY <1>3, <1>5
      <4>. QED  BY <1>3, <3>1, <4>1
    <3>2. CASE e # Root
      <4>1. PICK r \in Std!AllRecs : r.entry = e
        BY <1>3, <2>2, <3>2 DEF Met
      <4>2. nodes'[r.id].entry = e /\ r.id \in DOMAIN nodes'
        BY <1>3, <1>4, <4>1
      <4>. QED  BY <4>2
    <3>. QED  BY <3>1, <3>2
  <2>3. ASSUME NEW i \in DOMAIN nodes', e = nodes'[i].entry PROVE Met(e)
    <3>1. CASE i = 0
      BY <1>3, <2>3, <3>1 DEF Met
    <3>2. CASE i # 0
      <4>1. PICK r \in Std!AllRecs : r.id = i
        BY <1>3, <3>2
      <4>2. r.entry = e
        BY <1>3, <1>4, <2>3, <4>1
      <4>. QED  BY <1>3, <4>1, <4>2 DEF Met
    <3>. QED  BY <3>1, <3>2
  <2>. QED  BY <2>1, <2>2, <2>3
<1>7. \A r \in Std!Records : r.entry \in Entry
  <2>1. \A d \in Entry : \A e \in Children(d) : e \in Entry
    BY StdAssumptions, Std!ChildLevel, SameMeaning
  <2>. QED  BY <1>2, <2>1 DEF RightlyListed
<1>8. \A d : ShouldEnter(d)' <=> ShouldEnter(d)
  BY <1>1 DEF ShouldEnter, MayOpen
<1>9. ASSUME NEW d \in InArena', NEW e \in Children(d), e \in InArena' PROVE ShouldEnter(d)
  <2>1. d \in Entry
    BY <1>6, <1>7, FileTreeAssumption DEF Met
  <2>2. e # Root
    BY <2>1, StdAssumptions, Std!ChildLevel, SameMeaning
  <2>3. PICK r \in Std!Records : r.entry = e
    BY <1>6, <1>9, <2>2 DEF Met
  <2>4. PICK f \in Entry : e \in Children(f) /\ ShouldEnter(f)
    BY <1>2, <2>3 DEF RightlyListed
  <2>5. f = d
    BY <2>1, <2>4, StdAssumptions, Std!OneParent, SameMeaning
  <2>. QED  BY <2>4, <2>5
<1>10. \A t \in Workers : \A d : ~Owing(t, d) /\ ~Awaiting(t, d)
  <2>1. \A t \in Workers : StdPc[t] = "exit"
    BY SameMeaning DEF Std!Assemble
  <2>2. \A t \in Workers : deque[t] = <<>> /\ childdirs[t] = <<>>
    BY <1>1, <2>1, SameMeaning
       DEF UWalk, Std!NoWorkLeftBehind, Std!HeldInv, Std!GatheredWhileReading
  <2>3. \A t \in Workers : batch[t].rl = <<>>
    <3>1. \A t \in Workers : pc[t] \notin Batching
      BY <2>1 DEF StdPc
    <3>. QED  BY <1>1, <3>1 DEF UInv, RingInv, WorkerRing
  <2>4. ToSet(<<>>) = {} /\ Len(<<>>) = 0
    BY EmptySeq DEF ToSet
  <2>. QED  BY <2>1, <2>2, <2>3, <2>4 DEF Owing, Awaiting
<1>11. ASSUME Unwarned', NEW d \in InArena' \ Flaky, ShouldEnter(d), NEW e \in Children(d)
       PROVE  e \in InArena'
  <2>1. d \in Entry /\ Met(d)
    BY <1>6, <1>7, <1>11, FileTreeAssumption DEF Met
  <2>2. Dealt(d)
    BY <1>2, <1>10, <1>11, <2>1 DEF NoneForgotten
  <2>3. Cardinality(0 .. counter - 1) = counter
    <3>1. Cardinality(0 .. counter - 1)
            = IF 0 > counter - 1 THEN 0 ELSE (counter - 1) - 0 + 1
      BY <1>5, FS_Interval
    <3>. QED  BY <1>5, <3>1
  <2>4. counter < cfg.max_entries
    BY <1>1, <1>3, <1>11, <2>3 DEF Unwarned
  <2>5. Met(e)
    BY <1>5, <2>2, <2>4 DEF Dealt
  <2>. QED  BY <1>6, <2>5
<1>12. \A d \in InArena' : Children(d) \cap InArena' # {} => ShouldEnter(d)'
  BY <1>8, <1>9
<1>13. Unwarned' => \A d \in InArena' \ Flaky : ShouldEnter(d)' => Children(d) \subseteq InArena'
  BY <1>8, <1>11
<1>. QED  BY <1>12, <1>13 DEF EntersWhatItShould

\* Only Assemble changes the arena.
LEMMA ArenaStep ==
  ASSUME UInv, [UNext]_uvars, nodes' # nodes
  PROVE  Std!Assemble
<1>1. Std!Next \/ UNCHANGED Std!vars
  BY UStep DEF Opens, Fills
<1>2. ASSUME NEW w \in Workers, Std!WorkerStep(w) PROVE nodes' = nodes
  BY <1>2 DEF Std!WorkerStep, Std!PopOwn, Std!Steal, Std!CheckActive, Std!OpenDir, Std!SkipEntry,
     Std!AllocId, Std!StatOk, Std!StatErr, Std!NoStatProbe, Std!FinishEntry, Std!PushChildren,
     Std!PushTo, Std!AddActive, Std!SubActive, Std!Publish, Std!shared
<1>3. ASSUME UNCHANGED Std!vars PROVE nodes' = nodes
  BY <1>3 DEF Std!vars, Std!shared
<1>4. Std!Terminated => UNCHANGED Std!vars
  BY DEF Std!Terminated
<1>. QED  BY <1>1, <1>2, <1>3, <1>4, SameMeaning DEF Std!Next

UListing == UWalk /\ Entering /\ EntersWhatItShould

LEMMA UListingInit == UInit => UListing
<1> SUFFICES ASSUME UInit PROVE UListing
  OBVIOUS
<1>1. nodes = <<>>
  BY DEF UInit, Init
<1>2. EntersWhatItShould
  BY <1>1, EmptySeq DEF EntersWhatItShould, InArena, Unwarned
<1>. QED  BY <1>2, UWalkInit, EnteringInit DEF UListing

LEMMA UListingStep == UListing /\ [UNext]_uvars => UListing'
<1> SUFFICES ASSUME UListing, [UNext]_uvars PROVE UListing'
  OBVIOUS
<1>1. UWalk /\ Entering /\ EntersWhatItShould /\ UInv
  BY DEF UListing, UWalk, UIds
<1>2. UWalk' /\ Entering'
  BY <1>1, UWalkStep, EnteringStep
<1>3. CASE nodes' # nodes
  BY <1>1, <1>2, <1>3, ArenaStep, AssembleEntering DEF UListing
<1>4. CASE nodes' = nodes
  <2>1. cfg' = cfg /\ root_dev' = root_dev
    BY <1>1, UConfigStays
  <2>2. EntersWhatItShould'
    BY <1>1, <1>4, <2>1 DEF EntersWhatItShould, InArena, Unwarned, ShouldEnter, MayOpen
  <2>. QED  BY <1>2, <2>2 DEF UListing
<1>. QED  BY <1>3, <1>4

(***************************************************************************)
(* The io_uring backend lists no directory it should not, and below the    *)
(* ceiling each of those it met, but for failing calls                     *)
(* (internal.rs:395-397).  No directory is lost between a batch whose      *)
(* results come in any order and the deques, nor to the ceiling: a worker  *)
(* that is refused has seen the counter at it (internal.rs:347), however   *)
(* many ids the others take before those that were let through take theirs *)
(* (internal.rs:354), and an arena is then no smaller.  The two packings of *)
(* device numbers that -x compares (uring.rs:101) confuse no two devices,  *)
(* as long as minor numbers fit where st_dev has them (DeviceAssumption).  *)
(***************************************************************************)
THEOREM UringEntersWhatItShould == USpec => []EntersWhatItShould
<1>1. UListing => EntersWhatItShould
  BY DEF UListing
<1>. QED  BY UListingInit, UListingStep, <1>1, PTL DEF USpec


-----------------------------------------------------------------------------
(* What the arena adds up to.                                              *)

LEMMA SameTotal == Std!TotalIsDu <=> TotalIsDu
<1>1. Std!MultiLinked(Root) <=> MultiLinked(Root)
  BY SameMeaning
<1>2. Std!RootApart <=> RootApart
  BY SameMeaning DEF Std!RootApart, RootApart
<1>3. Std!InArena = InArena /\ Std!Unknown = Unknown
  BY DEF Std!InArena, InArena, Std!Unknown, Unknown
<1>4. Std!Total = Total
  BY DEF Std!Total, Total, Std!MapThenSumSet, MapThenSumSet, Std!MapThenFoldSet, MapThenFoldSet
<1>5. ASSUME NEW S PROVE Std!Du(S) = Du(S)
  BY DEF Std!Du, Du, Std!MapThenSumSet, MapThenSumSet, Std!MapThenFoldSet, MapThenFoldSet,
     MultiLinked, Std!MultiLinked, Inode, Std!Inode
<1>. QED  BY <1>2, <1>3, <1>4, <1>5 DEF Std!TotalIsDu, TotalIsDu

-----------------------------------------------------------------------------
(* Each entry is recorded once.                                            *)

UReading == nodes = <<>> => Std!Unread /\ Std!EntryOnce

\* A directory held and one that is opened have different ids.
LEMMA OpensApartIds ==
  ASSUME UWalk, NEW t \in Workers, StdPc[t] = "guard", nodes = <<>>
  PROVE  /\ Std!Walking /\ <<item[t].id, item[t].dir>> \in Std!Names /\ item[t].dir \in Entry
         /\ \A u \in Workers :
              /\ \A x \in ToSet(deque[u]) : x.id # item[t].id
              /\ StdPc[u] # "add" => \A x \in ToSet(childdirs[u]) : x.id # item[t].id
              /\ u # t /\ StdPc[u] = "guard" => item[u].id # item[t].id
<1>1. Std!WalkInv
  BY DEF UWalk, UIds, Std!WalkInv
<1>2. Std!Walking
  BY <1>1, StdAssumptions, Std!StillWalkingInv
<1>3. /\ Std!TypeInv /\ Std!NoHole /\ Std!NoClash /\ Std!ItemsNamed /\ Std!ItemsReached /\ Std!Apart
  BY <1>2 DEF Std!Walking
<1>4. \A u \in Workers : /\ ToSet(deque[u]) \subseteq Std!Known /\ item[u] \in Std!Known
                         /\ ToSet(childdirs[u]) \subseteq Std!Known
  BY <1>3, StdAssumptions, Std!KnownSeqs, SameMeaning
<1>5. \A x, y \in Std!Known : x.id = y.id => x = y
  BY <1>3, StdAssumptions, Std!IdNamesReachedItem DEF Std!Known
<1>6. \A u \in Workers : StdPc[u] = "guard" => Std!Busy(u)
  BY DEF Std!Busy
<1>7. \A u \in Workers :
        /\ item[t] \notin ToSet(deque[u])
        /\ StdPc[u] # "add" => item[t] \notin ToSet(childdirs[u])
        /\ u # t /\ StdPc[u] = "guard" => item[u] # item[t]
  BY <1>3, <1>6, SameMeaning DEF Std!Apart
<1>8. item[t] \in Std!NamedItem /\ item[t] \in Item
  BY <1>4, SameMeaning DEF Std!Known, Std!NamedItem
<1>9. <<item[t].id, item[t].dir>> \in Std!Names /\ item[t].dir \in Entry
  BY <1>8 DEF Std!NamedItem, Item
<1>. QED  BY <1>2, <1>4, <1>5, <1>7, <1>9

LEMMA OpensReading ==
  ASSUME UWalk, UReading, NEW t \in Workers, NEW k \in Nat, Opens(t, k)
  PROVE  Std!Unread' /\ Std!EntryOnce'
<1> DEFINE dir == item[t].dir
           new == {OpenedRec(t, j) : j \in 1 .. k}
<1>1. /\ nodes = <<>> /\ StdPc[t] = "guard" /\ k \in 0 .. Len(Listing[dir])
      /\ StdPc' = [StdPc EXCEPT ![t] = "entry"] /\ UNCHANGED <<deque, item, childdirs>>
  BY DEF Opens
<1>2. UInv /\ Std!IdInv /\ Std!Unread /\ Std!EntryOnce /\ StdPc \in [Workers -> Pc]
  BY <1>1, StdTypes DEF UWalk, UIds, UInv, UType, StdShapes, UReading
<1>3. Std!Walking /\ <<item[t].id, dir>> \in Std!Names /\ dir \in Entry
  BY <1>1, OpensApartIds
<1>4. Std!ParentNamed
  BY <1>3 DEF Std!Walking
<1>5. \A r \in Std!Records : r.parent # item[t].id
  BY <1>1, <1>2, SameMeaning DEF Std!Unread, Std!Untouched
<1>6. Std!Records' = Std!Records \cup new
  BY <1>2, OpensRecords
<1>7. /\ DOMAIN Listing[dir] = 1 .. Len(Listing[dir]) /\ IsInjective(Listing[dir])
      /\ Len(Listing[dir]) \in Nat
  BY <1>3, FileTreeAssumption, LenProperties, StdAssumptions, Std!ListingOnce, SameMeaning
<1>8. \A i, j \in 1 .. k : Listing[dir][i] = Listing[dir][j] => i = j
  BY <1>1, <1>7 DEF IsInjective
<1>9. \A j \in 1 .. k : /\ OpenedRec(t, j).entry = Listing[dir][j]
                        /\ OpenedRec(t, j).entry \in Children(dir)
                        /\ OpenedRec(t, j).parent = item[t].id
  <2>1. \A j : OpenedRec(t, j).entry = Listing[dir][j] /\ OpenedRec(t, j).parent = item[t].id
    BY DEF OpenedRec
  <2>2. \A j \in 1 .. k : j \in DOMAIN Listing[dir]
    BY <1>1, <1>7
  <2>. QED  BY <2>1, <2>2 DEF Children
<1>10. ASSUME NEW r \in Std!Records, r.entry \in Children(dir) PROVE FALSE
  <2>1. PICK d \in Entry : <<r.parent, d>> \in Std!Names /\ r.entry \in Children(d)
    BY <1>4, SameMeaning DEF Std!ParentNamed
  <2>2. d = dir
    BY <1>3, <1>10, <2>1, StdAssumptions, Std!OneParent, SameMeaning
  <2>3. r.parent = item[t].id
    BY <1>2, <1>3, <1>4, <2>1, <2>2, StdAssumptions, Std!EntryNamesId
  <2>. QED  BY <1>5, <2>3
<1> HIDE DEF dir
<1>11. Std!EntryOnce'
  <2> SUFFICES ASSUME NEW q \in Std!Records', NEW r \in Std!Records', q.entry = r.entry PROVE q = r
    BY DEF Std!EntryOnce
  <2>1. CASE q \in Std!Records /\ r \in Std!Records
    BY <1>2, <2>1 DEF Std!EntryOnce
  <2>2. CASE q \in new /\ r \in new
    <3>1. PICK i \in 1 .. k : q = OpenedRec(t, i)
      BY <2>2
    <3>2. PICK j \in 1 .. k : r = OpenedRec(t, j)
      BY <2>2
    <3>3. i = j
      BY <1>8, <1>9, <3>1, <3>2
    <3>. QED  BY <3>1, <3>2, <3>3
  <2>3. \A x \in new : x.entry \in Children(dir)
    BY <1>9
  <2> HIDE DEF new
  <2>. QED  BY <1>6, <1>10, <2>1, <2>2, <2>3
<1>12. \A r \in new : r.parent = item[t].id
  BY <1>9
<1> HIDE DEF new
<1>13. Std!Unread'
  <2>1. ASSUME NEW u \in Workers
        PROVE  /\ \A x \in ToSet(deque[u]) : \A r \in Std!Records' : r.parent # x.id
               /\ StdPc'[u] # "add" =>
                    \A x \in ToSet(childdirs[u]) : \A r \in Std!Records' : r.parent # x.id
               /\ StdPc'[u] = "guard" => \A r \in Std!Records' : r.parent # item[u].id
    <3>1. /\ \A x \in ToSet(deque[u]) : \A r \in Std!Records : r.parent # x.id
          /\ StdPc[u] # "add" =>
               \A x \in ToSet(childdirs[u]) : \A r \in Std!Records : r.parent # x.id
          /\ StdPc[u] = "guard" => \A r \in Std!Records : r.parent # item[u].id
      BY <1>2, SameMeaning DEF Std!Unread, Std!Untouched
    <3>2. /\ \A x \in ToSet(deque[u]) : x.id # item[t].id
          /\ StdPc[u] # "add" => \A x \in ToSet(childdirs[u]) : x.id # item[t].id
          /\ u # t /\ StdPc[u] = "guard" => item[u].id # item[t].id
      BY <1>1, OpensApartIds
    <3>3. /\ StdPc'[u] # "add" => StdPc[u] # "add"
          /\ StdPc'[u] = "guard" => u # t /\ StdPc[u] = "guard"
      BY <1>1, <1>2
    <3>. QED  BY <1>6, <1>12, <3>1, <3>2, <3>3
  <2>. QED  BY <1>1, <2>1, SameMeaning DEF Std!Unread, Std!Untouched
<1>. QED  BY <1>11, <1>13

LEMMA FillsReading ==
  ASSUME UWalk, UReading, NEW t \in Workers, NEW i, NEW s, Fills(t, i, s)
  PROVE  Std!Unread' /\ Std!EntryOnce'
<1> DEFINE old == batch[t].rl[i]
           new == batch'[t].rl[i]
           c == ChildAt(t, i)
<1>1. /\ nodes = <<>> /\ StdPc[t] = "entry" /\ StdPc' = StdPc /\ UNCHANGED <<deque, item>>
      /\ childdirs' = childdirs \/ childdirs' = [childdirs EXCEPT ![t] = Append(@, c)]
      /\ i \in 1 .. Len(batch[t].rl)
  BY DEF Fills
<1>2. UIds /\ UInv /\ Std!IdInv /\ RlKept(t) /\ Unclaimed /\ Std!Unread /\ Std!EntryOnce
  BY <1>1 DEF UWalk, UIds, UReading
<1>3. childdirs \in [Workers -> Seq(Item)]
  BY <1>2, StdTypes DEF UInv, UType, StdShapes
<1>4. /\ Std!Records' = (Std!Records \ {old}) \cup {new} /\ old \in Std!Records
      /\ new.id = old.id /\ new.parent = old.parent /\ new.entry = old.entry
  BY <1>2, FillsRecords DEF RlKept
<1>5. c \in Item /\ c.id = old.id
  BY <1>2, FillsItem, FillsChild
<1>6. Unused(old.id)
  BY <1>1, <1>2, FillsWaits DEF Unclaimed
<1> HIDE DEF old, new, c
<1>7. \A r \in Std!Records' : \E q \in Std!Records :
        q.parent = r.parent /\ q.entry = r.entry /\ r = IF q = old THEN new ELSE q
  BY <1>4
<1>8. Std!EntryOnce'
  <2> SUFFICES ASSUME NEW q \in Std!Records', NEW r \in Std!Records', q.entry = r.entry PROVE q = r
    BY DEF Std!EntryOnce
  <2>1. PICK a \in Std!Records : a.entry = q.entry /\ q = IF a = old THEN new ELSE a
    BY <1>7
  <2>2. PICK b \in Std!Records : b.entry = r.entry /\ r = IF b = old THEN new ELSE b
    BY <1>7
  <2>3. a = b
    BY <1>2, <2>1, <2>2 DEF Std!EntryOnce
  <2>. QED  BY <2>1, <2>2, <2>3
<1>9. \A n : (\A r \in Std!Records : r.parent # n) => \A r \in Std!Records' : r.parent # n
  BY <1>7
<1>10. ToSet(Append(childdirs[t], c)) = ToSet(childdirs[t]) \cup {c}
  BY <1>3, <1>5, AppendApart
<1>11. \A u \in Workers : \A x \in ToSet(childdirs'[u]) : x \in ToSet(childdirs[u]) \/ x = c
  BY <1>1, <1>3, <1>10
<1>12. \A r \in Std!Records : r.parent # c.id
  BY <1>5, <1>6 DEF Unused
<1>13. ASSUME NEW u \in Workers
       PROVE  /\ \A x \in ToSet(deque[u]) : \A r \in Std!Records' : r.parent # x.id
              /\ StdPc[u] # "add" =>
                   \A x \in ToSet(childdirs'[u]) : \A r \in Std!Records' : r.parent # x.id
              /\ StdPc[u] = "guard" => \A r \in Std!Records' : r.parent # item[u].id
  <2>1. /\ \A x \in ToSet(deque[u]) : \A r \in Std!Records : r.parent # x.id
        /\ StdPc[u] # "add" =>
             \A x \in ToSet(childdirs[u]) : \A r \in Std!Records : r.parent # x.id
        /\ StdPc[u] = "guard" => \A r \in Std!Records : r.parent # item[u].id
    BY <1>2, SameMeaning DEF Std!Unread, Std!Untouched
  <2>. QED  BY <1>9, <1>11, <1>12, <2>1
<1>14. Std!Unread'
  BY <1>1, <1>13, SameMeaning DEF Std!Unread, Std!Untouched
<1>. QED  BY <1>8, <1>14

LEMMA UReadingStep ==
  ASSUME UWalk, UReading, [UNext]_uvars
  PROVE  UReading'
<1> SUFFICES ASSUME nodes' = <<>> PROVE Std!Unread' /\ Std!EntryOnce'
  BY DEF UReading
<1>1. UInv /\ Std!IdInv /\ Std!TypeInv /\ Std!WalkInv
  BY DEF UWalk, UIds, Std!IdInv, Std!WalkInv
<1>2. ASSUME [Std!Next]_Std!vars PROVE Std!Unread' /\ Std!EntryOnce'
  <2>1. nodes = <<>> /\ ((\E w \in Workers : Std!WorkerStep(w)) \/ UNCHANGED Std!vars)
    BY <1>1, <1>2, StdAssumptions, Std!StillWalking, SameMeaning
  <2>2. Std!Walking /\ Std!Unread /\ Std!EntryOnce
    BY <1>1, <2>1, StdAssumptions, Std!StillWalkingInv DEF UReading
  <2>3. Std!Records' = Std!Records
    BY <1>1, <1>2, StdRecordsStay
  <2>4. Std!EntryOnce'
    BY <2>2, <2>3 DEF Std!EntryOnce
  <2>5. ASSUME NEW w \in Workers, Std!WorkerStep(w) PROVE Std!Unread'
    BY <2>2, <2>5, StdAssumptions, Std!UnreadStep, SameMeaning
  <2>6. CASE UNCHANGED Std!vars
    <3>1. UNCHANGED <<deque, item, childdirs, StdPc>>
      BY <2>6 DEF Std!vars, Std!shared, Std!worker
    <3>. QED  BY <2>2, <2>3, <2>4, <3>1 DEF Std!Unread, Std!Untouched
  <2>. QED  BY <2>1, <2>4, <2>5, <2>6
<1>3. ASSUME NEW t \in Workers, NEW k \in Nat, Opens(t, k) PROVE Std!Unread' /\ Std!EntryOnce'
  BY <1>3, OpensReading
<1>4. ASSUME NEW t \in Workers, NEW i \in Nat, NEW s \in Nat, Fills(t, i, s)
      PROVE  Std!Unread' /\ Std!EntryOnce'
  BY <1>4, FillsReading
<1>. QED  BY <1>1, <1>2, <1>3, <1>4, UStep

-----------------------------------------------------------------------------
(* Each inode is charged to one of its names, whichever answer comes       *)
(* first.                                                                  *)

\* An inode as the workers share it, with the device as statx packs it.
UInode(e) == <<StatxDev(Meta[e].dev), Meta[e].ino>>

\* This packing loses nothing.
LEMMA StatxDevInjective ==
  ASSUME NEW a \in Nat, NEW b \in Nat, StatxDev(a) = StatxDev(b)
  PROVE  a = b
<1>1. StMinors \in Nat \ {0} /\ StatxMinors \in Nat \ {0} /\ StMinors <= StatxMinors
  BY UringAssumption, DeviceAssumption
<1>2. \A d \in Nat : /\ d \div StMinors \in Nat /\ d % StMinors \in Nat
                     /\ d % StMinors < StMinors /\ d = StMinors * (d \div StMinors) + (d % StMinors)
  BY <1>1
<1>3. PICK q \in Nat, m \in Nat : /\ q = a \div StMinors /\ m = a % StMinors
                                  /\ m < StMinors /\ a = StMinors * q + m
  BY <1>2
<1>4. PICK p \in Nat, n \in Nat : /\ p = b \div StMinors /\ n = b % StMinors
                                  /\ n < StMinors /\ b = StMinors * p + n
  BY <1>2
<1>5. q * StatxMinors + m = p * StatxMinors + n
  BY <1>3, <1>4 DEF StatxDev
<1>6. ASSUME NEW x \in Nat, NEW y \in Nat, x < y
      PROVE  x * StatxMinors + StatxMinors <= y * StatxMinors
  <2>1. PICK z \in Nat : y = x + 1 + z
    <3>1. y - x - 1 \in Nat /\ y = x + 1 + (y - x - 1)
      BY <1>6
    <3>. QED  BY <3>1
  <2>2. y * StatxMinors = x * StatxMinors + StatxMinors + z * StatxMinors
    BY <1>1, <2>1
  <2>3. z * StatxMinors \in Nat /\ x * StatxMinors \in Nat
    BY <1>1
  <2>. QED  BY <1>1, <2>2, <2>3
<1>7. q * StatxMinors \in Nat /\ p * StatxMinors \in Nat
  BY <1>1
<1>8. ~(q < p)
  <2>1. q < p => q * StatxMinors + StatxMinors <= p * StatxMinors
    BY <1>6
  <2>. QED  BY <1>1, <1>3, <1>4, <1>5, <1>7, <2>1
<1>9. ~(p < q)
  <2>1. p < q => p * StatxMinors + StatxMinors <= q * StatxMinors
    BY <1>6
  <2>. QED  BY <1>1, <1>3, <1>4, <1>5, <1>7, <2>1
<1>10. q = p
  BY <1>8, <1>9
<1>11. m = n
  BY <1>5, <1>7, <1>10
<1>. QED  BY <1>3, <1>4, <1>10, <1>11

\* Two entries are one inode here if they are one in ParallelWalk.
LEMMA SameInodes ==
  ASSUME NEW e \in Entry, NEW f \in Entry
  PROVE  UInode(e) = UInode(f) <=> Inode(e) = Inode(f)
<1>1. Meta[e].dev \in Nat /\ Meta[f].dev \in Nat
  BY FileTreeAssumption DEF MetaType
<1>. QED  BY <1>1, StatxDevInjective DEF UInode, Inode

\* Some worker awaits the result of entry e.
Awaited(e) == \E t \in Workers : Awaiting(t, e)

\* What a record says of the size of its entry, once its result is there.
USized(r) ==
  /\ r.own \in {0, Meta[r.entry].own}
  /\ r.own # 0 /\ MultiLinked(r.entry) => UInode(r.entry) \in seen
  /\ r.entry \in Flaky \/ Awaited(r.entry)
       \/ IF MultiLinked(r.entry) THEN UInode(r.entry) \in seen ELSE r.own = Meta[r.entry].own

UCharged(r) == MultiLinked(r.entry) /\ r.own = Meta[r.entry].own

USeenIsCharged == \A i \in seen : \E r \in Std!Records : UCharged(r) /\ UInode(r.entry) = i

\* No inode is charged to two names.
UChargedOnce ==
  \A q, r \in Std!Records :
    /\ MultiLinked(q.entry) /\ MultiLinked(r.entry)
    /\ UInode(q.entry) = UInode(r.entry) /\ q # r
    => q.own = 0 \/ r.own = 0

UCharging == USeenIsCharged /\ UChargedOnce /\ \A r \in Std!Records : USized(r)

UCharges == nodes = <<>> => UCharging

\* What opening a directory leads to.
LEMMA OpensCharges ==
  ASSUME UWalk, UCharging, [UNext]_uvars, NEW t \in Workers, NEW k \in Nat, Opens(t, k), OpenAt(t)
  PROVE  UCharging'
<1> DEFINE new == {OpenedRec(t, j) : j \in 1 .. k}
<1>1. UInv /\ Std!IdInv
  BY DEF UWalk, UIds
<1>2. /\ StdPc[t] = "guard" /\ Len(batch'[t].rl) = k
      /\ \A j \in 1 .. k : batch'[t].rl[j] = OpenedRec(t, j)
      /\ UNCHANGED <<item, local, seen>>
  BY DEF Opens
<1>3. Std!Records' = Std!Records \cup new
  BY <1>1, OpensRecords
<1>4. \A r \in new : r.own = 0
  BY DEF OpenedRec
<1>5. batch[t].rl = <<>> /\ batch'[t].next = 0 /\ \A u \in Workers \ {t} : batch'[u] = batch[u]
  BY <1>1, <1>2, OpensBatch
<1>6. ASSUME NEW e, Awaited(e) PROVE Awaited(e)'
  <2>1. PICK u \in Workers : Awaiting(u, e)
    BY <1>6 DEF Awaited
  <2>2. u # t
    BY <1>5, <2>1, EmptySeq DEF Awaiting
  <2>3. GoesOn(u)
    BY <1>2, <1>5, <2>2, SameBatchGoesOn
  <2>4. Awaiting(u, e)'
    BY <1>1, <2>1, <2>3, GoesOnAwaiting
  <2>. QED  BY <2>4 DEF Awaited
<1>7. ASSUME NEW r \in new PROVE Awaited(r.entry)'
  <2>1. PICK j \in 1 .. k : r = OpenedRec(t, j)
    OBVIOUS
  <2>2. batch'[t].rl[j].entry = r.entry
    BY <1>2, <2>1
  <2>3. j > batch'[t].next
    BY <1>5
  <2>4. Awaiting(t, r.entry)'
    BY <1>2, <2>2, <2>3 DEF Awaiting, Waits
  <2>. QED  BY <2>4 DEF Awaited
<1> HIDE DEF new
<1>8. USeenIsCharged'
  BY <1>2, <1>3 DEF UCharging, USeenIsCharged, UCharged, UInode, MultiLinked, StatxDev
<1>9. UChargedOnce'
  <2> SUFFICES ASSUME NEW q \in Std!Records', NEW r \in Std!Records',
                      MultiLinked(q.entry), MultiLinked(r.entry),
                      UInode(q.entry) = UInode(r.entry), q # r
               PROVE  q.own = 0 \/ r.own = 0
    BY DEF UChargedOnce, MultiLinked, UInode, StatxDev
  <2>. QED  BY <1>3, <1>4 DEF UCharging, UChargedOnce
<1>10. ASSUME NEW r \in Std!Records' PROVE USized(r)'
  <2>1. CASE r \in Std!Records
    <3>1. USized(r)
      BY <2>1 DEF UCharging
    <3>. QED  BY <1>2, <1>6, <3>1 DEF USized, MultiLinked, UInode, StatxDev
  <2>2. CASE r \in new
    BY <1>4, <1>7, <2>2 DEF USized
  <2>. QED  BY <1>3, <2>1, <2>2
<1>. QED  BY <1>8, <1>9, <1>10 DEF UCharging

\* What a completion leads to.
LEMMA FillsCharges ==
  ASSUME UWalk, UCharging, Std!EntryOnce, NEW t \in Workers, NEW i \in Nat, NEW s \in Nat,
         Fills(t, i, s)
  PROVE  UCharging'
<1> DEFINE old == batch[t].rl[i]
           e == old.entry
<1>0. PICK new : new = batch'[t].rl[i]
  OBVIOUS
<1>1. UInv /\ UIds /\ RlKept(t) /\ Std!IdInv
  BY DEF UWalk, UIds
<1>2. /\ i \in 1 .. Len(batch[t].rl) /\ Len(batch'[t].rl) = Len(batch[t].rl) /\ e \in Entry
      /\ \A j \in 1 .. Len(batch[t].rl) : j # i => batch'[t].rl[j] = batch[t].rl[j]
      /\ \A u \in Workers \ {t} : batch'[u] = batch[u]
      /\ old.own = 0 /\ UNCHANGED <<item, local>>
  BY DEF Fills, Blank
<1>3. \A u \in Workers : Len(batch[u].rl) \in Nat
  BY <1>1, StdRecords
<1>4. /\ Std!Records' = (Std!Records \ {old}) \cup {new} /\ old \in Std!Records
      /\ new.entry = old.entry
  BY <1>0, <1>1, FillsRecords DEF RlKept
<1>5. \/ e \in Flaky /\ new = old /\ seen' = seen
      \/ /\ new.own = IF MultiLinked(e) /\ UInode(e) \in seen THEN 0 ELSE Meta[e].own
         /\ seen' = IF MultiLinked(e) THEN seen \cup {UInode(e)} ELSE seen
  <2>1. \/ e \in Flaky /\ new = old /\ seen' = seen
        \/ /\ new = FilledIn(old, e)
           /\ seen' = IF MultiLinked(e)
                      THEN seen \cup {<<StatxDev(Meta[e].dev), Meta[e].ino>>} ELSE seen
    BY <1>0 DEF Fills
  <2>2. old \in Rec
    BY DEF Fills
  <2> HIDE DEF old, e
  <2>3. FilledIn(old, e).own = IF Dedup(e) THEN 0 ELSE Meta[e].own
    BY <2>2 DEF FilledIn, Rec
  <2>. QED  BY <2>1, <2>3 DEF UInode, Dedup
<1>6. Meta[e].own \in Nat
  BY <1>2, FileTreeAssumption DEF MetaType
<1>7. USeenIsCharged /\ UChargedOnce /\ \A r \in Std!Records : USized(r)
  BY DEF UCharging
<1> HIDE DEF old, e
<1>8. new.entry = e
  BY <1>4 DEF e
<1>9. ASSUME NEW d, d # e, Awaited(d) PROVE Awaited(d)'
  <2>1. PICK u \in Workers : Awaiting(u, d)
    BY <1>9 DEF Awaited
  <2>2. CASE u # t
    <3>1. GoesOn(u)
      BY <1>2, <2>2, SameBatchGoesOn
    <3>2. Awaiting(u, d)'
      BY <1>1, <2>1, <3>1, GoesOnAwaiting
    <3>. QED  BY <3>2 DEF Awaited
  <2>3. CASE u = t
    <3>1. PICK j \in 1 .. Len(batch[t].rl) : Waits(batch[t], j) /\ batch[t].rl[j].entry = d
      BY <2>1, <2>3 DEF Awaiting
    <3>2. j # i
      BY <1>9, <3>1 DEF e, old
    <3>3. Waits(batch'[t], j)
      BY <1>1, <1>3, <3>1, <3>2, FillsWaits
    <3>4. batch'[t].rl[j].entry = d /\ j \in 1 .. Len(batch'[t].rl)
      BY <1>2, <3>1, <3>2
    <3>5. Awaiting(t, d)'
      BY <3>3, <3>4 DEF Awaiting
    <3>. QED  BY <3>5 DEF Awaited
  <2>. QED  BY <2>2, <2>3
<1>10. seen \subseteq seen'
  BY <1>5
<1>11. USized(new)'
  <2>1. USized(old)
    BY <1>4, <1>7
  <2>. QED  BY <1>5, <1>6, <1>8, <2>1 DEF USized, e, MultiLinked, UInode, StatxDev
<1>12. ASSUME NEW r \in Std!Records, r # old PROVE USized(r)'
  <2>1. r.entry # e
    BY <1>4, <1>12 DEF Std!EntryOnce, e
  <2>2. USized(r)
    BY <1>7
  <2>. QED  BY <1>9, <1>10, <2>1, <2>2 DEF USized, MultiLinked, UInode, StatxDev
<1>13. USeenIsCharged'
  <2> SUFFICES ASSUME NEW n \in seen'
               PROVE  \E r \in Std!Records' : UCharged(r) /\ UInode(r.entry) = n
    BY DEF USeenIsCharged, UCharged, UInode, MultiLinked, StatxDev
  <2>1. CASE n \in seen
    <3>1. PICK r \in Std!Records : UCharged(r) /\ UInode(r.entry) = n
      BY <1>7, <2>1 DEF USeenIsCharged
    <3>2. CASE r # old
      BY <1>4, <3>1, <3>2
    <3>3. CASE r = old
      <4>1. MultiLinked(e) /\ Meta[e].own = 0 /\ UInode(e) = n
        BY <1>2, <3>1, <3>3 DEF UCharged, e
      <4>2. UCharged(new) /\ UInode(new.entry) = n
        BY <1>2, <1>5, <1>8, <4>1 DEF UCharged
      <4>. QED  BY <1>4, <4>2
    <3>. QED  BY <3>2, <3>3
  <2>2. CASE n \notin seen
    <3>1. MultiLinked(e) /\ n = UInode(e) /\ new.own = Meta[e].own
      BY <1>5, <2>2
    <3>. QED  BY <1>4, <1>8, <3>1 DEF UCharged
  <2>. QED  BY <2>1, <2>2
<1>14. ASSUME NEW q \in Std!Records, MultiLinked(q.entry), MultiLinked(e), UInode(q.entry) = UInode(e)
       PROVE  q.own = 0 \/ new.own = 0
  BY <1>2, <1>5, <1>7, <1>14 DEF USized
<1>15. UChargedOnce'
  <2> SUFFICES ASSUME NEW q \in Std!Records', NEW r \in Std!Records',
                      MultiLinked(q.entry), MultiLinked(r.entry),
                      UInode(q.entry) = UInode(r.entry), q # r
               PROVE  q.own = 0 \/ r.own = 0
    BY DEF UChargedOnce, MultiLinked, UInode, StatxDev
  <2>1. CASE q \in Std!Records /\ r \in Std!Records
    BY <1>7, <2>1 DEF UChargedOnce
  <2>2. CASE q = new /\ r \in Std!Records
    BY <1>8, <1>14, <2>2
  <2>3. CASE q \in Std!Records /\ r = new
    BY <1>8, <1>14, <2>3
  <2>. QED  BY <1>4, <2>1, <2>2, <2>3
<1>16. \A r \in Std!Records' : USized(r)'
  BY <1>4, <1>11, <1>12
<1>. QED  BY <1>13, <1>15, <1>16 DEF UCharging

\* While the workers are at work, a step of the std backend sees no inode.
LEMMA StdSeen ==
  ASSUME UInv, [Std!Next]_Std!vars, nodes' = <<>>
  PROVE  seen' = seen
<1>1. Std!TypeInv /\ \A w \in Workers : StdPc[w] # "stat"
  BY NobodyStats DEF UInv, UType, RingInv, RingTypeOK, UPc
<1>2. (\E w \in Workers : Std!WorkerStep(w)) \/ UNCHANGED Std!vars
  BY <1>1, StdAssumptions, Std!StillWalking, SameMeaning
<1>3. ASSUME NEW w \in Workers, Std!WorkerStep(w) PROVE seen' = seen
  <2>1. ~Std!StatOk(w) /\ ~Std!StatErr(w) /\ ~Std!NoStatProbe(w)
    BY <1>1 DEF Std!StatOk, Std!StatErr, Std!NoStatProbe
  <2>. QED
    BY <1>3, <2>1 DEF Std!WorkerStep, Std!PopOwn, Std!Steal, Std!CheckActive, Std!OpenDir,
       Std!SkipEntry, Std!AllocId, Std!PushChildren, Std!PushTo, Std!AddActive, Std!SubActive,
       Std!Publish, Std!shared
<1>. QED  BY <1>2, <1>3 DEF Std!vars, Std!shared

LEMMA UChargesStep ==
  ASSUME UWalk, UReading, UCharges, [UNext]_uvars
  PROVE  UCharges'
<1> SUFFICES ASSUME nodes' = <<>> PROVE UCharging'
  BY DEF UCharges
<1>1. UInv /\ Std!IdInv
  BY DEF UWalk, UIds
<1>2. ASSUME NEW t \in Workers, NEW k \in Nat, Opens(t, k), OpenAt(t) PROVE UCharging'
  <2>1. nodes = <<>>
    BY <1>2 DEF Opens
  <2>. QED  BY <1>2, <2>1, OpensCharges DEF UCharges
<1>3. ASSUME NEW t \in Workers, NEW i \in Nat, NEW s \in Nat, Fills(t, i, s) PROVE UCharging'
  <2>1. nodes = <<>>
    BY <1>3 DEF Fills
  <2>. QED  BY <1>3, <2>1, FillsCharges DEF UCharges, UReading
<1>4. ASSUME \A t \in Workers : ~OpenAt(t) /\ ~Handle(t) PROVE UCharging'
  <2>1. Std!Next \/ UNCHANGED Std!vars
    BY <1>1, <1>4, UStep
  <2>2. Std!Records' = Std!Records /\ seen' = seen /\ nodes = <<>>
    BY <1>1, <2>1, StdRecordsStay, StdSeen, StdAssumptions, Std!StillWalking DEF Std!IdInv
  <2>3. UCharging
    BY <2>2 DEF UCharges
  <2>4. ASSUME NEW e, Awaited(e) PROVE Awaited(e)'
    <3>1. PICK u \in Workers : Awaiting(u, e)
      BY <2>4 DEF Awaited
    <3>2. GoesOn(u)
      BY <1>1, <1>4, <3>1, BatchStep DEF Closes, Awaiting
    <3>3. Awaiting(u, e)'
      BY <1>1, <3>1, <3>2, GoesOnAwaiting
    <3>. QED  BY <3>3 DEF Awaited
  <2>5. ASSUME NEW r \in Std!Records PROVE USized(r)'
    <3>1. USized(r)
      BY <2>3 DEF UCharging
    <3>. QED  BY <2>2, <2>4, <3>1 DEF USized, MultiLinked, UInode, StatxDev
  <2>6. USeenIsCharged' /\ UChargedOnce'
    BY <2>2, <2>3 DEF UCharging, USeenIsCharged, UChargedOnce, UCharged, MultiLinked, UInode, StatxDev
  <2>. QED  BY <2>2, <2>5, <2>6 DEF UCharging
<1>. QED  BY <1>1, <1>2, <1>3, <1>4, OpenAtOpens, HandleFills

\* Once no result is awaited, the sizes are those of ParallelWalk's records.
LEMMA AssembleUCharges ==
  ASSUME UWalk, UReading, UCharges, Std!Assemble
  PROVE  Std!ArenaSized'
<1>1. UInv /\ Std!IdInv /\ nodes = <<>>
  BY DEF UWalk, UIds, Std!Assemble
<1>2. UCharging /\ Std!EntryOnce /\ Std!ParentNamed
  BY <1>1 DEF UCharges, UReading, UWalk, Std!Lineage
<1>3. \A r \in Std!Records : r.entry \in Entry
  <2>1. \A d \in Entry : \A e \in Children(d) : e \in Entry
    BY StdAssumptions, Std!ChildLevel, SameMeaning
  <2>. QED  BY <1>2, <2>1, SameMeaning DEF Std!ParentNamed
<1>4. \A e : ~Awaited(e)
  <2>1. \A t \in Workers : StdPc[t] = "exit"
    BY SameMeaning DEF Std!Assemble
  <2>2. \A t \in Workers : pc[t] \notin Batching
    BY <2>1 DEF StdPc
  <2>3. \A t \in Workers : batch[t].rl = <<>>
    BY <1>1, <2>2 DEF UInv, RingInv, WorkerRing
  <2>. QED  BY <2>3, EmptySeq DEF Awaited, Awaiting
<1>5. Std!ChargedOnce
  <2> SUFFICES ASSUME NEW q \in Std!Records, NEW r \in Std!Records,
                      MultiLinked(q.entry), MultiLinked(r.entry),
                      Inode(q.entry) = Inode(r.entry), q # r
               PROVE  q.own = 0 \/ r.own = 0
    BY SameMeaning DEF Std!ChargedOnce
  <2>1. UInode(q.entry) = UInode(r.entry)
    BY <1>3, SameInodes
  <2>. QED  BY <1>2, <2>1 DEF UCharging, UChargedOnce
<1>6. ASSUME NEW r \in Std!Records
      PROVE  /\ r.own \in {0, Meta[r.entry].own}
             /\ Std!Failed(r) \/
                  IF MultiLinked(r.entry)
                  THEN \E q \in Std!Records : Std!Charged(q) /\ Inode(q.entry) = Inode(r.entry)
                  ELSE r.own = Meta[r.entry].own
  <2>1. USized(r)
    BY <1>2 DEF UCharging
  <2>2. CASE ~MultiLinked(r.entry)
    BY <1>4, <2>1, <2>2 DEF USized, Std!Failed
  <2>3. CASE MultiLinked(r.entry) /\ ~Std!Failed(r)
    <3>1. UInode(r.entry) \in seen
      BY <1>4, <2>1, <2>3 DEF USized, Std!Failed
    <3>2. PICK q \in Std!Records : UCharged(q) /\ UInode(q.entry) = UInode(r.entry)
      BY <1>2, <3>1 DEF UCharging, USeenIsCharged
    <3>3. Std!Charged(q) /\ Inode(q.entry) = Inode(r.entry)
      BY <1>3, <3>2, SameInodes, SameMeaning DEF UCharged, Std!Charged
    <3>. QED  BY <2>1, <2>3, <3>3 DEF USized
  <2>4. CASE Std!Failed(r)
    BY <2>1, <2>4 DEF USized
  <2>. QED  BY <2>2, <2>3, <2>4
<1>7. Std!RecordsCharged
  BY <1>5, <1>6, SameMeaning DEF Std!RecordsCharged
<1>8. Std!ArenaCharges'
  BY <1>1, <1>2, <1>7, StdAssumptions, Std!ArenaInherits
<1>. QED  BY <1>8 DEF Std!ArenaSized

UTotal == UWalk /\ UReading /\ UCharges /\ Std!ArenaSized

LEMMA UTotalInit == UInit => UTotal
<1> SUFFICES ASSUME UInit PROVE UTotal
  OBVIOUS
<1>1. UIds /\ nodes = <<>> /\ seen = {}
  BY UIdsInit DEF UInit, Init
<1>2. \A t \in Workers : local[t] = {} /\ recs[t] = {} /\ batch[t].rl = <<>>
  BY DEF UInit, Init, EmptyBatch
<1>3. Std!Records = {}
  <2>1. \A t \in Workers : Std!Bucket(t) = {}
    BY <1>1, <1>2, StdRecords, ToSetOfSeq, EmptySeq DEF UIds
  <2>. QED  BY <1>1, <2>1, StdRecords DEF UIds
<1>4. UReading
  BY <1>3 DEF UReading, Std!Unread, Std!Untouched, Std!EntryOnce
<1>5. UCharges
  BY <1>1, <1>3 DEF UCharges, UCharging, USeenIsCharged, UChargedOnce
<1>6. Std!ArenaSized
  BY <1>1 DEF Std!ArenaSized
<1>. QED  BY <1>4, <1>5, <1>6, UWalkInit DEF UTotal

LEMMA UTotalStep == UTotal /\ [UNext]_uvars => UTotal'
<1> SUFFICES ASSUME UTotal, [UNext]_uvars PROVE UTotal'
  OBVIOUS
<1>1. UWalk /\ UReading /\ UCharges /\ Std!ArenaSized /\ UInv
  BY DEF UTotal, UWalk, UIds
<1>2. UWalk' /\ UReading' /\ UCharges'
  BY <1>1, UWalkStep, UReadingStep, UChargesStep
<1>3. CASE nodes' # nodes
  BY <1>1, <1>2, <1>3, ArenaStep, AssembleUCharges DEF UTotal
<1>4. CASE nodes' = nodes
  <2>1. cfg' = cfg
    BY <1>1, UConfigStays
  <2>2. Std!ArenaSized'
    BY <1>1, <1>4, <2>1 DEF Std!ArenaSized, Std!ArenaCharges, Std!NodeFailed, Std!NodeCharged,
       Std!SameInode, Std!MultiLinked, Std!Inode
  <2>. QED  BY <1>2, <2>2 DEF UTotal
<1>. QED  BY <1>3, <1>4

(***************************************************************************)
(* The blocks of a multiply-linked file are counted once in the io_uring   *)
(* backend's arena too, whichever worker's ring completes which of its     *)
(* names first (internal.rs:388-389): each record is charged when its      *)
(* answer comes, in whatever order, under the device as statx packs it,    *)
(* and that packing takes no two devices for one.                          *)
(***************************************************************************)
THEOREM UringTotalIsDu == USpec => []TotalIsDu
<1>1. UTotal => TotalIsDu
  BY SameTotal, StdAssumptions, Std!ArenaAddsUp DEF UTotal
<1>. QED  BY UTotalInit, UTotalStep, <1>1, PTL DEF USpec

-----------------------------------------------------------------------------
(* The entry ceiling.                                                      *)

\* The ids that a worker which has found room may still take.
Room == [t \in Workers |-> IF pc[t] = "open" THEN Len(Listing[item[t].dir]) ELSE 0]

(***************************************************************************)
(* A worker that finds room finds the counter below the ceiling, and from  *)
(* then on what it may take is reckoned in: the counter and the directories *)
(* about to be opened stay bounded together, in whatever order the workers *)
(* take what they were let through for.                                    *)
(***************************************************************************)
UBudget ==
  IF cfg.max_entries <= 1
  THEN counter = 1 /\ \A t \in Workers : pc[t] # "open"
  ELSE counter + Sum(Room, Workers) <= cfg.max_entries - 1 + InFlightMax

LEMMA UInFlightBound ==
  /\ InFlightMax \in Nat
  /\ \A S \in SUBSET Entry : Cardinality(S) <= NThreads =>
       EntriesIn(S) = Sum([d \in Entry |-> Len(Listing[d])], S) /\ EntriesIn(S) <= InFlightMax
<1>1. ASSUME NEW S PROVE Std!EntriesIn(S) = EntriesIn(S)
  BY DEF Std!EntriesIn, EntriesIn, Std!MapThenSumSet, MapThenSumSet, Std!MapThenFoldSet, MapThenFoldSet
<1>2. Std!InFlightMax = InFlightMax
  BY <1>1 DEF Std!InFlightMax, InFlightMax, Std!Max, Max, Cardinality, Std!Cardinality,
              IsFiniteSet, Std!IsFiniteSet
<1>3. ASSUME NEW f, NEW S PROVE Std!Sum(f, S) = Sum(f, S)
  BY DEF Std!Sum, Sum, Std!MapThenSumSet, MapThenSumSet, Std!MapThenFoldSet, MapThenFoldSet
<1>4. \A S \in SUBSET Entry : Std!EntriesIn(S) = Std!Sum([d \in Entry |-> Len(Listing[d])], S)
  BY StdAssumptions, Std!EntriesSum
<1>5. Std!InFlightMax \in Nat
      /\ \A S \in SUBSET Entry : Std!Cardinality(S) <= NThreads => Std!EntriesIn(S) <= Std!InFlightMax
  BY StdAssumptions, Std!InFlightBound
<1>6. \A S : Std!Cardinality(S) = Cardinality(S)
  BY DEF Cardinality, Std!Cardinality, IsFiniteSet, Std!IsFiniteSet
<1>. QED  BY <1>1, <1>2, <1>3, <1>4, <1>5, <1>6

LEMMA CounterIsNat == UInv => counter \in Nat
BY StdTypes DEF UInv, UType, StdShapes

LEMMA RoomIsNat ==
  ASSUME UInv
  PROVE  Room \in [Workers -> Nat]
<1>1. item \in [Workers -> Item]
  BY StdTypes DEF UInv, UType, StdShapes
<1>2. \A d \in Entry : Len(Listing[d]) \in Nat
  BY FileTreeAssumption, LenProperties
<1>. QED  BY <1>1, <1>2 DEF Room, Item

(***************************************************************************)
(* The workers that have found room are about to open different            *)
(* directories.                                                            *)
(***************************************************************************)
LEMMA RoomFits ==
  ASSUME UWalk, UReading, nodes = <<>>
  PROVE  Sum(Room, Workers) <= InFlightMax
<1>1. UInv /\ Std!WalkInv /\ Std!EntryOnce
  BY DEF UWalk, UIds, Std!WalkInv, UReading
<1>2. Std!Walking
  BY <1>1, StdAssumptions, Std!StillWalkingInv
<1>. /\ Std!TypeInv /\ Std!NoHole /\ Std!NoClash /\ Std!ItemsNamed /\ Std!ItemsReached
     /\ Std!ParentNamed /\ Std!Apart
  BY <1>2 DEF Std!Walking
<1> DEFINE A == {t \in Workers : pc[t] = "open"}
           b == [t \in A |-> item[t].dir]
           h == [d \in Entry |-> Len(Listing[d])]
           D == {b[t] : t \in A}
<1>3. item \in [Workers -> Item] /\ Room \in [Workers -> Nat]
  BY <1>1, RoomIsNat, StdTypes DEF UInv, UType, StdShapes
<1>4. \A t \in A : b[t] \in Entry /\ Room[t] = h[b[t]] /\ Room[t] \in Int
  BY <1>3 DEF Room, Item
<1>5. \A t, u \in A : b[t] = b[u] => t = u
  <2> SUFFICES ASSUME NEW t \in A, NEW u \in A, b[t] = b[u], t # u PROVE FALSE
    OBVIOUS
  <2>1. StdPc[t] = "guard" /\ StdPc[u] = "guard"
    BY DEF StdPc, Batching
  <2>2. Std!Busy(t) /\ Std!Busy(u)
    BY <2>1 DEF Std!Busy
  <2>3. item[t] \in Std!Known /\ item[u] \in Std!Known
    BY StdAssumptions, SameMeaning, Std!KnownSeqs
  <2>4. item[t] = item[u]
    BY <1>1, <2>3, StdAssumptions, Std!SameDirSameItem
  <2>. QED  BY <2>2, <2>4, SameMeaning DEF Std!Apart
<1>6. IsFiniteSet(Workers) /\ Cardinality(Workers) = NThreads /\ NThreads \in Nat
  BY FS_Interval, WorkersAssumption DEF Workers
<1>7. IsFiniteSet(A) /\ IsFiniteSet(Workers \ A) /\ Cardinality(A) <= NThreads
  BY <1>6, FS_Subset
<1>8. D \in SUBSET Entry /\ Cardinality(D) <= NThreads
  <2>1. D \in SUBSET Entry
    BY <1>4
  <2>2. Cardinality(D) <= Cardinality(A) /\ IsFiniteSet(D)
    <3> HIDE DEF b, A
    <3>. QED  BY <1>7, FiniteImage
  <2>3. Cardinality(D) \in Nat /\ Cardinality(A) \in Nat
    BY <1>7, <2>2, FS_CardinalityType
  <2>. QED  BY <1>6, <1>7, <2>1, <2>2, <2>3
<1>9. Sum(Room, Workers) = Sum(Room, A) + Sum(Room, Workers \ A)
  <2>1. A \cup (Workers \ A) = Workers /\ A \cap (Workers \ A) = {}
    OBVIOUS
  <2>2. IntOn(Room, A \cup (Workers \ A))
    BY <1>3, <2>1 DEF IntOn
  <2>3. Sum(Room, A \cup (Workers \ A)) = Sum(Room, A) + Sum(Room, Workers \ A)
    <3> HIDE DEF A
    <3>. QED  BY <1>7, <2>1, <2>2, SumUnion
  <2>. QED  BY <2>1, <2>3
<1>10. Sum(Room, Workers \ A) = 0
  <2>1. \A t \in Workers \ A : Room[t] = 0
    BY DEF Room
  <2> HIDE DEF A
  <2>. QED  BY <1>7, <2>1, SumZero
<1>11. Sum(h, D) = Sum(Room, A)
  <2> HIDE DEF h, b, A
  <2>. QED  BY <1>4, <1>5, <1>7, SumImage
<1>12. Sum(h, D) <= InFlightMax /\ InFlightMax \in Nat /\ Sum(h, D) \in Nat
  <2>1. Sum(h, D) <= InFlightMax /\ InFlightMax \in Nat
    BY <1>8, UInFlightBound
  <2>2. \A t \in A : Room[t] \in Nat
    BY <1>3
  <2>3. Sum(Room, A) \in Nat
    <3> HIDE DEF A
    <3>. QED  BY <1>7, <2>2, SumNat
  <2>. QED  BY <1>11, <2>1, <2>3
<1> HIDE DEF h, b, A, D
<1>. QED  BY <1>9, <1>10, <1>11, <1>12

\* Only CheckLimits and OpenAt change what the workers have been let through for.
LEMMA RoomStays ==
  ASSUME UInv, [UNext]_uvars, \A t \in Workers : ~CheckLimits(t) /\ ~OpenAt(t)
  PROVE  Room' = Room /\ \A t \in Workers : pc'[t] = "open" <=> pc[t] = "open"
<1>1. pc \in [Workers -> UPc] /\ item \in [Workers -> Item]
  BY StdTypes DEF UInv, UType, StdShapes, RingInv, RingTypeOK, UPc
<1> DEFINE Same == \A u \in Workers : /\ pc'[u] = "open" <=> pc[u] = "open"
                                      /\ pc[u] = "open" => item'[u] = item[u]
<1>2. ASSUME NEW t \in Workers, GetDirectory(t) PROVE Same
  <2>1. pc[t] # "open" /\ \A u \in Workers : u # t => item'[u] = item[u]
    BY <1>1, <1>2 DEF GetDirectory, PopOwn, Steal, CheckActive
  <2>2. pc' = pc \/ \E c \in {"own", "steal", "guard", "publish"} : pc' = [pc EXCEPT ![t] = c]
    BY <1>2 DEF GetDirectory, PopOwn, Steal, CheckActive
  <2>. QED  BY <1>1, <2>1, <2>2
<1>3. ASSUME NEW t \in Workers, FinishDirectory(t) PROVE Same
  <2>1. pc[t] # "open" /\ \A u \in Workers : u # t => item'[u] = item[u]
    BY <1>1, <1>3 DEF FinishDirectory, PushChildren, PushTo, AddActive, SubActive, Publish
  <2>2. \E c \in {"add", "sub", "own", "exit"} : pc' = [pc EXCEPT ![t] = c]
    BY <1>3 DEF FinishDirectory, PushChildren, PushTo, AddActive, SubActive, Publish
  <2>. QED  BY <1>1, <2>1, <2>2
<1>4. ASSUME NEW t \in Workers, Setup(t) \/ Enter(t) \/ Reap(t) \/ AllHandled(t) \/ CloseDir(t)
      PROVE  Same
  <2>1. item' = item /\ pc[t] # "open"
    BY <1>4 DEF Setup, Enter, Reap, AllHandled, CloseDir
  <2>2. pc' = pc \/ \E c \in UPc \ {"open"} : pc' = [pc EXCEPT ![t] = c]
    BY <1>4 DEF Setup, Enter, Reap, AllHandled, CloseDir, UPc, Pc
  <2>. QED  BY <1>1, <2>1, <2>2
<1>5. ASSUME NEW t \in Workers, Queue(t) \/ Complete(t) \/ Handle(t) PROVE UNCHANGED <<item, pc>>
  BY <1>5, Zenon DEF Queue, Complete, Handle, vars, worker
<1>6. Assemble \/ UNCHANGED uvars => UNCHANGED <<item, pc>>
  BY DEF Assemble, uvars, vars, worker
<1>7. UNCHANGED <<item, pc>> => Same
  OBVIOUS
<1>8. Same
  <2> HIDE DEF Same
  <2>. QED  BY <1>2, <1>3, <1>4, <1>5, <1>6, <1>7 DEF UNext, UWorkerStep, Stopped
<1>. QED  BY <1>8 DEF Room

LEMMA UBudgetStep ==
  ASSUME UTotal, UTotal', UBudget, [UNext]_uvars
  PROVE  UBudget'
<1>1. UInv /\ UInv' /\ UWalk /\ UReading /\ UWalk' /\ UReading'
  BY DEF UTotal, UWalk, UIds
<1>2. /\ cfg' = cfg /\ InFlightMax \in Nat /\ cfg.max_entries \in Nat
      /\ counter \in Nat /\ counter' \in Nat /\ pc \in [Workers -> UPc] /\ item \in [Workers -> Item]
  <2>1. counter \in Nat /\ cfg \in CfgType /\ pc \in [Workers -> UPc] /\ item \in [Workers -> Item]
    BY <1>1, StdTypes DEF UInv, UType, StdShapes, RingInv, RingTypeOK, UPc
  <2>2. (UInv => counter \in Nat)'
    BY CounterIsNat, PTL
  <2>. QED  BY <1>1, <2>1, <2>2, UConfigStays, UInFlightBound DEF CfgType
<1>3. IsFiniteSet(Workers)
  BY FS_Interval, WorkersAssumption DEF Workers
<1>4. /\ Room \in [Workers -> Nat] /\ Room' \in [Workers -> Nat]
      /\ Sum(Room, Workers) \in Nat /\ Sum(Room', Workers) \in Nat
  <2>1. Room \in [Workers -> Nat]
    BY <1>1, RoomIsNat
  <2>2. (UInv => Room \in [Workers -> Nat])'
    BY RoomIsNat, PTL
  <2>. QED  BY <1>1, <1>3, <2>1, <2>2, SumNat
<1>5. CASE \A t \in Workers : ~CheckLimits(t) /\ ~OpenAt(t)
  <2>1. counter' = counter
    <3>1. ASSUME [Std!Next]_Std!vars PROVE counter' = counter
      BY <1>1, <3>1, StdCounter
    <3>2. ASSUME NEW t \in Workers, NEW i \in Nat, NEW s \in Nat, Fills(t, i, s)
          PROVE  counter' = counter
      BY <3>2 DEF Fills
    <3>. QED  BY <1>1, <1>5, <3>1, <3>2, UStep
  <2>2. Room' = Room /\ \A t \in Workers : pc'[t] = "open" <=> pc[t] = "open"
    BY <1>1, <1>5, RoomStays
  <2>. QED  BY <1>2, <2>1, <2>2 DEF UBudget
<1>6. ASSUME NEW t \in Workers, CheckLimits(t) PROVE UBudget'
  <2>1. /\ counter' = counter /\ item' = item /\ pc[t] = "guard"
        /\ pc' = [pc EXCEPT ![t] = IF MayDescend(t) THEN "open" ELSE "entry"]
    BY <1>6 DEF CheckLimits, shared
  <2>2. CASE MayDescend(t)
    <3>1. counter < cfg.max_entries
      BY <2>2 DEF MayDescend
    <3>2. nodes' = <<>>
      <4>1. StdPc[t] = "guard"
        BY <2>1 DEF StdPc, Batching
      <4>2. nodes = <<>>
        BY <1>1, <4>1, SameMeaning DEF UInv, UType, Std!TypeInv, Std!Ended
      <4>. QED  BY <1>6, <4>2 DEF CheckLimits, shared
    <3>3. Sum(Room', Workers) <= InFlightMax
      <4>1. (UWalk /\ UReading /\ nodes = <<>> => Sum(Room, Workers) <= InFlightMax)'
        BY RoomFits, PTL
      <4>. QED  BY <1>1, <3>2, <4>1
    <3>4. ~(cfg.max_entries <= 1)
      BY <1>2, <3>1 DEF UBudget
    <3>. QED  BY <1>2, <1>4, <2>1, <3>1, <3>3, <3>4 DEF UBudget
  <2>3. CASE ~MayDescend(t)
    <3>1. Room' = Room /\ \A u \in Workers : pc'[u] = "open" <=> pc[u] = "open"
      BY <1>2, <2>1, <2>3 DEF Room
    <3>. QED  BY <1>2, <2>1, <3>1 DEF UBudget
  <2>. QED  BY <2>2, <2>3
<1>7. ASSUME NEW t \in Workers, OpenAt(t) PROVE UBudget'
  <2>1. /\ pc[t] = "open" /\ item' = item
        /\ \E c \in {"batch", "entry"} : pc' = [pc EXCEPT ![t] = c]
    BY <1>7 DEF OpenAt
  <2>2. PICK k \in Nat : Opens(t, k)
    BY <1>1, <1>7, OpenAtOpens
  <2>3. counter' = counter + k /\ k \in 0 .. Len(Listing[item[t].dir])
    BY <2>2 DEF Opens
  <2>4. Room[t] = Len(Listing[item[t].dir]) /\ Room'[t] = 0
        /\ \A u \in Workers \ {t} : Room'[u] = Room[u]
    BY <1>2, <2>1 DEF Room
  <2>5. k <= Room[t] /\ Room[t] \in Nat
    BY <1>4, <2>3, <2>4
  <2>6. Sum(Room, Workers) = Room[t] + Sum(Room', Workers)
    <3>1. PICK r : r = Room'
      OBVIOUS
    <3>2. IntOn(Room, Workers) /\ IntOn(r, Workers)
      BY <1>4, <3>1 DEF IntOn
    <3>3. /\ Sum(Room, Workers) = Room[t] + Sum(Room, Workers \ {t})
          /\ Sum(r, Workers) = r[t] + Sum(r, Workers \ {t})
      BY <1>3, <3>2, SumRemove
    <3>4. IsFiniteSet(Workers \ {t}) /\ \A u \in Workers \ {t} : Room[u] = r[u]
      BY <1>3, <2>4, <3>1, FS_Subset
    <3>5. Sum(Room, Workers \ {t}) = Sum(r, Workers \ {t})
      BY <3>4, SumSame
    <3>6. Sum(r, Workers \ {t}) \in Int
      <4>1. IntOn(r, Workers \ {t})
        BY <3>2 DEF IntOn
      <4>. QED  BY <3>4, <4>1, SumInt
    <3>. QED  BY <2>4, <3>1, <3>3, <3>5, <3>6
  <2>7. ~(cfg.max_entries <= 1)
    BY <2>1 DEF UBudget
  <2>8. counter' + Sum(Room', Workers) <= counter + Sum(Room, Workers)
    BY <1>2, <1>4, <2>3, <2>5, <2>6
  <2>9. counter + Sum(Room, Workers) <= cfg.max_entries - 1 + InFlightMax
    BY <2>7 DEF UBudget
  <2>10. counter' + Sum(Room', Workers) <= cfg.max_entries - 1 + InFlightMax
    BY <1>2, <1>4, <2>8, <2>9
  <2>. QED  BY <1>2, <2>7, <2>10 DEF UBudget
<1>. QED  BY <1>5, <1>6, <1>7

LEMMA UBudgetInit == UInit => UBudget
<1> SUFFICES ASSUME UInit PROVE UBudget
  OBVIOUS
<1>1. /\ counter = 1 /\ cfg.max_entries \in Nat /\ InFlightMax \in Nat
      /\ \A t \in Workers : pc[t] = "own"
  BY UInFlightBound, FileTreeAssumption DEF UInit, Init, CfgType
<1>2. Sum(Room, Workers) = 0
  <2>1. \A t \in Workers : Room[t] = 0
    BY <1>1 DEF Room
  <2>2. IsFiniteSet(Workers)
    BY FS_Interval, WorkersAssumption DEF Workers
  <2>. QED  BY <2>1, <2>2, SumZero
<1>. QED  BY <1>1, <1>2 DEF UBudget

(***************************************************************************)
(* The io_uring backend tests the ceiling before it lists a directory and  *)
(* takes all the directory's ids afterwards (internal.rs:347, :354): the   *)
(* workers that were let through together pass the ceiling together, but   *)
(* by no more than the entries of as many directories as there are         *)
(* workers, and a ceiling of 0 or 1 leaves the root alone.                 *)
(***************************************************************************)
THEOREM UringCeilingHolds == USpec => []OvershootBounded
<1>1. UTotal /\ UBudget /\ [UNext]_uvars => (UTotal /\ UBudget)'
  BY UTotalStep, UBudgetStep
<1>2. UTotal /\ UBudget => OvershootBounded
  <2> SUFFICES ASSUME UTotal, UBudget PROVE OvershootBounded
    OBVIOUS
  <2>1. UInv /\ cfg.max_entries \in Nat /\ counter \in Nat /\ InFlightMax \in Nat
    BY StdTypes, UInFlightBound DEF UTotal, UWalk, UIds, UInv, UType, StdShapes, CfgType
  <2>2. Sum(Room, Workers) \in Nat
    <3>1. Room \in [Workers -> Nat]
      BY <2>1, RoomIsNat
    <3>2. IsFiniteSet(Workers)
      BY FS_Interval, WorkersAssumption DEF Workers
    <3>. QED  BY <3>1, <3>2, SumNat
  <2>. QED  BY <2>1, <2>2 DEF UBudget, OvershootBounded
<1>. QED  BY UTotalInit, UBudgetInit, <1>1, <1>2, PTL DEF USpec

=============================================================================
